-------------------------- MODULE TCPStream_proofs --------------------------
(***************************************************************************)
(* What is proved about the two ends of a TCP connection together, for an  *)
(* orderly setup (OrderlySetup): nothing is lost, nothing fails, every     *)
(* timer and every indication has its reason, and the pair implements the  *)
(* reliable stream.                                                        *)
(*                                                                         *)
(* It rests on the invariant Paired.  EndOk is what Flow (TCPPair_proofs)  *)
(* leaves of one end between two events, Both the two ends with what is in *)
(* flight, SetupOk the handshake; PairOk is all of them.  As each end only *)
(* advances, a step of the pair is a step of ReliableStream or none.       *)
(***************************************************************************)
EXTENDS TCPPair_proofs

-----------------------------------------------------------------------------
(* The two ends together *)

\* The states before a connection is established, and those of an end that has none.
Beginning == {"INIT", "LISTEN", "SYN_SENT", "SYN_RCVD"}
Gone == {"INIT", "LISTEN", "CLOSED"}

\* A connection that has not been established.
Blank(c) ==
    /\ ~c.send_fin /\ ~c.fin_ack_rcvd /\ ~c.rexmitTimer /\ c.the2MSLTimer = 0
    /\ c.toApp = <<>> /\ ~c.fin_rcvd
    /\ ~Says(c.ind, "CLOSED") /\ ~Says(c.ind, "CONNECTION_RESET")

\* A connection that has sent its SYN, and waits for the ACK of it.
Starting(c, v) ==
    /\ c.iss = v.iss /\ c.snd_una = v.iss
    /\ c.snd_nxt = Plus(v.iss, 1) /\ c.snd_max = Plus(v.iss, 1) /\ c.begin = Plus(v.iss, 1)
    /\ c.sendQueue = Items(1, v.sent)

\* A connection that is established, has sent everything before offset max and
\* received everything before offset nxt; closed: its application has issued CLOSE.
Live(c, v, max, nxt, closed) ==
    /\ Flow(c, v) /\ Control(c, v)
    /\ Top(c, v) = max /\ Rcv(c, v) = nxt
    /\ c.send_fin <=> closed

\* How far the two ends have come.
Counts(v, max, nxt, closed) ==
    /\ max \in Nat /\ 1 <= max /\ max <= v.sent + 2 /\ v.peerNxt <= max
    /\ nxt \in Nat /\ 1 <= nxt /\ nxt <= v.peerMax /\ v.peerMax <= v.peerSent + 2
    /\ max = v.sent + 2 => closed

\* What the application knows.
Told2(c, v, nxt) ==
    /\ c.toApp = Delivered(nxt, v.peerSent)
    /\ Closing(c.ind)
    /\ Says(c.ind, "PEER_CLOSED") => nxt = v.peerSent + 2

\* The invariant of one end between two events, whatever its state.
EndOk(c, v, max, nxt, closed) ==
    /\ ~c.failed /\ c.out = {}
    /\ Counts(v, max, nxt, closed)
    /\ Told2(c, v, nxt)
    /\ c.state \in Synchronized => Live(c, v, max, nxt, closed)
    /\ c.state \in Beginning => Blank(c) /\ max = 1 /\ nxt = 1 /\ ~closed
    /\ c.state = "CLOSED" => ~c.rexmitTimer /\ c.the2MSLTimer = 0
    /\ c.state \in Setting => Starting(c, v)
    /\ c.state \in {"INIT", "LISTEN", "SYN_RCVD"} => v.sent = 0
    /\ c.state = "SYN_RCVD" => c.rcv_nxt = Plus(v.peerIss, 1) /\ c.receiveQueue = {}

\* The states.
LEMMA States ==
    /\ State = Beginning \cup Synchronized \cup {"CLOSED"}
    /\ Beginning \cap Synchronized = {} /\ "CLOSED" \notin Beginning \cup Synchronized
    /\ Setting \subseteq Beginning
BY DEF State, Beginning, Synchronized, Setting

\* The invariant of an end survives what its peer sends and receives.
LEMMA PeerGrows ==
    ASSUME NEW v \in View, NEW w \in View,
           w.sent = v.sent, w.iss = v.iss, w.peerIss = v.peerIss,
           \/ w.peerSent = v.peerSent
           \/ w.peerSent = v.peerSent + 1 /\ v.peerMax <= v.peerSent + 1,
           v.peerMax <= w.peerMax, w.peerMax <= w.peerSent + 2,
           v.peerNxt <= w.peerNxt,
           NEW max, NEW nxt, NEW closed, w.peerNxt <= max,
           NEW c \in Connection(v.sent, w.peerSent), EndOk(c, v, max, nxt, closed)
    PROVE  EndOk(c, w, max, nxt, closed)
<1>0. /\ v.sent \in Nat /\ v.peerSent \in Nat /\ w.peerSent \in Nat
      /\ v.peerMax \in Nat /\ w.peerMax \in Nat /\ v.peerNxt \in Nat /\ w.peerNxt \in Nat
      /\ max \in Nat /\ 1 <= max /\ max <= v.sent + 2
      /\ nxt \in Nat /\ 1 <= nxt /\ nxt <= v.peerMax /\ v.peerMax <= v.peerSent + 2
      /\ max = v.sent + 2 => closed
  BY ViewTypes DEF EndOk, Counts
<1>1. /\ v.peerMax = v.peerSent + 2 => w.peerSent = v.peerSent
      /\ nxt = v.peerSent + 2 => w.peerSent = v.peerSent
  BY <1>0
<1>2. Delivered(nxt, w.peerSent) = Delivered(nxt, v.peerSent)
  <2>1. CASE w.peerSent = v.peerSent
    BY <2>1
  <2>2. CASE w.peerSent # v.peerSent
    <3>1. nxt # v.peerSent + 2 /\ nxt # w.peerSent + 2
      BY <1>0, <2>2
    <3> QED BY <3>1 DEF Delivered
  <2> QED BY <2>1, <2>2
<1>3. Counts(w, max, nxt, closed)
  BY <1>0 DEF Counts
<1>4. Told2(c, w, nxt)
  BY <1>1, <1>2 DEF EndOk, Told2
<1>5. ASSUME c.state \in Synchronized PROVE Live(c, w, max, nxt, closed)
  <2>0. Flow(c, v) /\ Control(c, v) /\ Top(c, v) = max /\ Rcv(c, v) = nxt /\ (c.send_fin <=> closed)
    BY <1>5 DEF EndOk, Live
  <2>1. /\ Una(c, w) = Una(c, v) /\ Nxt(c, w) = Nxt(c, v) /\ Top(c, w) = Top(c, v)
        /\ Beg(c, w) = Beg(c, v) /\ Rcv(c, w) = Rcv(c, v)
    BY DEF Una, Nxt, Top, Beg, Rcv
  <2>2. SendSide(c, w)
    BY <2>0, <2>1 DEF Flow, SendSide
  <2>3. RecvSide(c, w)
    <3>1. /\ 1 <= Rcv(c, w) /\ Rcv(c, w) <= w.peerMax /\ w.peerMax <= w.peerSent + 2
      BY <1>0, <2>0, <2>1
    <3>2. c.toApp = Delivered(Rcv(c, w), w.peerSent)
      BY <1>2, <2>0, <2>1 DEF Flow, RecvSide
    <3>3. ASSUME NEW q \in c.receiveQueue
          PROVE  Minus(q[1], w.peerIss) = q[2] /\ q[2] <= w.peerSent /\ q[2] < w.peerMax
      <4>1. Minus(q[1], v.peerIss) = q[2] /\ q[2] <= v.peerSent /\ q[2] < v.peerMax
        BY <2>0 DEF Flow, RecvSide
      <4>2. q[2] \in Nat
        <5>1. c \in Connection(v.sent, v.peerSent)
          BY <2>0 DEF Flow
        <5>2. c.receiveQueue \in Received(v.peerSent)
          BY <5>1, ConnectionTypes
        <5>3. q[2] \in 1 .. v.peerSent
          BY <5>2 DEF Received
        <5> QED BY <1>0, <5>3
      <4> DEFINE x == q[2]
      <4>3. x \in Nat /\ x <= v.peerSent /\ x < v.peerMax
        BY <4>1, <4>2
      <4> HIDE DEF x
      <4>4. x <= w.peerSent /\ x < w.peerMax
        BY <1>0, <4>3
      <4> QED BY <4>1, <4>4 DEF x
    <3>4. c.fin_rcvd => /\ Minus(c.rcv_fin_seq, w.peerIss) = w.peerSent + 1
                        /\ w.peerMax = w.peerSent + 2
      <4>1. c.fin_rcvd => /\ Minus(c.rcv_fin_seq, v.peerIss) = v.peerSent + 1
                          /\ v.peerMax = v.peerSent + 2
        BY <2>0 DEF Flow, RecvSide
      <4> QED BY <1>0, <1>1, <4>1
    <3> QED BY <3>1, <3>2, <3>3, <3>4 DEF RecvSide
  <2>4. Flow(c, w)
    <3>1. \A s \in c.out : Mine(s, c, w)
      BY DEF EndOk
    <3>2. Una(c, w) <= w.peerNxt /\ w.peerNxt <= Top(c, w)
      <4>1. Una(c, v) <= v.peerNxt /\ Una(c, v) \in Nat
        BY <2>0, OffsetTypes DEF Flow
      <4> QED BY <1>0, <2>0, <2>1, <4>1
    <3> QED BY <2>0, <2>2, <2>3, <3>1, <3>2 DEF Flow
  <2>5. Control(c, w)
    <3>1. Rcv(c, v) = v.peerSent + 2 => w.peerSent = v.peerSent
      BY <1>1, <2>0
    <3>2. Rcv(c, v) <= v.peerSent + 1 => Rcv(c, v) <= w.peerSent + 1
      BY <1>0, <2>0
    <3>3. ToldRight(c, w)
      BY <2>0, <2>1, <3>1 DEF Control, ToldRight
    <3> QED BY <2>0, <2>1, <3>1, <3>2, <3>3 DEF Control
  <2> QED BY <2>0, <2>1, <2>4, <2>5 DEF Live
<1>6. c.state \in Setting => Starting(c, w)
  BY DEF EndOk, Starting
<1> QED
  BY <1>3, <1>4, <1>5, <1>6 DEF EndOk

\* ... and the choice of the peer's initial sequence number, as long as there is no
\* connection.
LEMMA PeerBegins ==
    ASSUME NEW v, NEW w,
           w.sent = v.sent, w.iss = v.iss, w.peerSent = v.peerSent,
           w.peerMax = v.peerMax, w.peerNxt = v.peerNxt,
           NEW max, NEW nxt, NEW closed, NEW c, EndOk(c, v, max, nxt, closed),
           c.state \notin Synchronized \cup {"SYN_RCVD"}
    PROVE  EndOk(c, w, max, nxt, closed)
BY DEF EndOk, Counts, Told2, Starting

\* An end that is gone.
LEMMA ClosedEnd ==
    ASSUME NEW v, NEW max, NEW nxt, NEW closed, Counts(v, max, nxt, closed),
           NEW d, d.state = "CLOSED", ~d.failed, Told2(d, v, nxt)
    PROVE  LET e == removeConnection([d EXCEPT !.out = {}])
           IN  EndOk(e, v, max, nxt, closed) /\ e.state = "CLOSED" /\ e.ind = d.ind
<1> DEFINE e == removeConnection([d EXCEPT !.out = {}])
           f == [NewConnection(0) EXCEPT !.state = "CLOSED", !.toApp = d.toApp, !.ind = d.ind]
<1>1. e = f
  BY DEF removeConnection
<1>2. /\ f.state = "CLOSED" /\ f.toApp = d.toApp /\ f.ind = d.ind /\ ~f.failed /\ f.out = {}
      /\ ~f.rexmitTimer /\ f.the2MSLTimer = 0
  BY DEF NewConnection
<1> HIDE DEF e, f
<1>3. f.state \notin Synchronized \cup Beginning \cup Setting
  BY <1>2, States
<1>4. EndOk(f, v, max, nxt, closed)
  BY <1>2, <1>3 DEF EndOk, Told2, Beginning
<1> QED
  BY <1>1, <1>2, <1>4 DEF e

\* An established connection after its handler.
LEMMA LiveEnd ==
    ASSUME NEW v \in View, NEW d, Flow(d, v), d.state \in Synchronized, Control(d, v),
           NEW closed, d.send_fin <=> closed
    PROVE  LET e == removeConnection([d EXCEPT !.out = {}])
           IN  /\ EndOk(e, v, Top(d, v), Rcv(d, v), closed)
               /\ e.state = d.state /\ e.ind = d.ind
<1> DEFINE f == [d EXCEPT !.out = {}]
           e == removeConnection(f)
<1>1. d \in Connection(v.sent, v.peerSent) /\ {} \in Outgoing(v.sent)
  BY DEF Flow, Outgoing
<1>2. /\ f \in Connection(v.sent, v.peerSent) /\ f.out = {}
      /\ f.failed = d.failed /\ f.iss = d.iss
      /\ f.snd_una = d.snd_una /\ f.snd_nxt = d.snd_nxt /\ f.snd_max = d.snd_max
      /\ f.begin = d.begin /\ f.sendQueue = d.sendQueue
      /\ f.send_fin = d.send_fin /\ f.snd_fin_seq = d.snd_fin_seq
      /\ f.fin_ack_rcvd = d.fin_ack_rcvd
      /\ f.rcv_nxt = d.rcv_nxt /\ f.receiveQueue = d.receiveQueue
      /\ f.fin_rcvd = d.fin_rcvd /\ f.rcv_fin_seq = d.rcv_fin_seq
      /\ f.toApp = d.toApp /\ f.state = d.state /\ f.ind = d.ind
      /\ f.the2MSLTimer = d.the2MSLTimer /\ f.rexmitTimer = d.rexmitTimer
  BY <1>1 DEF Connection
<1> HIDE DEF f
<1>3. e = f
  BY <1>2, States DEF removeConnection
<1> HIDE DEF e
<1>4. /\ Una(f, v) = Una(d, v) /\ Nxt(f, v) = Nxt(d, v) /\ Top(f, v) = Top(d, v)
      /\ Beg(f, v) = Beg(d, v) /\ Rcv(f, v) = Rcv(d, v)
  BY <1>2 DEF Una, Nxt, Top, Beg, Rcv
<1>5. Flow(f, v)
  <2>1. SendSide(f, v)
    BY <1>2, <1>4 DEF Flow, SendSide
  <2>2. RecvSide(f, v)
    BY <1>2, <1>4 DEF Flow, RecvSide
  <2>3. \A s \in f.out : Mine(s, f, v)
    BY <1>2
  <2> QED BY <1>2, <1>4, <2>1, <2>2, <2>3 DEF Flow
<1>6. Control(f, v)
  <2>1. TimerExact(f)
    BY <1>2 DEF Control, TimerExact
  <2>2. (f.the2MSLTimer > 0) = (d.the2MSLTimer > 0)
    BY <1>2
  <2> QED BY <1>2, <1>4, <2>1, <2>2, ControlKept
<1>7. Live(f, v, Top(d, v), Rcv(d, v), closed)
  BY <1>2, <1>4, <1>5, <1>6 DEF Live
<1>8. Counts(v, Top(d, v), Rcv(d, v), closed)
  <2>1. Top(d, v) \in Nat /\ Rcv(d, v) \in Nat
    BY <1>1, OffsetTypes
  <2>2. /\ 1 <= Top(d, v) /\ Top(d, v) <= v.sent + 2 /\ v.peerNxt <= Top(d, v)
        /\ Top(d, v) = v.sent + 2 => d.send_fin
    BY <2>1, FlowFacts, ViewTypes DEF Flow, SendSide
  <2>3. 1 <= Rcv(d, v) /\ Rcv(d, v) <= v.peerMax /\ v.peerMax <= v.peerSent + 2
    BY <2>1, FlowFacts, ViewTypes DEF Flow, RecvSide
  <2> QED BY <2>1, <2>2, <2>3 DEF Counts
<1>9. Told2(f, v, Rcv(d, v))
  <2>1. d.toApp = Delivered(Rcv(d, v), v.peerSent)
    BY DEF Flow, RecvSide
  <2>2. Closing(d.ind) /\ (Says(d.ind, "PEER_CLOSED") => Rcv(d, v) = v.peerSent + 2)
    BY DEF Control, ToldRight
  <2> QED BY <1>2, <2>1, <2>2 DEF Told2
<1>10. f.state \notin Beginning /\ f.state # "CLOSED" /\ f.state \notin Setting
       /\ f.state \notin {"INIT", "LISTEN", "SYN_RCVD"}
  BY <1>2, States DEF Beginning
<1>11. EndOk(f, v, Top(d, v), Rcv(d, v), closed)
  BY <1>2, <1>5, <1>7, <1>8, <1>9, <1>10 DEF EndOk, Flow
<1> QED
  BY <1>2, <1>3, <1>11 DEF e, f

\* ... also when it has closed the connection.
LEMMA OutcomeEnd ==
    ASSUME NEW v \in View, NEW c, NEW d, Outcome(c, d, v), NEW closed, c.send_fin <=> closed
    PROVE  LET e == removeConnection([d EXCEPT !.out = {}])
           IN  /\ EndOk(e, v, Top(d, v), Rcv(d, v), closed)
               /\ e.state = d.state /\ e.ind = d.ind
<1>0. Flow(d, v) /\ (d.send_fin <=> closed)
  BY DEF Outcome
<1>1. CASE d.state \in Synchronized
  <2>1. Control(d, v)
    BY <1>1 DEF Outcome
  <2> QED BY <1>0, <1>1, <2>1, LiveEnd
<1>2. CASE d.state = "CLOSED"
  <2>1. Counts(v, Top(d, v), Rcv(d, v), closed)
    BY <1>0, FlowFacts, OffsetTypes DEF Flow, SendSide, RecvSide, Counts
  <2>2. Told2(d, v, Rcv(d, v))
    BY <1>0 DEF Outcome, Flow, RecvSide, Told2
  <2> QED BY <1>0, <1>2, <2>1, <2>2, ClosedEnd DEF Flow
<1> QED
  BY <1>1, <1>2 DEF Outcome

\* b is c after its application has been told of the reason, if there is one.
Warned(c, b) ==
    /\ ~b.failed /\ b.state = c.state /\ b.toApp = c.toApp
    /\ \/ b.ind = c.ind
       \/ /\ c.state # "TIME_WAIT"
          /\ \E x \in Indication \ {"CLOSED", "PEER_CLOSED"} : b.ind = Append(c.ind, x)

\* The transition to CLOSED, from whichever state and for whichever reason; b is the
\* connection after the application has been told of the reason.
LEMMA Shutdown ==
    ASSUME NEW v, NEW max, NEW nxt, NEW closed, NEW n, NEW m, NEW c \in Connection(n, m),
           EndOk(c, v, max, nxt, closed), c.state # "CLOSED",
           NEW closed2, closed => closed2,
           NEW b \in Connection(n, m), Warned(c, b),
           NEW event, NextState(b, event) = "CLOSED"
    PROVE  LET d == performStateTransition(b, event)
               e == removeConnection([d EXCEPT !.out = {}])
           IN  /\ d.state = "CLOSED" /\ d.out = b.out
               /\ EndOk(e, v, max, nxt, closed2) /\ e.state = "CLOSED"
               /\ Says(e.ind, "CONNECTION_RESET") <=> Says(b.ind, "CONNECTION_RESET")
<1> DEFINE d == performStateTransition(b, event)
           e == removeConnection([d EXCEPT !.out = {}])
<1>1. /\ d \in Connection(n, m) /\ SameFlow(b, d) /\ d.state = "CLOSED"
      /\ d.ind = b.ind \/ (b.state # "TIME_WAIT" /\ d.ind = Append(b.ind, "CLOSED"))
  <2>1. LET st == NextState(b, event)
        IN  /\ d \in Connection(n, m) /\ SameFlow(b, d) /\ d.state = st
            /\ st # b.state =>
                  d.ind = CASE st = "CLOSE_WAIT" -> Append(b.ind, "PEER_CLOSED")
                            [] st = "TIME_WAIT" -> Append(b.ind, "CLOSED")
                            [] st = "CLOSED" /\ b.state # "TIME_WAIT" /\ event # "ABORT" ->
                                  Append(b.ind, "CLOSED")
                            [] OTHER -> b.ind
    BY TransitionFrame DEF Warned
  <2> HIDE DEF d
  <2> QED BY <2>1 DEF Warned
<1> HIDE DEF d
<1> USE DEF Warned
<1>2. /\ c.ind \in Seq(Indication) /\ b.ind \in Seq(Indication)
      /\ "CLOSED" \in Indication /\ "PEER_CLOSED" # "CLOSED" /\ "CONNECTION_RESET" # "CLOSED"
  BY ConnectionTypes DEF Indication
<1>3. c.state # "TIME_WAIT" => ~Says(c.ind, "CLOSED")
  <2>1. c.state \in Beginning \cup Synchronized
    <3>1. c.state \in State
      BY ConnectionTypes
    <3> QED BY <3>1, States
  <2>2. c.state \in Beginning => ~Says(c.ind, "CLOSED")
    BY DEF EndOk, Blank
  <2>3. c.state \in Synchronized /\ c.state # "TIME_WAIT" => ~Says(c.ind, "CLOSED")
    BY DEF EndOk, Live, Control, ToldRight
  <2> QED BY <2>1, <2>2, <2>3
<1>4. /\ Closing(b.ind)
      /\ b.state # "TIME_WAIT" => ~Says(b.ind, "CLOSED")
      /\ Says(b.ind, "PEER_CLOSED") => Says(c.ind, "PEER_CLOSED")
  <2>1. CASE b.ind = c.ind
    BY <1>3, <2>1 DEF EndOk, Told2
  <2>2. ASSUME c.state # "TIME_WAIT",
               NEW x \in Indication \ {"CLOSED", "PEER_CLOSED"}, b.ind = Append(c.ind, x)
        PROVE  /\ Closing(b.ind) /\ ~Says(b.ind, "CLOSED")
               /\ Says(b.ind, "PEER_CLOSED") => Says(c.ind, "PEER_CLOSED")
    <3>1. x \in Indication /\ x # "CLOSED" /\ x # "PEER_CLOSED" /\ ~Says(c.ind, "CLOSED")
      BY <1>3, <2>2
    <3>2. /\ Says(Append(c.ind, x), "CLOSED") <=> Says(c.ind, "CLOSED") \/ x = "CLOSED"
          /\ Says(Append(c.ind, x), "PEER_CLOSED") <=> Says(c.ind, "PEER_CLOSED") \/ x = "PEER_CLOSED"
          /\ ~Says(c.ind, "CLOSED") => Closing(Append(c.ind, x))
      BY <1>2, <3>1, SaysAppend
    <3> QED BY <2>2, <3>1, <3>2
  <2> QED BY <2>1, <2>2
<1>5. /\ Closing(d.ind)
      /\ Says(d.ind, "PEER_CLOSED") => Says(c.ind, "PEER_CLOSED")
      /\ Says(d.ind, "CONNECTION_RESET") <=> Says(b.ind, "CONNECTION_RESET")
  <2>1. CASE d.ind = b.ind
    BY <1>4, <2>1
  <2>2. CASE b.state # "TIME_WAIT" /\ d.ind = Append(b.ind, "CLOSED")
    <3>1. /\ Says(Append(b.ind, "CLOSED"), "CONNECTION_RESET")
                <=> Says(b.ind, "CONNECTION_RESET") \/ "CLOSED" = "CONNECTION_RESET"
          /\ Says(Append(b.ind, "CLOSED"), "PEER_CLOSED")
                <=> Says(b.ind, "PEER_CLOSED") \/ "CLOSED" = "PEER_CLOSED"
          /\ ~Says(b.ind, "CLOSED") => Closing(Append(b.ind, "CLOSED"))
      BY <1>2, SaysAppend
    <3> QED BY <1>2, <1>4, <2>2, <3>1
  <2> QED BY <1>1, <2>1, <2>2
<1>6. d.toApp = c.toApp /\ d.out = b.out /\ ~d.failed
  BY <1>1 DEF SameFlow
<1>7. Told2(d, v, nxt)
  BY <1>5, <1>6 DEF EndOk, Told2
<1>8. Counts(v, max, nxt, closed2)
  BY DEF EndOk, Counts
<1>9. EndOk(e, v, max, nxt, closed2) /\ e.state = "CLOSED" /\ e.ind = d.ind
  BY <1>1, <1>6, <1>7, <1>8, ClosedEnd
<1> QED
  BY <1>1, <1>5, <1>6, <1>9 DEF d

\* A reset.
Reset(s) == s.flags \in {{"RST"}, {"RST", "ACK"}}

\* What is left of the result d of a handler when its segments have been taken.
After(d) == removeConnection([d EXCEPT !.out = {}])

\* d is a result of the handler of a connection that had come to max and nxt: the
\* connection is right, has come to max2 and nxt2, is established or closed, and has
\* sent what it may.
Stepped(d, v, max, nxt, max2, nxt2, closed) ==
    /\ EndOk(After(d), v, max2, nxt2, closed)
    /\ max <= max2 /\ nxt <= nxt2
    /\ After(d).state \in Synchronized \cup {"CLOSED"}
    /\ \A s \in d.out : \/ Piece(s, v.sent, v.iss, max2, v.peerIss, nxt2)
                        \/ Reset(s) /\ After(d).state = "CLOSED"

\* The application of d has been told of a reset.
ToldOfReset(d) == Says(After(d).ind, "CONNECTION_RESET")

\* A connection that lives on.
LEMMA LiveStep ==
    ASSUME NEW v \in View, NEW d, Flow(d, v), d.state \in Synchronized, Control(d, v),
           NEW closed, d.send_fin <=> closed,
           NEW max, NEW nxt, max <= Top(d, v), nxt <= Rcv(d, v)
    PROVE  /\ Stepped(d, v, max, nxt, Top(d, v), Rcv(d, v), closed)
           /\ ~ToldOfReset(d)
<1>1. LET e == removeConnection([d EXCEPT !.out = {}])
      IN  EndOk(e, v, Top(d, v), Rcv(d, v), closed) /\ e.state = d.state /\ e.ind = d.ind
  BY LiveEnd
<1>2. \A s \in d.out : Piece(s, v.sent, v.iss, Top(d, v), v.peerIss, Rcv(d, v))
  BY DEF Flow, Mine
<1>3. ~Says(d.ind, "CONNECTION_RESET")
  BY DEF Control, ToldRight
<1> QED
  BY <1>1, <1>2, <1>3 DEF Stepped, ToldOfReset, After

\* The handler of a segment.
LEMMA OutcomeStep ==
    ASSUME NEW v \in View, NEW c, NEW d, Outcome(c, d, v), ~Says(d.ind, "CONNECTION_RESET"),
           NEW closed, c.send_fin <=> closed
    PROVE  /\ Stepped(d, v, Top(c, v), Rcv(c, v), Top(d, v), Rcv(d, v), closed)
           /\ ~ToldOfReset(d)
<1>1. LET e == removeConnection([d EXCEPT !.out = {}])
      IN  EndOk(e, v, Top(d, v), Rcv(d, v), closed) /\ e.state = d.state /\ e.ind = d.ind
  BY OutcomeEnd
<1>2. \A s \in d.out : Piece(s, v.sent, v.iss, Top(d, v), v.peerIss, Rcv(d, v))
  BY DEF Outcome, Flow, Mine
<1>3. /\ d.state \in Synchronized \cup {"CLOSED"}
      /\ Top(c, v) <= Top(d, v) /\ Rcv(c, v) <= Rcv(d, v)
  BY DEF Outcome
<1> QED
  BY <1>1, <1>2, <1>3 DEF Stepped, ToldOfReset, After

\* One more item at the end.
LEMMA ItemsMore ==
    ASSUME NEW n \in Nat, NEW a \in Nat, a <= n + 1
    PROVE  Append(Items(a, n), n + 1) = Items(a, n + 1)
<1> DEFINE L == n + 1 - a
           q == [i \in 1 .. L |-> a + i - 1]
           r == [i \in 1 .. L + 1 |-> a + i - 1]
           z == Append(q, n + 1)
<1>1. L \in Nat /\ a + L = n + 1 /\ (n + 1) + 1 - a = L + 1
  OBVIOUS
<1>2. Items(a, n) = q /\ Items(a, n + 1) = r
  BY <1>1 DEF Items
<1>3. q \in Seq(Nat) /\ Len(q) = L
  <2>1. \A i \in 1 .. L : a + i - 1 \in Nat
    BY <1>1
  <2> HIDE DEF L
  <2> QED BY <1>1, <2>1
<1>4. z \in Seq(Nat) /\ Len(z) = L + 1 /\ z[L + 1] = n + 1 /\ \A i \in 1 .. L : z[i] = q[i]
  <2> HIDE DEF L, q
  <2> QED BY <1>1, <1>3
<1>5. z = [i \in 1 .. L + 1 |-> z[i]]
  <2> HIDE DEF z, L
  <2> QED BY <1>1, <1>4
<1>6. ASSUME NEW i \in 1 .. L + 1 PROVE z[i] = a + i - 1
  <2>1. CASE i = L + 1
    <3>1. a + i - 1 = n + 1
      BY <1>1, <2>1
    <3> HIDE DEF z, L
    <3> QED BY <1>4, <2>1, <3>1
  <2>2. CASE i # L + 1
    <3>1. i \in 1 .. L
      BY <1>1, <2>2
    <3>2. q[i] = a + i - 1
      BY <3>1
    <3> HIDE DEF z, L, q
    <3> QED BY <1>4, <3>1, <3>2
  <2> QED BY <2>1, <2>2
<1> HIDE DEF z, L, q
<1> QED
  BY <1>2, <1>5, <1>6 DEF z

\* SEND on an established connection that its application has not closed.
LEMMA SendLive ==
    ASSUME NEW v \in View, NEW w \in View,
           w.sent = v.sent + 1, w.iss = v.iss, w.peerSent = v.peerSent, w.peerIss = v.peerIss,
           w.peerMax = v.peerMax, w.peerNxt = v.peerNxt,
           NEW c, Flow(c, v), c.state \in {"ESTABLISHED", "CLOSE_WAIT"}, Control(c, v),
           ~c.send_fin, c.out = {}, NEW win \in Windows
    PROVE  LET d == process_SEND(c, v.sent + 1, win)
           IN  /\ Stepped(d, w, Top(c, v), Rcv(c, v), Top(d, w), Rcv(d, w), FALSE)
               /\ ~ToldOfReset(d)
<1> DEFINE N == v.sent
           q == Append(c.sendQueue, N + 1)
           b == [c EXCEPT !.sendQueue = q]
           d == sendData(b, win)
<1>0. /\ N \in Nat /\ v.peerSent \in Nat /\ c \in Connection(N, v.peerSent)
      /\ Una(c, v) \in 1 .. N + 1 /\ Top(c, v) \in 1 .. N + 1
      /\ N + 1 \in Number /\ N + 1 \in Nat
  <2>1. N \in Nat /\ v.peerSent \in Nat /\ c \in Connection(N, v.peerSent) /\ w.sent \in Number
    BY ViewTypes DEF Flow
  <2>2. /\ Una(c, v) \in 1 .. N + 2 /\ Top(c, v) \in 1 .. N + 2
        /\ Nxt(c, v) \in 1 .. N + 2 /\ Una(c, v) <= Nxt(c, v) /\ Nxt(c, v) <= Top(c, v)
    BY FlowFacts
  <2>3. Top(c, v) # N + 2
    BY DEF Flow, SendSide
  <2> QED BY <2>1, <2>2, <2>3
<1>1. process_SEND(c, N + 1, win) = d
  BY DEF process_SEND
<1>2. c \in Connection(N + 1, v.peerSent) /\ q \in Queue(N + 1)
  <2>1. N <= N + 1 /\ v.peerSent <= v.peerSent
    BY <1>0
  <2>2. c \in Connection(N + 1, v.peerSent)
    BY <1>0, <2>1, MoreSent
  <2>3. c.sendQueue \in Queue(N)
    BY <1>0, ConnectionTypes
  <2> DEFINE p == c.sendQueue
  <2>4. p \in Seq(1 .. N) /\ Len(p) <= N
    BY <2>3 DEF Queue
  <2> HIDE DEF p
  <2>5. p \in Seq(1 .. N + 1) /\ N + 1 \in 1 .. N + 1
    <3>1. 1 .. N \subseteq 1 .. N + 1
      BY <1>0
    <3> QED BY <1>0, <2>4, <3>1
  <2>6. Append(p, N + 1) \in Seq(1 .. N + 1) /\ Len(Append(p, N + 1)) = Len(p) + 1 /\ Len(p) \in Nat
    BY <2>5
  <2>7. Append(p, N + 1) \in Queue(N + 1)
    BY <1>0, <2>4, <2>6 DEF Queue
  <2> QED BY <2>2, <2>7 DEF p
<1>3. b \in Connection(w.sent, w.peerSent)
  <2> HIDE DEF q
  <2> QED BY <1>2 DEF Connection
<1>4. /\ b.sendQueue = q /\ b.state = c.state /\ b.failed = c.failed /\ b.ind = c.ind
      /\ b.iss = c.iss /\ b.snd_una = c.snd_una /\ b.snd_nxt = c.snd_nxt
      /\ b.snd_max = c.snd_max /\ b.begin = c.begin
      /\ b.send_fin = c.send_fin /\ b.snd_fin_seq = c.snd_fin_seq
      /\ b.fin_ack_rcvd = c.fin_ack_rcvd
      /\ b.rcv_nxt = c.rcv_nxt /\ b.receiveQueue = c.receiveQueue
      /\ b.fin_rcvd = c.fin_rcvd /\ b.rcv_fin_seq = c.rcv_fin_seq
      /\ b.the2MSLTimer = c.the2MSLTimer /\ b.rexmitTimer = c.rexmitTimer
      /\ b.toApp = c.toApp /\ b.out = c.out
  <2> HIDE DEF q
  <2> QED BY <1>2 DEF Connection
<1> HIDE DEF b
<1>5. /\ Una(b, w) = Una(c, v) /\ Nxt(b, w) = Nxt(c, v) /\ Top(b, w) = Top(c, v)
      /\ Beg(b, w) = Beg(c, v) /\ Rcv(b, w) = Rcv(c, v)
  BY <1>4 DEF Una, Nxt, Top, Beg, Rcv
<1>6. /\ Beg(c, v) = Una(c, v) /\ c.sendQueue = Items(Una(c, v), N) /\ ~c.fin_ack_rcvd
  <2>1. Una(c, v) # N + 2
    BY <1>0
  <2> QED BY <2>1 DEF Flow, SendSide, Items
<1>7. q = Items(Una(c, v), N + 1)
  <2> DEFINE u == Una(c, v)
  <2>1. u \in Nat /\ u <= N + 1 /\ c.sendQueue = Items(u, N)
    BY <1>0, <1>6
  <2> HIDE DEF u
  <2>2. Append(Items(u, N), N + 1) = Items(u, N + 1)
    BY <1>0, <2>1, ItemsMore
  <2> QED BY <2>1, <2>2 DEF u
<1>8. SendSide(b, w)
  <2>1. /\ 1 <= Una(c, v) /\ Una(c, v) <= Nxt(c, v) /\ Nxt(c, v) <= Top(c, v)
    BY DEF Flow, SendSide
  <2>2. Top(c, v) <= w.sent + 2 /\ Una(c, v) # w.sent + 2 /\ Top(c, v) # w.sent + 2
    BY <1>0
  <2>3. q = [i \in 1 .. w.sent + 1 - Una(c, v) |-> Una(c, v) + i - 1]
    BY <1>7 DEF Items
  <2> HIDE DEF q
  <2> QED BY <1>4, <1>5, <1>6, <2>1, <2>2, <2>3 DEF SendSide
<1>9. RecvSide(b, w)
  BY <1>4, <1>5 DEF Flow, RecvSide
<1>10. Flow(b, w)
  <2>1. \A s \in b.out : Mine(s, b, w)
    BY <1>4
  <2>2. Una(b, w) <= w.peerNxt /\ w.peerNxt <= Top(b, w)
    BY <1>5 DEF Flow
  <2> QED BY <1>3, <1>4, <1>8, <1>9, <2>1, <2>2 DEF Flow
<1>11. Flow(d, w) /\ Sends(b, d, w) /\ TimerExact(d)
  <2>1. TimerExact(b)
    BY <1>4 DEF Control, TimerExact
  <2> QED BY <1>10, <2>1, DataFlow
<1> HIDE DEF d
<1>12. /\ d.state = c.state /\ d.ind = c.ind /\ d.the2MSLTimer = c.the2MSLTimer
       /\ Rcv(d, w) = Rcv(c, v) /\ Top(c, v) <= Top(d, w) /\ ~d.send_fin
  BY <1>4, <1>5, <1>11 DEF Sends, Same, Rcv
<1>13. Control(d, w)
  <2>1. Top(d, w) <= w.sent + 1
    <3>1. Top(d, w) # w.sent + 2 /\ Top(d, w) \in 1 .. w.sent + 2 /\ w.sent \in Nat
      BY <1>11, <1>12, FlowFacts, ViewTypes DEF Flow, SendSide
    <3> QED BY <3>1
  <2>2. ToldRight(d, w)
    BY <1>12 DEF Control, ToldRight
  <2>3. /\ c.state = "ESTABLISHED" => Rcv(d, w) <= w.peerSent + 1
        /\ c.state \in FinConsumed => Rcv(d, w) = w.peerSent + 2
        /\ d.the2MSLTimer > 0 <=> d.state = "TIME_WAIT"
    BY <1>12 DEF Control
  <2> QED BY <1>11, <1>12, <2>1, <2>2, <2>3 DEF Control, FinConsumed
<1>14. Rcv(c, v) \in Nat
  BY OffsetTypes DEF Flow
<1>15. Rcv(c, v) <= Rcv(d, w) /\ d.state \in Synchronized /\ (d.send_fin <=> FALSE)
  BY <1>12, <1>14 DEF Synchronized
<1>16. Stepped(d, w, Top(c, v), Rcv(c, v), Top(d, w), Rcv(d, w), FALSE) /\ ~ToldOfReset(d)
  BY <1>11, <1>12, <1>13, <1>15, LiveStep
<1> QED
  BY <1>1, <1>16

\* CLOSE on an established connection: the FIN leaves at once, or is left to the end of
\* the send queue.
LEMMA CloseLive ==
    ASSUME NEW v \in View, NEW c, Flow(c, v), c.state \in {"ESTABLISHED", "CLOSE_WAIT"},
           Control(c, v), ~c.send_fin, c.out = {}
    PROVE  LET d == process_CLOSE(c)
           IN  /\ Stepped(d, v, Top(c, v), Rcv(c, v), Top(d, v), Rcv(d, v), TRUE)
               /\ ~ToldOfReset(d)
<1> DEFINE N == v.sent
           end == BufferEndSeq(c)
           a == Plus(end, 1)
           s == Seg({"FIN", "ACK"}, c.snd_max, c.rcv_nxt, 0)
           c1 == [c EXCEPT !.send_fin = TRUE, !.snd_fin_seq = end]
           c3 == [c EXCEPT !.send_fin = TRUE, !.snd_fin_seq = end, !.out = {s},
                           !.rexmitTimer = TRUE, !.rexmit_count = 0,
                           !.snd_nxt = a, !.snd_max = a]
           d == process_CLOSE(c)
<1>0. /\ N \in Nat /\ N + 2 <= Half /\ Half \in Nat /\ SeqMod = 2 * Half /\ v.iss \in SeqNo
      /\ c \in Connection(N, v.peerSent)
      /\ Una(c, v) \in 1 .. N + 1 /\ Top(c, v) \in 1 .. N + 1
      /\ Rcv(c, v) \in Nat /\ 1 <= Rcv(c, v)
  <2>1. N \in Nat /\ c \in Connection(N, v.peerSent)
    BY ViewTypes DEF Flow
  <2>2. /\ Una(c, v) \in 1 .. N + 2 /\ Top(c, v) \in 1 .. N + 2
        /\ Nxt(c, v) \in 1 .. N + 2 /\ Una(c, v) <= Nxt(c, v) /\ Nxt(c, v) <= Top(c, v)
    BY FlowFacts
  <2>3. Top(c, v) # N + 2
    BY DEF Flow, SendSide
  <2>4. Rcv(c, v) \in Nat /\ 1 <= Rcv(c, v)
    BY <2>1, OffsetTypes DEF Flow, RecvSide
  <2> QED BY <2>1, <2>2, <2>3, <2>4, ViewTypes, HalfFacts
<1>1. end \in SeqNo /\ Minus(end, v.iss) = N + 1
  BY QueueEnd
<1> HIDE DEF end
<1>2. a \in SeqNo /\ Minus(a, v.iss) = N + 2
  <2>1. Minus(end, v.iss) + 1 < SeqMod
    BY <1>0, <1>1
  <2> QED BY <1>0, <1>1, <2>1, OffsetPlus
<1>3. c.snd_max \in SeqNo /\ Minus(c.snd_max, v.iss) = Top(c, v) /\ c.rcv_nxt \in SeqNo
  BY FlowFacts DEF Top
<1>4. /\ ~c.fin_ack_rcvd /\ Una(c, v) # N + 2
      /\ c.the2MSLTimer = 0 /\ ToldRight(c, v)
      /\ Rcv(c, v) \in Nat
  <2>1. Una(c, v) # N + 2 /\ ~c.fin_ack_rcvd
    BY <1>0 DEF Flow, SendSide
  <2>2. c.the2MSLTimer \in Ticks /\ ~(c.the2MSLTimer > 0)
    BY <1>0, ConnectionTypes DEF Control
  <2>3. c.the2MSLTimer = 0
    BY <2>2, ConnectionAssumption DEF Ticks
  <2> QED BY <1>0, <2>1, <2>3 DEF Control
<1>5. CASE c.snd_max = end
  <2>1. /\ c.state # "LISTEN" /\ c.state # "SYN_SENT"
        /\ sendFin([c1 EXCEPT !.snd_nxt = c.snd_max]) =
              [c EXCEPT !.send_fin = TRUE, !.snd_fin_seq = end, !.snd_nxt = c.snd_max,
                        !.out = {s}]
    BY <1>0 DEF sendFin, Emit, Connection
  <2>2. d = performStateTransition(c3, "CLOSE")
    <3> DEFINE x == [c1 EXCEPT !.snd_nxt = c.snd_max]
               y == [c EXCEPT !.send_fin = TRUE, !.snd_fin_seq = end, !.snd_nxt = c.snd_max,
                              !.out = {s}]
               z == [startRexmitTimer(y) EXCEPT !.snd_nxt = a, !.snd_max = a]
    <3>1. startRexmitTimer(sendFin(x)) = startRexmitTimer(y)
      BY <2>1
    <3>2. z = c3
      BY <1>0 DEF startRexmitTimer, Connection
    <3>3. d = performStateTransition(
                 [startRexmitTimer(sendFin(x)) EXCEPT !.snd_nxt = a, !.snd_max = a], "CLOSE")
      BY <1>5 DEF process_CLOSE, end
    <3> QED BY <3>1, <3>2, <3>3
  <2>3. s \in Segment(0 .. N)
    BY <1>0, <1>3, SegType DEF Flag
  <2>4. {s} \in Outgoing(N)
    BY <2>3 DEF Outgoing
  <2> HIDE DEF s, a
  <2>5. /\ c3 \in Connection(N, v.peerSent)
        /\ c3.state = c.state /\ c3.failed = c.failed /\ c3.ind = c.ind /\ c3.iss = c.iss
        /\ c3.snd_una = c.snd_una /\ c3.snd_nxt = a /\ c3.snd_max = a
        /\ c3.begin = c.begin /\ c3.sendQueue = c.sendQueue
        /\ c3.send_fin = TRUE /\ c3.snd_fin_seq = end
        /\ c3.fin_ack_rcvd = c.fin_ack_rcvd
        /\ c3.rcv_nxt = c.rcv_nxt /\ c3.receiveQueue = c.receiveQueue
        /\ c3.fin_rcvd = c.fin_rcvd /\ c3.rcv_fin_seq = c.rcv_fin_seq
        /\ c3.the2MSLTimer = c.the2MSLTimer /\ c3.rexmitTimer = TRUE
        /\ c3.toApp = c.toApp /\ c3.out = {s}
    BY <1>0, <1>1, <1>2, <2>4 DEF Connection
  <2> HIDE DEF c3, d
  <2>6. /\ Una(c3, v) = Una(c, v) /\ Nxt(c3, v) = N + 2 /\ Top(c3, v) = N + 2
        /\ Beg(c3, v) = Beg(c, v) /\ Rcv(c3, v) = Rcv(c, v)
    BY <1>2, <2>5 DEF Una, Nxt, Top, Beg, Rcv
  <2>7. SendSide(c3, v)
    <3>1. /\ 1 <= Una(c, v) /\ Una(c, v) <= N + 2 /\ N + 2 <= N + 2 /\ N + 2 = v.sent + 2
      BY <1>0
    <3> QED BY <1>1, <1>4, <2>5, <2>6, <3>1 DEF Flow, SendSide
  <2>8. RecvSide(c3, v)
    BY <2>5, <2>6 DEF Flow, RecvSide
  <2>9. Mine(s, c3, v)
    <3> DEFINE x == [snd_nxt |-> c.snd_max, rcv_nxt |-> c.rcv_nxt]
    <3>1. /\ Rcv(x, v) = Rcv(c, v) /\ Nxt(x, v) = N + 1
          /\ s = Seg({"FIN", "ACK"}, x.snd_nxt, x.rcv_nxt, 0)
      BY <1>1, <1>5 DEF Rcv, Nxt, s
    <3> HIDE DEF x
    <3>2. Piece(s, v.sent, v.iss, N + 2, v.peerIss, Rcv(x, v))
      BY <1>0, <3>1, FinPiece
    <3> QED BY <2>6, <3>1, <3>2 DEF Mine
  <2>10. Flow(c3, v)
    <3>1. Una(c3, v) <= v.peerNxt /\ v.peerNxt <= Top(c3, v)
      <4>1. Una(c, v) <= v.peerNxt /\ v.peerNxt <= Top(c, v) /\ v.peerNxt \in Nat
        BY ViewTypes DEF Flow
      <4> QED BY <1>0, <2>6, <4>1
    <3> QED BY <2>5, <2>7, <2>8, <2>9, <3>1 DEF Flow
  <2>11. /\ NextState(c3, "CLOSE") = IF c.state = "ESTABLISHED" THEN "FIN_WAIT_1" ELSE "LAST_ACK"
    BY <2>5 DEF NextState
  <2> DEFINE st == NextState(c3, "CLOSE")
             g == performStateTransition(c3, "CLOSE")
  <2>12. /\ g \in Connection(N, v.peerSent) /\ SameFlow(c3, g) /\ g.state = st
         /\ g.ind = c.ind /\ g.the2MSLTimer = 0 /\ g.rexmitTimer
    <3>1. /\ g \in Connection(N, v.peerSent) /\ SameFlow(c3, g) /\ g.state = st
          /\ st # c3.state =>
               g.ind = CASE st = "CLOSE_WAIT" -> Append(c3.ind, "PEER_CLOSED")
                         [] st = "TIME_WAIT" -> Append(c3.ind, "CLOSED")
                         [] st = "CLOSED" /\ c3.state # "TIME_WAIT" /\ "CLOSE" # "ABORT" ->
                               Append(c3.ind, "CLOSED")
                         [] OTHER -> c3.ind
          /\ st # "CLOSED" => g.the2MSLTimer = c3.the2MSLTimer /\ g.rexmitTimer = c3.rexmitTimer
      BY <2>5, <2>10, TransitionFrame DEF Flow
    <3> HIDE DEF g
    <3>2. st \in {"FIN_WAIT_1", "LAST_ACK"} /\ st # c3.state
      BY <2>5, <2>11
    <3> QED BY <1>4, <2>5, <3>1, <3>2
  <2> HIDE DEF g
  <2>13. /\ Flow(g, v) /\ Una(g, v) = Una(c, v) /\ Top(g, v) = N + 2 /\ Rcv(g, v) = Rcv(c, v)
         /\ g.send_fin
    BY <2>5, <2>6, <2>10, <2>12, SameFlowFlow DEF SameFlow
  <2>14. TimerExact(g)
    <3>1. Una(g, v) # Top(g, v)
      BY <1>4, <2>13
    <3> QED BY <2>12, <2>13, <3>1, FlowFacts DEF TimerExact
  <2>15. Control(g, v)
    <3>1. ToldRight(g, v)
      BY <1>4, <2>11, <2>12, <2>13 DEF ToldRight
    <3>2. Una(g, v) < N + 2
      BY <1>0, <2>13
    <3>3. g.state = "LAST_ACK" => Rcv(g, v) = v.peerSent + 2
      BY <2>11, <2>12, <2>13 DEF Control, FinConsumed
    <3>4. g.state \in {"FIN_WAIT_1", "LAST_ACK"} /\ ~(g.the2MSLTimer > 0)
      BY <2>11, <2>12
    <3> QED BY <2>13, <2>14, <3>1, <3>2, <3>3, <3>4 DEF Control, FinConsumed
  <2>16. /\ g.state \in Synchronized /\ Top(c, v) <= Top(g, v) /\ Rcv(c, v) <= Rcv(g, v)
         /\ (g.send_fin <=> TRUE)
    BY <1>0, <2>11, <2>12, <2>13 DEF Synchronized
  <2>17. Stepped(g, v, Top(c, v), Rcv(c, v), Top(g, v), Rcv(g, v), TRUE) /\ ~ToldOfReset(g)
    BY <2>13, <2>15, <2>16, LiveStep
  <2>18. d = g
    BY <2>2 DEF g
  <2> QED BY <2>17, <2>18 DEF d
<1>6. CASE c.snd_max # end
  <2>1. d = c1
    BY <1>6 DEF process_CLOSE, end
  <2>2. Top(c, v) <= N
    <3>1. Top(c, v) # N + 1
      BY <1>0, <1>1, <1>3, <1>6, SameOffset
    <3> QED BY <1>0, <3>1
  <2>3. /\ c1 \in Connection(N, v.peerSent)
        /\ c1.state = c.state /\ c1.failed = c.failed /\ c1.ind = c.ind /\ c1.iss = c.iss
        /\ c1.snd_una = c.snd_una /\ c1.snd_nxt = c.snd_nxt /\ c1.snd_max = c.snd_max
        /\ c1.begin = c.begin /\ c1.sendQueue = c.sendQueue
        /\ c1.send_fin = TRUE /\ c1.snd_fin_seq = end
        /\ c1.fin_ack_rcvd = c.fin_ack_rcvd
        /\ c1.rcv_nxt = c.rcv_nxt /\ c1.receiveQueue = c.receiveQueue
        /\ c1.fin_rcvd = c.fin_rcvd /\ c1.rcv_fin_seq = c.rcv_fin_seq
        /\ c1.the2MSLTimer = c.the2MSLTimer /\ c1.rexmitTimer = c.rexmitTimer
        /\ c1.toApp = c.toApp /\ c1.out = c.out
    BY <1>0, <1>1 DEF Connection
  <2> HIDE DEF c1, d
  <2>4. /\ Una(c1, v) = Una(c, v) /\ Nxt(c1, v) = Nxt(c, v) /\ Top(c1, v) = Top(c, v)
        /\ Beg(c1, v) = Beg(c, v) /\ Rcv(c1, v) = Rcv(c, v)
    BY <2>3 DEF Una, Nxt, Top, Beg, Rcv
  <2>5. SendSide(c1, v)
    BY <1>1, <1>4, <2>2, <2>3, <2>4 DEF Flow, SendSide
  <2>6. RecvSide(c1, v)
    BY <2>3, <2>4 DEF Flow, RecvSide
  <2>7. Flow(c1, v)
    <3>1. \A x \in c1.out : Mine(x, c1, v)
      BY <2>3
    <3> QED BY <2>3, <2>4, <2>5, <2>6, <3>1 DEF Flow
  <2>8. Control(c1, v)
    <3>1. TimerExact(c1)
      BY <2>3 DEF Control, TimerExact
    <3>2. (c1.the2MSLTimer > 0) = (c.the2MSLTimer > 0)
      BY <2>3
    <3> QED BY <2>3, <2>4, <3>1, <3>2, ControlKept
  <2>9. /\ c1.state \in Synchronized /\ Top(c, v) <= Top(c1, v) /\ Rcv(c, v) <= Rcv(c1, v)
        /\ (c1.send_fin <=> TRUE)
    BY <1>0, <2>3, <2>4 DEF Synchronized
  <2>10. Stepped(c1, v, Top(c, v), Rcv(c, v), Top(c1, v), Rcv(c1, v), TRUE) /\ ~ToldOfReset(c1)
    BY <2>7, <2>8, <2>9, LiveStep
  <2> QED BY <2>1, <2>10 DEF d
<1> QED
  BY <1>5, <1>6

\* A handler that closes the connection.
LEMMA ShutStep ==
    ASSUME NEW v, NEW max, NEW nxt, NEW closed, NEW n, NEW m, NEW c \in Connection(n, m),
           EndOk(c, v, max, nxt, closed), c.state # "CLOSED",
           NEW closed2, closed => closed2,
           NEW b \in Connection(n, m), Warned(c, b),
           \A s \in b.out : Reset(s),
           NEW event, NextState(b, event) = "CLOSED"
    PROVE  LET d == performStateTransition(b, event)
           IN  /\ Stepped(d, v, max, nxt, max, nxt, closed2) /\ After(d).state = "CLOSED"
               /\ ToldOfReset(d) <=> Says(b.ind, "CONNECTION_RESET")
<1> DEFINE d == performStateTransition(b, event)
<1>0. /\ c \in Connection(n, m) /\ EndOk(c, v, max, nxt, closed) /\ c.state # "CLOSED"
      /\ closed => closed2
      /\ b \in Connection(n, m) /\ Warned(c, b) /\ NextState(b, event) = "CLOSED"
  OBVIOUS
<1>1. LET e == removeConnection([d EXCEPT !.out = {}])
      IN  /\ d.state = "CLOSED" /\ d.out = b.out
          /\ EndOk(e, v, max, nxt, closed2) /\ e.state = "CLOSED"
          /\ Says(e.ind, "CONNECTION_RESET") <=> Says(b.ind, "CONNECTION_RESET")
  <2> DEFINE e == removeConnection([d EXCEPT !.out = {}])
  <2>1. LET f == removeConnection([d EXCEPT !.out = {}])
        IN  /\ d.state = "CLOSED" /\ d.out = b.out
            /\ EndOk(f, v, max, nxt, closed) /\ f.state = "CLOSED"
            /\ Says(f.ind, "CONNECTION_RESET") <=> Says(b.ind, "CONNECTION_RESET")
    BY <1>0, Shutdown
  <2> HIDE DEF d, e
  <2>2. EndOk(e, v, max, nxt, closed) /\ e.state = "CLOSED"
    BY <2>1 DEF e
  <2>3. e.state \notin Beginning /\ e.state \notin Synchronized /\ e.state \notin Setting
        /\ e.state \notin {"INIT", "LISTEN", "SYN_RCVD"}
    BY <2>2, States DEF Beginning
  <2>4. EndOk(e, v, max, nxt, closed2)
    BY <1>0, <2>2, <2>3 DEF EndOk, Counts
  <2> QED BY <2>1, <2>2, <2>4 DEF e
<1> HIDE DEF d
<1>2. max <= max /\ nxt <= nxt
  BY <1>1 DEF EndOk, Counts
<1>3. Stepped(d, v, max, nxt, max, nxt, closed2) /\ After(d).state = "CLOSED"
  BY <1>1, <1>2 DEF Stepped, After
<1> QED
  BY <1>1, <1>3 DEF ToldOfReset, After, d

\* ABORT.
LEMMA AbortEnd ==
    ASSUME NEW v \in View, NEW max, NEW nxt, NEW closed,
           NEW c \in Connection(v.sent, v.peerSent),
           EndOk(c, v, max, nxt, closed), c.state \notin {"INIT", "CLOSED"}
    PROVE  LET d == process_ABORT(c)
           IN  /\ Stepped(d, v, max, nxt, max, nxt, closed) /\ After(d).state = "CLOSED"
               /\ ToldOfReset(d) <=> Says(c.ind, "CONNECTION_RESET")
<1> DEFINE r == sendRst(c, c.snd_nxt)
           s == Seg({"RST"}, c.snd_nxt, 0, 0)
           d == process_ABORT(c)
           S == {"SYN_RCVD", "ESTABLISHED", "FIN_WAIT_1", "FIN_WAIT_2", "CLOSE_WAIT"}
           b == IF c.state \in S THEN r ELSE c
<1>1. r \in Connection(v.sent, v.peerSent)
  BY ViewTypes, ConnectionTypes, SendControl DEF Sender
<1>2. /\ r.state = c.state /\ r.toApp = c.toApp /\ r.ind = c.ind /\ r.failed = c.failed
      /\ r.out = {s}
  BY DEF sendRst, Emit, Connection, EndOk
<1>3. Reset(s)
  BY DEF Reset, Seg
<1> HIDE DEF r, s
<1>4. /\ b \in Connection(v.sent, v.peerSent) /\ ~b.failed /\ b.state = c.state
      /\ b.toApp = c.toApp /\ b.ind = c.ind /\ \A x \in b.out : Reset(x)
  BY <1>1, <1>2, <1>3 DEF EndOk
<1>5. d = performStateTransition(b, "ABORT")
  BY DEF process_ABORT, r
<1> HIDE DEF b
<1>6. NextState(b, "ABORT") = "CLOSED"
  BY <1>4 DEF NextState
<1> DEFINE g == performStateTransition(b, "ABORT")
<1>7. /\ Stepped(g, v, max, nxt, max, nxt, closed) /\ After(g).state = "CLOSED"
      /\ ToldOfReset(g) <=> Says(b.ind, "CONNECTION_RESET")
  <2>1. Warned(c, b) /\ c.state # "CLOSED"
    BY <1>4 DEF Warned
  <2> QED BY <1>4, <1>6, <2>1, ShutStep
<1> HIDE DEF g, d
<1>8. d = g
  BY <1>5 DEF g
<1> QED
  BY <1>4, <1>7, <1>8 DEF d

\* The REXMIT timer of an established connection.
LEMMA RexmitLive ==
    ASSUME NEW v \in View, NEW max, NEW nxt, NEW closed, NEW c,
           EndOk(c, v, max, nxt, closed), c.state \in Synchronized, c.rexmitTimer
    PROVE  LET d == processRexmitTimer(c)
           IN  Stepped(d, v, max, nxt, max, nxt, closed) /\ ~ToldOfReset(d)
<1> DEFINE N == v.sent
           k == c.rexmit_count + 1
           c1 == [c EXCEPT !.rexmit_count = k]
           i == Append(c.ind, "TIMED_OUT")
           i1 == [c EXCEPT !.rexmit_count = k, !.ind = i]
           a1 == [c EXCEPT !.rexmit_count = k, !.afterRto = TRUE]
           d == processRexmitTimer(c)
<1>0. /\ Live(c, v, max, nxt, closed) /\ Flow(c, v) /\ Control(c, v)
      /\ Top(c, v) = max /\ Rcv(c, v) = nxt /\ (c.send_fin <=> closed)
      /\ c \in Connection(N, v.peerSent) /\ N \in Nat
      /\ ~c.failed /\ c.out = {}
  BY ViewTypes DEF EndOk, Live, Flow
<1>1. c.snd_una # c.snd_max /\ c.state # "TIME_WAIT"
  <2>1. c.snd_una # c.snd_max
    BY <1>0 DEF Control, TimerExact
  <2>2. Una(c, v) # Top(c, v) /\ Una(c, v) \in 1 .. N + 2 /\ Top(c, v) \in 1 .. N + 2
        /\ Nxt(c, v) \in 1 .. N + 2 /\ Una(c, v) <= Nxt(c, v) /\ Nxt(c, v) <= Top(c, v)
    BY <1>0, <2>1, FlowFacts
  <2>3. Una(c, v) # N + 2
    BY <1>0, <2>2
  <2> QED BY <1>0, <2>1, <2>3 DEF Control
<1>2. k \in Nat
  BY <1>0, ConnectionTypes
<1> HIDE DEF k
<1>3. CASE k > MAX_REXMIT_COUNT
  <2>1. /\ i \in Seq(Indication) /\ ~Says(c.ind, "CONNECTION_RESET")
        /\ (Says(i, "CONNECTION_RESET") <=> Says(c.ind, "CONNECTION_RESET"))
        /\ "TIMED_OUT" \in Indication \ {"CLOSED", "PEER_CLOSED"}
    <3>1. c.ind \in Seq(Indication) /\ "TIMED_OUT" \in Indication
      BY <1>0, ConnectionTypes DEF Indication
    <3>2. Says(i, "CONNECTION_RESET") <=> Says(c.ind, "CONNECTION_RESET") \/ "TIMED_OUT" = "CONNECTION_RESET"
      BY <3>1, SaysAppend
    <3>3. i \in Seq(Indication)
      BY <3>1
    <3> HIDE DEF i
    <3> QED BY <1>0, <3>1, <3>2, <3>3 DEF Control, ToldRight
  <2>2. d = performStateTransition(i1, "ABORT")
    <3>1. sendIndicationToApp(c1, "TIMED_OUT") = i1
      BY <1>0 DEF sendIndicationToApp, Connection
    <3>2. c1.rexmit_count = k
      BY <1>0 DEF Connection
    <3>3. d = performStateTransition(sendIndicationToApp(c1, "TIMED_OUT"), "ABORT")
      BY <1>3, <3>2 DEF processRexmitTimer, k
    <3> QED BY <3>1, <3>3
  <2>3. /\ i1 \in Connection(N, v.peerSent) /\ i1.state = c.state /\ i1.failed = c.failed
        /\ i1.toApp = c.toApp /\ i1.ind = i /\ i1.out = c.out
    <3> HIDE DEF i
    <3> QED BY <1>0, <1>2, <2>1 DEF Connection
  <2> HIDE DEF i1, d
  <2>4. NextState(i1, "ABORT") = "CLOSED"
    BY <2>3 DEF NextState, Synchronized
  <2> DEFINE g == performStateTransition(i1, "ABORT")
  <2>5. /\ c.state # "CLOSED" /\ \A x \in i1.out : Reset(x)
        /\ Warned(c, i1)
    BY <1>0, <1>1, <2>1, <2>3, States DEF Warned
  <2>6. /\ Stepped(g, v, max, nxt, max, nxt, closed) /\ After(g).state = "CLOSED"
        /\ ToldOfReset(g) <=> Says(i1.ind, "CONNECTION_RESET")
    <3>1. c \in Connection(N, v.peerSent) /\ i1 \in Connection(N, v.peerSent)
      BY <1>0, <2>3
    <3> HIDE DEF N
    <3> QED BY <2>4, <2>5, <3>1, ShutStep
  <2> HIDE DEF g
  <2>7. d = g
    BY <2>2 DEF g
  <2> QED BY <2>1, <2>3, <2>6, <2>7 DEF d
<1>4. CASE ~(k > MAX_REXMIT_COUNT)
  <2>1. d = retransmitOneSegment(a1, TRUE)
    <3>1. [c1 EXCEPT !.afterRto = TRUE] = a1 /\ c1.rexmit_count = k
      BY <1>0 DEF Connection
    <3>2. d = retransmitOneSegment([c1 EXCEPT !.afterRto = TRUE], TRUE)
      BY <1>4, <3>1 DEF processRexmitTimer, k
    <3> QED BY <3>1, <3>2
  <2>2. /\ a1 \in Connection(N, v.peerSent) /\ SameFlow(c, a1) /\ a1.state = c.state
        /\ a1.ind = c.ind /\ a1.the2MSLTimer = c.the2MSLTimer /\ a1.rexmitTimer = c.rexmitTimer
    BY <1>0, <1>2 DEF Connection, SameFlow
  <2> HIDE DEF a1, d
  <2>3. Flow(a1, v) /\ Una(a1, v) = Una(c, v) /\ Top(a1, v) = Top(c, v) /\ Rcv(a1, v) = Rcv(c, v)
    BY <1>0, <2>2, SameFlowFlow
  <2>4. a1.snd_una # a1.snd_max /\ TimerExact(a1)
    BY <1>0, <1>1, <2>2 DEF SameFlow, Control, TimerExact
  <2> DEFINE g == retransmitOneSegment(a1, TRUE)
  <2>5. Flow(g, v) /\ Sends(a1, g, v) /\ Top(g, v) = Top(a1, v) /\ TimerExact(g)
    BY <2>3, <2>4, RetransmitFlow
  <2> HIDE DEF g
  <2>6. /\ g.state = c.state /\ g.ind = c.ind /\ g.the2MSLTimer = c.the2MSLTimer
        /\ Una(g, v) = Una(c, v) /\ Top(g, v) = max /\ Rcv(g, v) = nxt
        /\ (g.send_fin <=> closed)
    <3>1. /\ Una(g, v) = Una(a1, v) /\ Rcv(g, v) = Rcv(a1, v)
      BY <2>5 DEF Sends, Same, Una, Rcv
    <3> QED BY <1>0, <2>2, <2>3, <2>5, <3>1 DEF Sends, Same, SameFlow
  <2>7. Control(g, v)
    <3>1. (g.the2MSLTimer > 0) = (c.the2MSLTimer > 0)
      BY <2>6
    <3> QED BY <1>0, <2>5, <2>6, <3>1, ControlKept
  <2>8. g.state \in Synchronized /\ max <= Top(g, v) /\ nxt <= Rcv(g, v)
    BY <1>0, <2>6 DEF EndOk, Counts
  <2>9. Stepped(g, v, max, nxt, Top(g, v), Rcv(g, v), closed) /\ ~ToldOfReset(g)
    BY <2>5, <2>6, <2>7, <2>8, LiveStep
  <2> QED BY <2>1, <2>6, <2>9 DEF g, d
<1> QED
  BY <1>3, <1>4

\* A tick of the 2MSL timer, and its timeout.
LEMMA TwoMslLive ==
    ASSUME NEW v \in View, NEW max, NEW nxt, NEW closed, NEW c,
           EndOk(c, v, max, nxt, closed), c.state \in Synchronized, c.the2MSLTimer > 0
    PROVE  LET d == IF c.the2MSLTimer > 1
                    THEN [c EXCEPT !.the2MSLTimer = @ - 1]
                    ELSE process_TIMEOUT_2MSL(c)
           IN  Stepped(d, v, max, nxt, max, nxt, closed) /\ ~ToldOfReset(d)
<1> DEFINE N == v.sent
           t == c.the2MSLTimer - 1
           x == [c EXCEPT !.the2MSLTimer = t]
           z == [c EXCEPT !.the2MSLTimer = 0]
           d == IF c.the2MSLTimer > 1 THEN x ELSE process_TIMEOUT_2MSL(c)
<1>0. /\ Flow(c, v) /\ Control(c, v)
      /\ Top(c, v) = max /\ Rcv(c, v) = nxt /\ (c.send_fin <=> closed)
      /\ c \in Connection(N, v.peerSent) /\ N \in Nat
      /\ ~c.failed /\ c.out = {}
  BY ViewTypes DEF EndOk, Live, Flow
<1>1. c.state = "TIME_WAIT" /\ ~Says(c.ind, "CONNECTION_RESET")
  BY <1>0 DEF Control, ToldRight
<1>2. MSL2 \in Nat /\ c.the2MSLTimer \in 0 .. MSL2 /\ 0 \in Ticks
  BY <1>0, ConnectionTypes, ConnectionAssumption DEF Ticks
<1>3. CASE c.the2MSLTimer > 1
  <2>1. t \in Ticks /\ t > 0
    BY <1>2, <1>3 DEF Ticks
  <2> HIDE DEF t
  <2>2. /\ x \in Connection(N, v.peerSent) /\ SameFlow(c, x) /\ x.state = c.state
        /\ x.ind = c.ind /\ x.the2MSLTimer = t /\ x.rexmitTimer = c.rexmitTimer
        /\ x.out = c.out
    BY <1>0, <2>1 DEF Connection, SameFlow
  <2> HIDE DEF x
  <2>3. Flow(x, v) /\ Una(x, v) = Una(c, v) /\ Top(x, v) = Top(c, v) /\ Rcv(x, v) = Rcv(c, v)
    BY <1>0, <2>2, SameFlowFlow
  <2>4. TimerExact(x)
    BY <1>0, <2>2 DEF SameFlow, Control, TimerExact
  <2>5. Control(x, v)
    <3>1. (x.the2MSLTimer > 0) = (c.the2MSLTimer > 0)
      BY <2>1, <2>2
    <3> QED BY <1>0, <2>2, <2>3, <2>4, <3>1, ControlKept
  <2>6. /\ x.state \in Synchronized /\ max <= Top(x, v) /\ nxt <= Rcv(x, v)
        /\ (x.send_fin <=> closed)
    BY <1>0, <2>2, <2>3 DEF EndOk, Counts, SameFlow
  <2>7. Stepped(x, v, max, nxt, Top(x, v), Rcv(x, v), closed) /\ ~ToldOfReset(x)
    BY <2>3, <2>5, <2>6, LiveStep
  <2>8. [c EXCEPT !.the2MSLTimer = @ - 1] = x
    BY DEF x, t
  <2>9. Top(x, v) = max /\ Rcv(x, v) = nxt
    BY <1>0, <2>3
  <2> QED BY <1>3, <2>7, <2>8, <2>9
<1>4. CASE ~(c.the2MSLTimer > 1)
  <2>1. d = performStateTransition(z, "TIMEOUT_2MSL")
    BY <1>1, <1>4 DEF process_TIMEOUT_2MSL
  <2>2. /\ z \in Connection(N, v.peerSent) /\ z.state = c.state /\ z.failed = c.failed
        /\ z.toApp = c.toApp /\ z.ind = c.ind /\ z.out = c.out
    BY <1>0, <1>2 DEF Connection
  <2> HIDE DEF z, d
  <2>3. NextState(z, "TIMEOUT_2MSL") = "CLOSED"
    BY <1>1, <2>2 DEF NextState
  <2> DEFINE g == performStateTransition(z, "TIMEOUT_2MSL")
  <2>4. c.state # "CLOSED" /\ (\A s \in z.out : Reset(s)) /\ Warned(c, z)
    BY <1>0, <1>1, <2>2 DEF Warned
  <2>5. /\ Stepped(g, v, max, nxt, max, nxt, closed) /\ After(g).state = "CLOSED"
        /\ ToldOfReset(g) <=> Says(z.ind, "CONNECTION_RESET")
    <3>1. c \in Connection(N, v.peerSent) /\ z \in Connection(N, v.peerSent)
      BY <1>0, <2>2
    <3> HIDE DEF N
    <3> QED BY <2>3, <2>4, <3>1, ShutStep
  <2> HIDE DEF g
  <2>6. d = g
    BY <2>1 DEF g
  <2> QED BY <1>1, <2>2, <2>5, <2>6 DEF d
<1> QED
  BY <1>3, <1>4

\* A handler that leaves an established connection as it is.
LEMMA QuietLive ==
    ASSUME NEW v \in View, NEW max, NEW nxt, NEW closed, NEW c,
           EndOk(c, v, max, nxt, closed), c.state \in Synchronized
    PROVE  Stepped(c, v, max, nxt, max, nxt, closed) /\ ~ToldOfReset(c)
<1>1. /\ Flow(c, v) /\ Control(c, v) /\ Top(c, v) = max /\ Rcv(c, v) = nxt /\ (c.send_fin <=> closed)
      /\ max <= max /\ nxt <= nxt
  BY DEF EndOk, Live, Counts
<1> QED
  BY <1>1, LiveStep

\* The SYN+ACK of the peer comes again.
SynAck(iss, peerIss) == Seg({"SYN", "ACK"}, iss, Plus(peerIss, 1), 0)

\* It is outside of the window of an established connection.
LEMMA SynAckLive ==
    ASSUME NEW v \in View, NEW max, NEW nxt, NEW closed, NEW c,
           EndOk(c, v, max, nxt, closed), c.state \in Synchronized, NEW win
    PROVE  LET d == process_RCV_SEGMENT(c, SynAck(v.peerIss, v.iss), win)
           IN  /\ Stepped(d, v, max, nxt, Top(d, v), Rcv(d, v), closed)
               /\ ~ToldOfReset(d)
<1> DEFINE s == SynAck(v.peerIss, v.iss)
           d == process_RCV_SEGMENT(c, s, win)
           a == Plus(v.iss, 1)
<1>0. /\ Flow(c, v) /\ Control(c, v)
      /\ Top(c, v) = max /\ Rcv(c, v) = nxt /\ (c.send_fin <=> closed)
  BY DEF EndOk, Live
<1>1. /\ s.flags = {"SYN", "ACK"} /\ s.seqNo = v.peerIss /\ s.ackNo = a /\ s.item = 0
  BY DEF SynAck, Seg
<1>2. /\ Half \in Nat /\ SeqMod = 2 * Half /\ v.iss \in SeqNo /\ v.peerIss \in SeqNo
      /\ v.sent \in Nat /\ v.peerSent \in Nat /\ v.sent + 2 <= Half /\ v.peerSent + 2 <= Half
      /\ Half >= 2
  BY ViewTypes, HalfFacts
<1>3. /\ c.rcv_nxt \in SeqNo /\ c.snd_una \in SeqNo
      /\ Minus(c.rcv_nxt, v.peerIss) \in 1 .. v.peerSent + 2
      /\ Minus(c.snd_una, v.iss) \in 1 .. v.sent + 2
  BY <1>0, FlowFacts DEF Rcv, Una
<1>4. a \in SeqNo /\ Minus(a, v.iss) = 1
  <2>1. Minus(v.iss, v.iss) = 0
    BY <1>2, OffsetType
  <2>2. Minus(v.iss, v.iss) + 1 < SeqMod
    BY <1>2, <2>1
  <2> QED BY <1>2, <2>1, <2>2, OffsetPlus
<1> HIDE DEF a, s
<1>5. ~seqLess(c.snd_una, a)
  <2>1. /\ Minus(c.snd_una, v.iss) - Minus(a, v.iss) < Half
        /\ Minus(a, v.iss) - Minus(c.snd_una, v.iss) < Half
        /\ ~(Minus(c.snd_una, v.iss) < Minus(a, v.iss))
    BY <1>2, <1>3, <1>4
  <2> QED BY <1>2, <1>3, <1>4, <2>1, Offsets
<1>6. ~isSegmentAcceptable(c, s)
  <2>0. PayloadLength(s) = 0
    BY <1>1 DEF PayloadLength
  <2> DEFINE r == Minus(c.rcv_nxt, v.peerIss)
             e == Plus(c.rcv_nxt, RcvWnd)
  <2>1. CASE r < Half
    <3>1. /\ r - 0 < Half /\ 0 - r < Half /\ Minus(v.peerIss, v.peerIss) = 0
      BY <1>2, <1>3, <2>1, OffsetType
    <3>2. ~seqLE(c.rcv_nxt, v.peerIss)
      <4>1. ~(Minus(c.rcv_nxt, v.peerIss) <= Minus(v.peerIss, v.peerIss))
        BY <1>2, <1>3, <3>1
      <4> QED BY <1>2, <1>3, <3>1, <4>1, Offsets
    <3> QED BY <1>1, <1>5, <2>0, <3>2 DEF isSegmentAcceptable
  <2>2. CASE r = Half
    <3>1. ~(seqLE(c.rcv_nxt, v.peerIss) /\ seqLE(v.peerIss, e))
      BY <1>2, <1>3, <2>2, ConnectionAssumption DEF SeqNo, Minus, Plus, seqLE
    <3> QED BY <1>1, <1>5, <2>0, <3>1 DEF isSegmentAcceptable
  <2>3. r < Half \/ r = Half
    <3>1. r \in 1 .. v.peerSent + 2
      BY <1>3
    <3> HIDE DEF r
    <3> QED BY <1>2, <3>1
  <2> QED BY <2>1, <2>2, <2>3
<1>7. d = sendAck(c)
  BY <1>1, <1>6 DEF process_RCV_SEGMENT, processSegment1stThru8th, Synchronized, Has
<1> DEFINE k == sendAck(c)
<1>8. Outcome(c, k, v) /\ ~Says(k.ind, "CONNECTION_RESET")
  BY <1>0, AckControl
<1> HIDE DEF k, d
<1>9. /\ Stepped(k, v, Top(c, v), Rcv(c, v), Top(k, v), Rcv(k, v), closed)
      /\ ~ToldOfReset(k)
  BY <1>0, <1>8, OutcomeStep
<1>10. d = k
  BY <1>7 DEF k
<1> QED
  BY <1>0, <1>9, <1>10 DEF d, s

\* A reset closes an established connection, or is ignored.
LEMMA ResetLive ==
    ASSUME NEW v \in View, NEW max, NEW nxt, NEW closed, NEW c,
           EndOk(c, v, max, nxt, closed), c.state \in Synchronized,
           NEW s, Reset(s), NEW win
    PROVE  LET d == process_RCV_SEGMENT(c, s, win)
           IN  /\ Stepped(d, v, max, nxt, max, nxt, closed)
               /\ ToldOfReset(d) => After(d).state = "CLOSED"
<1> DEFINE N == v.sent
           i == Append(c.ind, "CONNECTION_RESET")
           x == [c EXCEPT !.ind = i]
           b == IF c.state \in {"ESTABLISHED", "FIN_WAIT_1", "FIN_WAIT_2", "CLOSE_WAIT"}
                THEN x ELSE c
           d == process_RCV_SEGMENT(c, s, win)
<1>0. /\ Flow(c, v) /\ Control(c, v) /\ c \in Connection(N, v.peerSent)
      /\ ~c.failed /\ c.out = {}
  BY DEF EndOk, Live, Flow
<1>1. Has(s, "RST")
  BY DEF Reset, Has
<1>2. d = IF isSegmentAcceptable(c, s) THEN processRst(c) ELSE c
  BY <1>1 DEF process_RCV_SEGMENT, processSegment1stThru8th, Synchronized
<1>3. CASE ~isSegmentAcceptable(c, s)
  <2>1. d = c
    BY <1>2, <1>3
  <2> HIDE DEF d
  <2> QED BY <2>1, QuietLive DEF d
<1>4. CASE isSegmentAcceptable(c, s)
  <2>1. processRst(c) = performStateTransition(b, "RCV_RST")
    <3>1. sendIndicationToApp(c, "CONNECTION_RESET") = x
      BY DEF sendIndicationToApp
    <3>2. c.state # "SYN_RCVD"
      BY DEF Synchronized
    <3> HIDE DEF x
    <3> QED BY <3>1, <3>2 DEF processRst
  <2>2. i \in Seq(Indication) /\ "CONNECTION_RESET" \in Indication \ {"CLOSED", "PEER_CLOSED"}
    <3>1. c.ind \in Seq(Indication) /\ "CONNECTION_RESET" \in Indication
      BY <1>0, ConnectionTypes DEF Indication
    <3> QED BY <3>1
  <2>3. /\ x \in Connection(N, v.peerSent) /\ x.state = c.state /\ x.failed = c.failed
        /\ x.toApp = c.toApp /\ x.ind = i /\ x.out = c.out
    <3> HIDE DEF i
    <3> QED BY <1>0, <2>2 DEF Connection
  <2> HIDE DEF x
  <2>4. /\ b \in Connection(N, v.peerSent) /\ b.state = c.state /\ b.out = {}
        /\ Warned(c, b)
    <3>1. Warned(c, c)
      BY <1>0 DEF Warned
    <3>2. c.state # "TIME_WAIT" => Warned(c, x)
      BY <1>0, <2>2, <2>3 DEF Warned
    <3> QED BY <1>0, <2>3, <3>1, <3>2
  <2> HIDE DEF b
  <2>5. NextState(b, "RCV_RST") = "CLOSED" /\ c.state # "CLOSED"
    BY <2>4, States DEF NextState, Synchronized
  <2> DEFINE g == performStateTransition(b, "RCV_RST")
  <2>6. Stepped(g, v, max, nxt, max, nxt, closed) /\ After(g).state = "CLOSED"
    <3>1. c \in Connection(N, v.peerSent) /\ b \in Connection(N, v.peerSent)
          /\ \A r \in b.out : Reset(r)
      BY <1>0, <2>4
    <3> HIDE DEF N
    <3> QED BY <2>4, <2>5, <3>1, ShutStep
  <2> HIDE DEF g, d
  <2>7. d = g
    BY <1>2, <1>4, <2>1 DEF g
  <2> QED BY <2>6, <2>7 DEF d
<1> QED
  BY <1>3, <1>4

-----------------------------------------------------------------------------
(* Connections that are set up *)

\* d has what Blank and Closing say of c.
SameBlank(c, d) ==
    /\ d.failed = c.failed /\ d.send_fin = c.send_fin /\ d.fin_ack_rcvd = c.fin_ack_rcvd
    /\ d.rexmitTimer = c.rexmitTimer /\ d.the2MSLTimer = c.the2MSLTimer
    /\ d.toApp = c.toApp /\ d.fin_rcvd = c.fin_rcvd /\ d.ind = c.ind

\* ... and the queues and sequence variables of c.
SameStart(c, d) ==
    /\ SameBlank(c, d)
    /\ d.iss = c.iss /\ d.snd_una = c.snd_una /\ d.snd_nxt = c.snd_nxt
    /\ d.snd_max = c.snd_max /\ d.begin = c.begin /\ d.sendQueue = c.sendQueue
    /\ d.rcv_nxt = c.rcv_nxt /\ d.receiveQueue = c.receiveQueue

\* A transition the application is not told of.
LEMMA PlainMove ==
    ASSUME NEW n, NEW m, NEW c \in Connection(n, m), ~c.failed, NEW event,
           NextState(c, event) \notin {"CLOSE_WAIT", "TIME_WAIT", "CLOSED"}
    PROVE  LET d == performStateTransition(c, event)
           IN  /\ d \in Connection(n, m) /\ SameFlow(c, d) /\ d.state = NextState(c, event)
               /\ d.active = c.active /\ d.ind = c.ind
               /\ d.the2MSLTimer = c.the2MSLTimer /\ d.rexmitTimer = c.rexmitTimer
<1> DEFINE d == performStateTransition(c, event)
           st == NextState(c, event)
<1>1. /\ d \in Connection(n, m) /\ SameFlow(c, d) /\ d.state = st
      /\ d.active = c.active
      /\ st = c.state => d = c
      /\ st # c.state =>
            d.ind = CASE st = "CLOSE_WAIT" -> Append(c.ind, "PEER_CLOSED")
                      [] st = "TIME_WAIT" -> Append(c.ind, "CLOSED")
                      [] st = "CLOSED" /\ c.state # "TIME_WAIT" /\ event # "ABORT" ->
                            Append(c.ind, "CLOSED")
                      [] OTHER -> c.ind
      /\ st # "CLOSED" => d.the2MSLTimer = c.the2MSLTimer /\ d.rexmitTimer = c.rexmitTimer
  BY TransitionFrame
<1> HIDE DEF d, st
<1>2. st \notin {"CLOSE_WAIT", "TIME_WAIT", "CLOSED"}
  BY DEF st
<1>3. d.ind = c.ind
  BY <1>1, <1>2
<1> QED
  BY <1>1, <1>2, <1>3 DEF d, st

\* The segments left and the connection is still there.
LEMMA Departed ==
    ASSUME NEW n, NEW m, NEW d \in Connection(n, m), d.state # "CLOSED"
    PROVE  LET e == After(d)
           IN  /\ e \in Connection(n, m) /\ e.state = d.state /\ SameStart(d, e)
               /\ e.active = d.active /\ e.out = {}
<1> DEFINE o == {}
           f == [d EXCEPT !.out = o]
<1>1. o \in Outgoing(n)
  BY DEF Outgoing
<1> HIDE DEF o
<1>2. f \in Connection(n, m) /\ f.state = d.state /\ f.out = o /\ SameStart(d, f)
      /\ f.active = d.active
  BY <1>1 DEF Connection, SameStart, SameBlank
<1>3. After(d) = f
  <2>1. [d EXCEPT !.out = {}] = f
    BY DEF o
  <2> HIDE DEF f
  <2> QED BY <1>2, <2>1 DEF After, removeConnection
<1> HIDE DEF f
<1> QED
  BY <1>2, <1>3 DEF o

\* A connection before it is established, after its handler.
LEMMA BeginEnd ==
    ASSUME NEW v \in View, NEW w \in View,
           w.sent = v.sent \/ w.sent = v.sent + 1,
           w.peerSent = v.peerSent, w.peerMax = v.peerMax, w.peerNxt = v.peerNxt,
           NEW max, NEW nxt, NEW closed, NEW c,
           EndOk(c, v, max, nxt, closed), c.state \in Beginning,
           NEW n, NEW m, NEW d \in Connection(n, m), SameBlank(c, d), d.state \in Beginning,
           d.state \in Setting => Starting(d, w),
           d.state \in {"INIT", "LISTEN", "SYN_RCVD"} => w.sent = 0,
           d.state = "SYN_RCVD" => d.rcv_nxt = Plus(w.peerIss, 1) /\ d.receiveQueue = {}
    PROVE  LET e == After(d)
           IN  /\ EndOk(e, w, max, nxt, closed) /\ e.state = d.state
               /\ e.ind = c.ind /\ e.active = d.active /\ ~ToldOfReset(d)
<1> DEFINE e == After(d)
<1>0. d.state # "CLOSED" /\ d.state \notin Synchronized
  BY States
<1>1. e \in Connection(n, m) /\ e.state = d.state /\ SameStart(d, e) /\ e.out = {}
      /\ e.active = d.active
  BY <1>0, Departed
<1> HIDE DEF e
<1>2. Blank(c) /\ max = 1 /\ nxt = 1 /\ ~closed /\ ~c.failed
  BY DEF EndOk
<1>3. Blank(e) /\ ~e.failed /\ e.toApp = c.toApp /\ e.ind = c.ind
  BY <1>1, <1>2 DEF Blank, SameBlank, SameStart
<1>4. Counts(w, max, nxt, closed)
  <2>1. v.sent \in Nat /\ w.sent \in Nat /\ Counts(v, max, nxt, closed)
    BY ViewTypes DEF EndOk
  <2> QED BY <1>2, <2>1 DEF Counts
<1>5. Told2(e, w, nxt)
  BY <1>3 DEF EndOk, Told2
<1>6. e.state \in Setting => Starting(e, w)
  BY <1>1 DEF Starting, SameStart
<1>7. e.state = "SYN_RCVD" => e.rcv_nxt = Plus(w.peerIss, 1) /\ e.receiveQueue = {}
  BY <1>1 DEF SameStart
<1>8. EndOk(e, w, max, nxt, closed)
  BY <1>0, <1>1, <1>2, <1>3, <1>4, <1>5, <1>6, <1>7 DEF EndOk
<1>9. ~Says(e.ind, "CONNECTION_RESET")
  BY <1>3 DEF Blank
<1> QED
  BY <1>1, <1>3, <1>8, <1>9 DEF e, ToldOfReset, SameStart

\* The SYN, and the initial sequence number it carries.
Syn(iss) == Seg({"SYN"}, iss, 0, 0)
NextIss(c) == Plus(c.iss, IssStep)

\* selectInitialSeqNum.
LEMMA SelectFields ==
    ASSUME NEW n \in Nat, NEW m, NEW c \in Connection(n, m)
    PROVE  LET d == selectInitialSeqNum(c)
               i == NextIss(c)
           IN  /\ d \in Connection(n, m) /\ SameBlank(c, d)
               /\ d.state = c.state /\ d.active = c.active /\ d.out = c.out
               /\ d.rcv_nxt = c.rcv_nxt /\ d.receiveQueue = c.receiveQueue
               /\ i \in SeqNo /\ d.iss = i /\ d.snd_una = i /\ d.begin = Plus(i, 1)
               /\ d.sendQueue = <<>>
<1> DEFINE i == Plus(c.iss, IssStep)
           b == Plus(i, 1)
           q == <<>>
           d == [c EXCEPT !.iss = i, !.snd_una = i, !.snd_nxt = i, !.snd_max = i,
                          !.begin = b, !.sendQueue = q]
<1>1. i \in SeqNo /\ b \in SeqNo
  <2>1. i \in SeqNo
    BY ConnectionTypes, SeqConstants, PlusType
  <2> HIDE DEF i
  <2> QED BY <2>1, SeqConstants, PlusType
<1>2. q \in Queue(n)
  BY DEF Queue
<1>3. selectInitialSeqNum(c) = d /\ NextIss(c) = i /\ Plus(i, 1) = b
  BY DEF selectInitialSeqNum, NextIss
<1> HIDE DEF i, b
<1>4. /\ d \in Connection(n, m) /\ SameBlank(c, d)
      /\ d.state = c.state /\ d.active = c.active /\ d.out = c.out
      /\ d.rcv_nxt = c.rcv_nxt /\ d.receiveQueue = c.receiveQueue
      /\ d.iss = i /\ d.snd_una = i /\ d.begin = b /\ d.sendQueue = <<>>
  <2>1. d.sendQueue = q
    <3> HIDE DEF q
    <3> QED BY DEF Connection
  <2> HIDE DEF q
  <2>2. /\ d \in Connection(n, m) /\ SameBlank(c, d)
        /\ d.state = c.state /\ d.active = c.active /\ d.out = c.out
        /\ d.rcv_nxt = c.rcv_nxt /\ d.receiveQueue = c.receiveQueue
        /\ d.iss = i /\ d.snd_una = i /\ d.begin = b
    BY <1>1, <1>2 DEF Connection, SameBlank
  <2> QED BY <2>1, <2>2 DEF q
<1> HIDE DEF d, q
<1> QED
  BY <1>1, <1>3, <1>4

\* sendSyn and sendSynAck.
LEMMA SynFields ==
    ASSUME NEW n \in Nat, NEW m, NEW c \in Connection(n, m),
           NEW d \in {sendSyn(c), sendSynAck(c)}
    PROVE  /\ d \in Connection(n, m) /\ SameBlank(c, d)
           /\ d.state = c.state /\ d.active = c.active
           /\ d.rcv_nxt = c.rcv_nxt /\ d.receiveQueue = c.receiveQueue
           /\ d.iss = c.iss /\ d.snd_una = c.snd_una /\ d.begin = c.begin
           /\ d.sendQueue = c.sendQueue
           /\ d.snd_nxt = Plus(c.iss, 1) /\ d.snd_max = Plus(c.iss, 1)
           /\ d = sendSyn(c) => d.out = c.out \cup {Syn(c.iss)}
           /\ d = sendSynAck(c) =>
                 d.out = c.out \cup {Seg({"SYN", "ACK"}, c.iss, c.rcv_nxt, 0)}
<1>1. d \in Connection(n, m)
  BY SendSyns DEF Sender
<1>2. CASE d = sendSyn(c)
  <2> DEFINE x == Syn(c.iss)
             p == Plus(c.iss, 1)
  <2>1. d = [c EXCEPT !.out = @ \cup {x}, !.snd_nxt = p, !.snd_max = p]
    BY <1>2 DEF sendSyn, Emit, Syn
  <2> HIDE DEF x, p
  <2>2. /\ SameBlank(c, d)
        /\ d.state = c.state /\ d.active = c.active
        /\ d.rcv_nxt = c.rcv_nxt /\ d.receiveQueue = c.receiveQueue
        /\ d.iss = c.iss /\ d.snd_una = c.snd_una /\ d.begin = c.begin
        /\ d.sendQueue = c.sendQueue
        /\ d.snd_nxt = p /\ d.snd_max = p /\ d.out = c.out \cup {x}
    BY <2>1 DEF Connection, SameBlank
  <2>3. d = sendSynAck(c) => d.out = c.out \cup {Seg({"SYN", "ACK"}, c.iss, c.rcv_nxt, 0)}
    <3> DEFINE y == Seg({"SYN", "ACK"}, c.iss, c.rcv_nxt, 0)
    <3>1. sendSynAck(c) = [c EXCEPT !.out = @ \cup {y}, !.snd_nxt = p, !.snd_max = p]
      BY DEF sendSynAck, Emit, p
    <3> HIDE DEF y
    <3>2. sendSynAck(c).out = c.out \cup {y}
      BY <3>1 DEF Connection
    <3> QED BY <3>2 DEF y
  <2> QED BY <1>1, <2>2, <2>3 DEF x, p
<1>3. CASE d = sendSynAck(c)
  <2> DEFINE x == Seg({"SYN", "ACK"}, c.iss, c.rcv_nxt, 0)
             p == Plus(c.iss, 1)
  <2>1. d = [c EXCEPT !.out = @ \cup {x}, !.snd_nxt = p, !.snd_max = p]
    BY <1>3 DEF sendSynAck, Emit
  <2> HIDE DEF x, p
  <2>2. /\ SameBlank(c, d)
        /\ d.state = c.state /\ d.active = c.active
        /\ d.rcv_nxt = c.rcv_nxt /\ d.receiveQueue = c.receiveQueue
        /\ d.iss = c.iss /\ d.snd_una = c.snd_una /\ d.begin = c.begin
        /\ d.sendQueue = c.sendQueue
        /\ d.snd_nxt = p /\ d.snd_max = p /\ d.out = c.out \cup {x}
    BY <2>1 DEF Connection, SameBlank
  <2>3. d = sendSyn(c) => d.out = c.out \cup {Syn(c.iss)}
    <3> DEFINE y == Syn(c.iss)
    <3>1. sendSyn(c) = [c EXCEPT !.out = @ \cup {y}, !.snd_nxt = p, !.snd_max = p]
      BY DEF sendSyn, Emit, p, Syn
    <3> HIDE DEF y
    <3>2. sendSyn(c).out = c.out \cup {y}
      BY <3>1 DEF Connection
    <3> QED BY <3>2 DEF y
  <2> QED BY <1>1, <2>2, <2>3 DEF x, p
<1> QED
  BY <1>2, <1>3

\* The timers of connection setup.
LEMMA SetupFields ==
    ASSUME NEW n, NEW m, NEW c \in Connection(n, m),
           NEW d \in {PassiveSetup(c), ActiveSetup(c)}
    PROVE  /\ d \in Connection(n, m) /\ d.state = c.state /\ d.out = c.out
           /\ SameStart(c, d)
           /\ d = PassiveSetup(c) => d.active = c.active
<1>1. d \in Connection(n, m)
  BY StartSynRexmit
<1> DEFINE p == [c EXCEPT !.synRexmitTimer = TRUE, !.syn_rexmit_count = 0, !.connEstabTimer = TRUE]
           a == [c EXCEPT !.synRexmitTimer = TRUE, !.syn_rexmit_count = 0, !.active = TRUE, !.connEstabTimer = TRUE]
<1>2. PassiveSetup(c) = p /\ ActiveSetup(c) = a
  BY DEF PassiveSetup, ActiveSetup, startSynRexmitTimer
<1>3. /\ p.state = c.state /\ p.out = c.out /\ SameStart(c, p)
      /\ p.active = c.active
  BY DEF Connection, SameStart, SameBlank
<1>4. a.state = c.state /\ a.out = c.out /\ SameStart(c, a)
  BY DEF Connection, SameStart, SameBlank
<1> HIDE DEF p, a
<1> QED
  BY <1>1, <1>2, <1>3, <1>4

\* The active OPEN: a SYN with a new initial sequence number.
LEMMA OpenActiveEnd ==
    ASSUME NEW v \in View, NEW max, NEW nxt, NEW closed,
           NEW c \in Connection(v.sent, v.peerSent), EndOk(c, v, max, nxt, closed),
           c.state = "INIT",
           NEW w \in View, w.sent = v.sent, w.iss = NextIss(c), w.peerSent = v.peerSent,
           w.peerIss = v.peerIss, w.peerMax = v.peerMax, w.peerNxt = v.peerNxt
    PROVE  LET d == process_OPEN_ACTIVE(c)
           IN  /\ EndOk(After(d), w, max, nxt, closed) /\ After(d).state = "SYN_SENT"
               /\ ~ToldOfReset(d) /\ d.out = {Syn(w.iss)}
<1> DEFINE N == v.sent
           M == v.peerSent
           i == NextIss(c)
           c1 == selectInitialSeqNum(c)
           c2 == sendSyn(c1)
           c3 == ActiveSetup(c2)
           d == process_OPEN_ACTIVE(c)
<1>0. N \in Nat /\ c \in Connection(N, M) /\ N = 0 /\ ~c.failed /\ c.out = {}
  BY ViewTypes DEF EndOk
<1>1. d = performStateTransition(c3, "OPEN_ACTIVE")
  BY DEF process_OPEN_ACTIVE, ActiveSetup
<1> HIDE DEF N, M
<1>2. /\ c1 \in Connection(N, M) /\ SameBlank(c, c1)
      /\ c1.state = c.state /\ c1.out = c.out
      /\ c1.iss = i /\ c1.snd_una = i /\ c1.begin = Plus(i, 1) /\ c1.sendQueue = <<>>
  BY <1>0, SelectFields
<1> HIDE DEF c1
<1>3. /\ c2 \in Connection(N, M) /\ SameBlank(c1, c2) /\ c2.state = c1.state
      /\ c2.iss = c1.iss /\ c2.snd_una = c1.snd_una /\ c2.begin = c1.begin
      /\ c2.sendQueue = c1.sendQueue
      /\ c2.snd_nxt = Plus(c1.iss, 1) /\ c2.snd_max = Plus(c1.iss, 1)
      /\ c2.out = c1.out \cup {Syn(c1.iss)}
  <2>1. c2 \in {sendSyn(c1), sendSynAck(c1)}
    OBVIOUS
  <2> QED BY <1>0, <1>2, <2>1, SynFields
<1> HIDE DEF c2
<1>4. /\ c3 \in Connection(N, M) /\ SameBlank(c2, c3) /\ c3.state = c2.state
      /\ c3.iss = c2.iss /\ c3.snd_una = c2.snd_una /\ c3.begin = c2.begin
      /\ c3.sendQueue = c2.sendQueue
      /\ c3.snd_nxt = c2.snd_nxt /\ c3.snd_max = c2.snd_max /\ c3.out = c2.out
  <2>1. /\ c3 \in Connection(N, M) /\ c3.state = c2.state /\ c3.out = c2.out
        /\ SameStart(c2, c3)
    <3>1. c3 \in {PassiveSetup(c2), ActiveSetup(c2)}
      OBVIOUS
    <3> HIDE DEF c3
    <3> QED BY <1>3, <3>1, SetupFields
  <2> HIDE DEF c3
  <2> QED BY <1>3, <2>1 DEF Connection, SameStart, SameBlank
<1> HIDE DEF c3
<1>5. ~c3.failed /\ NextState(c3, "OPEN_ACTIVE") = "SYN_SENT"
  BY <1>0, <1>2, <1>3, <1>4 DEF SameBlank, NextState
<1> DEFINE g == performStateTransition(c3, "OPEN_ACTIVE")
<1>6. /\ g \in Connection(N, M) /\ SameFlow(c3, g) /\ g.state = "SYN_SENT"
      /\ g.ind = c3.ind
      /\ g.the2MSLTimer = c3.the2MSLTimer /\ g.rexmitTimer = c3.rexmitTimer
  BY <1>4, <1>5, PlainMove
<1> HIDE DEF g
<1>7. SameBlank(c, g) /\ g.out = {Syn(i)}
  BY <1>0, <1>2, <1>3, <1>4, <1>6 DEF SameBlank, SameFlow
<1>8. Starting(g, w)
  <2>1. Items(1, w.sent) = <<>>
    <3>1. 1 .. 0 + 1 - 1 = {}
      OBVIOUS
    <3> QED BY <1>0, <3>1 DEF Items, N
  <2> QED BY <1>2, <1>3, <1>4, <1>6, <2>1 DEF SameFlow, Starting
<1>9. /\ EndOk(After(g), w, max, nxt, closed) /\ After(g).state = g.state /\ ~ToldOfReset(g)
  <2>1. g.state \in Beginning /\ c.state \in Beginning /\ g.state \notin {"INIT", "LISTEN", "SYN_RCVD"}
    BY <1>6 DEF Beginning
  <2> QED BY <1>6, <1>7, <1>8, <2>1, BeginEnd
<1>10. d = g
  BY <1>1 DEF g
<1> HIDE DEF d
<1> QED
  BY <1>6, <1>7, <1>9, <1>10 DEF d

\* The passive OPEN.
LEMMA OpenPassiveEnd ==
    ASSUME NEW v \in View, NEW max, NEW nxt, NEW closed,
           NEW c \in Connection(v.sent, v.peerSent), EndOk(c, v, max, nxt, closed),
           c.state = "INIT"
    PROVE  LET d == process_OPEN_PASSIVE(c)
           IN  /\ EndOk(After(d), v, max, nxt, closed) /\ After(d).state = "LISTEN"
               /\ After(d).active = c.active
               /\ ~ToldOfReset(d) /\ d.out = {}
<1> DEFINE N == v.sent
           M == v.peerSent
           g == performStateTransition(c, "OPEN_PASSIVE")
<1>0. N \in Nat /\ c \in Connection(N, M) /\ N = 0 /\ ~c.failed /\ c.out = {}
  BY ViewTypes DEF EndOk
<1>1. NextState(c, "OPEN_PASSIVE") = "LISTEN"
  BY DEF NextState
<1>2. process_OPEN_PASSIVE(c) = g
  BY DEF process_OPEN_PASSIVE
<1> HIDE DEF N, M
<1>3. /\ g \in Connection(N, M) /\ SameFlow(c, g) /\ g.state = "LISTEN"
      /\ g.ind = c.ind /\ g.active = c.active
      /\ g.the2MSLTimer = c.the2MSLTimer /\ g.rexmitTimer = c.rexmitTimer
  BY <1>0, <1>1, PlainMove
<1> HIDE DEF g
<1>4. SameBlank(c, g) /\ g.out = {}
  BY <1>0, <1>3 DEF SameBlank, SameFlow
<1>5. /\ EndOk(After(g), v, max, nxt, closed) /\ After(g).state = g.state /\ ~ToldOfReset(g)
      /\ After(g).active = g.active
  <2>1. g.state \in Beginning /\ c.state \in Beginning /\ g.state \notin Setting /\ v.sent = 0
    BY <1>0, <1>3 DEF Beginning, Setting, N
  <2>2. g.state # "SYN_RCVD"
    BY <1>3
  <2> QED BY <1>3, <1>4, <2>1, <2>2, BeginEnd
<1> QED
  BY <1>2, <1>3, <1>4, <1>5

\* SEND while the SYN is on its way.
LEMMA SynSentSendEnd ==
    ASSUME NEW v \in View, NEW w \in View, w.sent = v.sent + 1, w.iss = v.iss,
           w.peerSent = v.peerSent, w.peerIss = v.peerIss, w.peerMax = v.peerMax,
           w.peerNxt = v.peerNxt,
           NEW max, NEW nxt, NEW closed,
           NEW c \in Connection(v.sent, v.peerSent), EndOk(c, v, max, nxt, closed),
           c.state = "SYN_SENT", NEW win
    PROVE  LET d == process_SEND(c, v.sent + 1, win)
           IN  /\ EndOk(After(d), w, max, nxt, closed) /\ After(d).state = "SYN_SENT"
               /\ ~ToldOfReset(d) /\ d.out = {}
<1> DEFINE N == v.sent
           M == v.peerSent
           q == Append(c.sendQueue, N + 1)
           d == [c EXCEPT !.sendQueue = q]
<1>0. N \in Nat /\ c \in Connection(N, M) /\ ~c.failed /\ c.out = {} /\ Starting(c, v)
      /\ N + 1 \in Nat
  BY ViewTypes DEF EndOk, Setting
<1>1. process_SEND(c, N + 1, win) = d
  BY DEF process_SEND
<1>2. q = Items(1, N + 1)
  <2>1. 1 \in Nat /\ 1 <= N + 1 /\ c.sendQueue = Items(1, N)
    BY <1>0 DEF Starting
  <2> HIDE DEF N
  <2> QED BY <1>0, <2>1, ItemsMore
<1>3. c \in Connection(N + 1, M) /\ q \in Queue(N + 1)
  <2>1. N <= N + 1 /\ M <= M /\ M \in Nat
    BY <1>0, ViewTypes
  <2>2. Connection(N, M) \subseteq Connection(N + 1, M)
    <3>1. v.sent \in Number /\ w.sent \in Number /\ v.peerSent \in Number
      BY ViewTypes
    <3> HIDE DEF N, M
    <3> QED BY <1>0, <2>1, MoreSent
  <2>3. q \in Queue(N + 1)
    <3> DEFINE L == N + 1
    <3>1. Items(1, L) = [j \in 1 .. L |-> 1 + j - 1]
      <4>1. L + 1 - 1 = L
        BY <1>0
      <4> QED BY <4>1 DEF Items
    <3>2. [j \in 1 .. L |-> 1 + j - 1] \in Seq(1 .. L) /\ Len([j \in 1 .. L |-> 1 + j - 1]) = L
      <4>1. \A j \in 1 .. L : 1 + j - 1 \in 1 .. L
        BY <1>0
      <4>2. L \in Nat
        BY <1>0
      <4> HIDE DEF L
      <4> QED BY <4>1, <4>2
    <3> HIDE DEF q
    <3> QED BY <1>0, <1>2, <3>1, <3>2 DEF Queue
  <2> QED BY <1>0, <2>2, <2>3
<1> HIDE DEF q
<1>4. /\ d \in Connection(N + 1, M) /\ SameBlank(c, d) /\ d.state = c.state /\ d.out = c.out
      /\ d.iss = c.iss /\ d.snd_una = c.snd_una /\ d.snd_nxt = c.snd_nxt
      /\ d.snd_max = c.snd_max /\ d.begin = c.begin /\ d.sendQueue = q
  BY <1>3 DEF Connection, SameBlank
<1> HIDE DEF d
<1>5. Starting(d, w)
  BY <1>0, <1>2, <1>4 DEF Starting
<1>6. EndOk(After(d), w, max, nxt, closed) /\ After(d).state = d.state /\ ~ToldOfReset(d)
  <2>1. d.state \in Beginning /\ c.state \in Beginning /\ d.state \notin {"INIT", "LISTEN", "SYN_RCVD"}
    BY <1>4 DEF Beginning
  <2>2. /\ d \in Connection(N + 1, M) /\ SameBlank(c, d)
        /\ d.state \in Setting => Starting(d, w)
        /\ d.state # "SYN_RCVD"
    BY <1>4, <1>5
  <2> HIDE DEF N, M
  <2> QED BY <2>1, <2>2, BeginEnd
<1> QED
  BY <1>0, <1>1, <1>4, <1>6

\* The first n items.
LEMMA FirstItems ==
    ASSUME NEW n \in Nat
    PROVE  Items(1, n) = [i \in 1 .. n |-> 1 + i - 1] /\ Len(Items(1, n)) = n
<1>1. Items(1, n) = [i \in 1 .. n |-> 1 + i - 1]
  <2>1. n + 1 - 1 = n
    OBVIOUS
  <2> QED BY <2>1 DEF Items
<1> QED
  BY <1>1

\* The initial sequence number, the next one and the end of the queue.
LEMMA StartOffsets ==
    ASSUME NEW v \in View, NEW c, Starting(c, v)
    PROVE  /\ Plus(v.iss, 1) \in SeqNo /\ Minus(Plus(v.iss, 1), v.iss) = 1
           /\ Minus(v.iss, v.iss) = 0
           /\ BufferEndSeq(c) \in SeqNo /\ Minus(BufferEndSeq(c), v.iss) = v.sent + 1
<1>1. /\ Half \in Nat /\ SeqMod = 2 * Half /\ v.iss \in SeqNo
      /\ v.sent \in Nat /\ v.sent + 2 <= Half /\ Half >= 2
  BY ViewTypes, HalfFacts
<1>2. Minus(v.iss, v.iss) = 0
  BY <1>1, OffsetType
<1> DEFINE a == Plus(v.iss, 1)
           N == v.sent
<1>3. a \in SeqNo /\ Minus(a, v.iss) = 1
  <2>1. Minus(v.iss, v.iss) + 1 < SeqMod
    BY <1>1, <1>2
  <2> QED BY <1>1, <1>2, <2>1, OffsetPlus
<1>4. BufferEndSeq(c) = Plus(a, N)
  <2>1. c.begin = a /\ c.sendQueue = Items(1, N) /\ N \in Nat
    BY <1>1 DEF Starting
  <2> HIDE DEF a, N
  <2> QED BY <2>1, FirstItems DEF BufferEndSeq
<1>5. Plus(a, N) \in SeqNo /\ Minus(Plus(a, N), v.iss) = 1 + N
  <2>1. Minus(a, v.iss) + N < SeqMod
    BY <1>1, <1>3
  <2> HIDE DEF a
  <2> QED BY <1>1, <1>3, <2>1, OffsetPlus
<1> HIDE DEF a
<1> QED
  BY <1>1, <1>2, <1>3, <1>4, <1>5 DEF a

\* A connection whose SYN has been acknowledged and that has seen the SYN of its peer.
Met(c, v) ==
    /\ c.iss = v.iss /\ ~c.failed
    /\ c.snd_una = Plus(v.iss, 1) /\ c.snd_nxt = Plus(v.iss, 1)
    /\ c.snd_max = Plus(v.iss, 1) /\ c.begin = Plus(v.iss, 1)
    /\ c.sendQueue = Items(1, v.sent) /\ ~c.send_fin /\ ~c.fin_ack_rcvd
    /\ c.rcv_nxt = Plus(v.peerIss, 1) /\ c.receiveQueue = {} /\ c.toApp = <<>>
    /\ ~c.fin_rcvd /\ c.out = {}

\* It has sent and received nothing but its SYN.
LEMMA MetFlow ==
    ASSUME NEW v \in View, 1 <= v.peerMax, v.peerMax <= v.peerSent + 2, v.peerNxt = 1,
           NEW c \in Connection(v.sent, v.peerSent), Met(c, v)
    PROVE  /\ Flow(c, v)
           /\ Una(c, v) = 1 /\ Nxt(c, v) = 1 /\ Top(c, v) = 1 /\ Rcv(c, v) = 1
<1> DEFINE N == v.sent
<1>1. /\ Half \in Nat /\ SeqMod = 2 * Half /\ v.iss \in SeqNo /\ v.peerIss \in SeqNo
      /\ N \in Nat /\ v.peerSent \in Nat /\ N + 2 <= Half /\ Half >= 2
      /\ v.peerMax \in Nat
  BY ViewTypes, HalfFacts
<1>2. Minus(Plus(v.iss, 1), v.iss) = 1 /\ Minus(Plus(v.peerIss, 1), v.peerIss) = 1
  <2>1. Minus(v.iss, v.iss) = 0 /\ Minus(v.peerIss, v.peerIss) = 0
    BY <1>1, OffsetType
  <2>2. Minus(v.iss, v.iss) + 1 < SeqMod /\ Minus(v.peerIss, v.peerIss) + 1 < SeqMod
    BY <1>1, <2>1
  <2> QED BY <1>1, <2>1, <2>2, OffsetPlus
<1>3. Una(c, v) = 1 /\ Nxt(c, v) = 1 /\ Top(c, v) = 1 /\ Beg(c, v) = 1 /\ Rcv(c, v) = 1
  BY <1>2 DEF Met, Una, Nxt, Top, Beg, Rcv
<1>4. SendSide(c, v)
  <2>1. 1 <= 1 /\ 1 <= N + 2 /\ N + 2 # 1 /\ N + 1 - 1 = N
    BY <1>1
  <2>2. c.sendQueue = [i \in 1 .. N |-> 1 + i - 1]
    BY <1>1, FirstItems DEF Met
  <2> HIDE DEF N
  <2>3. /\ 1 <= Una(c, v) /\ Una(c, v) <= Nxt(c, v) /\ Nxt(c, v) <= Top(c, v)
        /\ Top(c, v) <= v.sent + 2 /\ Una(c, v) # v.sent + 2 /\ Top(c, v) # v.sent + 2
        /\ Beg(c, v) = Una(c, v)
    BY <1>3, <2>1 DEF N
  <2>4. c.sendQueue = [i \in 1 .. v.sent + 1 - Beg(c, v) |-> Beg(c, v) + i - 1]
    BY <1>3, <2>1, <2>2 DEF N
  <2> QED BY <2>3, <2>4 DEF SendSide, Met
<1>5. RecvSide(c, v)
  <2>1. Delivered(1, v.peerSent) = <<>>
    <3>1. 1 # v.peerSent + 2 /\ 1 .. 1 - 1 = {}
      BY <1>1
    <3> QED BY <3>1 DEF Delivered
  <2> QED BY <1>1, <1>3, <2>1 DEF RecvSide, Met
<1>6. \A s \in c.out : Mine(s, c, v)
  BY DEF Met
<1>7. Una(c, v) <= v.peerNxt /\ v.peerNxt <= Top(c, v)
  BY <1>3
<1> QED
  BY <1>3, <1>4, <1>5, <1>6, <1>7 DEF Flow, Met

\* The SYN+ACK establishes the connection: its application is told so, and an ACK
\* leaves, on data if some is queued.
LEMMA SynAckEstablishes ==
    ASSUME NEW v \in View, NEW max, NEW nxt, NEW closed,
           NEW c \in Connection(v.sent, v.peerSent), EndOk(c, v, max, nxt, closed),
           c.state = "SYN_SENT", v.peerNxt = 1, NEW win \in Windows
    PROVE  LET d == process_RCV_SEGMENT(c, SynAck(v.peerIss, v.iss), win)
           IN  /\ Stepped(d, v, max, nxt, Top(d, v), Rcv(d, v), closed)
               /\ ~ToldOfReset(d) /\ After(d).state = "ESTABLISHED"
<1> DEFINE N == v.sent
           M == v.peerSent
           s == SynAck(v.peerIss, v.iss)
           d == process_RCV_SEGMENT(c, s, win)
           a == Plus(v.iss, 1)
           p == Plus(v.peerIss, 1)
           r == {}
           u1 == [c EXCEPT !.rcv_nxt = p, !.receiveQueue = r, !.snd_una = a]
           c2 == discardUpTo(u1, a)
           c3 == ackOfSyn(c2, win)
           j == Append(c3.ind, "ESTABLISHED")
           c4 == [c3 EXCEPT !.ind = j]
           g == performStateTransition(c4, "RCV_SYN_ACK")
<1>0. /\ N \in Nat /\ M \in Nat /\ ~c.failed /\ c.out = {} /\ Starting(c, v) /\ Blank(c)
      /\ max = 1 /\ nxt = 1 /\ ~closed /\ v.peerMax \in Nat /\ 1 <= v.peerMax
      /\ v.peerMax <= v.peerSent + 2
  BY ViewTypes DEF EndOk, Setting, Beginning, Counts
<1>1. /\ s.flags = {"SYN", "ACK"} /\ s.seqNo = v.peerIss /\ s.ackNo = a /\ s.item = 0
  BY DEF SynAck, Seg
<1>2. /\ Half \in Nat /\ SeqMod = 2 * Half /\ v.iss \in SeqNo /\ v.peerIss \in SeqNo
      /\ N + 2 <= Half /\ Half >= 2 /\ p \in SeqNo
  BY ViewTypes, HalfFacts, PlusType, SeqConstants
<1>3. a \in SeqNo /\ Minus(a, v.iss) = 1 /\ Minus(v.iss, v.iss) = 0
  BY <1>0, StartOffsets
<1>4. ~seqLE(a, v.iss) /\ ~seqGreater(a, a) /\ seqLE(a, a)
  <2> HIDE DEF a
  <2>1. /\ Minus(a, v.iss) - Minus(v.iss, v.iss) < Half
        /\ Minus(v.iss, v.iss) - Minus(a, v.iss) < Half
        /\ Minus(a, v.iss) - Minus(a, v.iss) < Half
        /\ ~(Minus(a, v.iss) <= Minus(v.iss, v.iss)) /\ ~(Minus(a, v.iss) > Minus(a, v.iss))
        /\ Minus(a, v.iss) <= Minus(a, v.iss)
    BY <1>2, <1>3
  <2> QED BY <1>2, <1>3, <2>1, Offsets
<1>5. d = g
  <2>1. c.iss = v.iss /\ c.snd_nxt = a
    BY <1>0 DEF Starting
  <2> DEFINE bad == Has(s, "ACK") /\ (seqLE(s.ackNo, c.iss) \/ seqGreater(s.ackNo, c.snd_nxt))
  <2>2. ~bad
    BY <1>1, <1>4, <2>1
  <2>3. d = processSegmentInSynSent(c, s, win)
    BY DEF process_RCV_SEGMENT
  <2>4. ~Has(s, "RST") /\ Has(s, "SYN") /\ Has(s, "ACK")
    BY <1>1 DEF Has
  <2>5. /\ Plus(s.seqNo, 1) = p /\ s.ackNo = a
    BY <1>1
  <2> DEFINE c1 == [c EXCEPT !.rcv_nxt = Plus(s.seqNo, 1), !.receiveQueue = {}]
             e2 == discardUpTo([c1 EXCEPT !.snd_una = s.ackNo], s.ackNo)
             e4 == sendIndicationToApp(ackOfSyn(e2, win), "ESTABLISHED")
  <2>6. processSegmentInSynSent(c, s, win) = performStateTransition(e4, "RCV_SYN_ACK")
    <3> HIDE DEF s
    <3> QED BY <2>2, <2>4 DEF processSegmentInSynSent
  <2>7. [c1 EXCEPT !.snd_una = s.ackNo] = u1
    BY <2>5 DEF r
  <2>8. e2 = c2
    <3> HIDE DEF c1, u1, a, s
    <3> QED BY <2>5, <2>7
  <2>9. e4 = c4
    <3> HIDE DEF e2, c2
    <3> QED BY <2>8 DEF sendIndicationToApp
  <2> HIDE DEF e4, c4, d
  <2> QED BY <2>3, <2>6, <2>9
<1> HIDE DEF d, s
<1>6. /\ u1 \in Connection(N, M) /\ u1.state = c.state /\ u1.ind = c.ind
      /\ u1.the2MSLTimer = c.the2MSLTimer /\ u1.rexmitTimer = c.rexmitTimer
      /\ u1.iss = v.iss /\ ~u1.failed /\ u1.snd_una = a /\ u1.snd_nxt = a /\ u1.snd_max = a
      /\ u1.begin = a /\ u1.sendQueue = Items(1, N) /\ ~u1.send_fin /\ ~u1.fin_ack_rcvd
      /\ u1.rcv_nxt = p /\ u1.receiveQueue = r /\ u1.toApp = <<>> /\ ~u1.fin_rcvd
      /\ u1.out = {}
  <2>1. /\ c.snd_nxt = a /\ c.snd_max = a /\ c.begin = a /\ c.sendQueue = Items(1, N)
        /\ c.iss = v.iss /\ ~c.send_fin /\ ~c.fin_ack_rcvd /\ c.toApp = <<>> /\ ~c.fin_rcvd
    BY <1>0 DEF Starting, Blank
  <2>2. r \in Received(M) /\ a \in SeqNo /\ p \in SeqNo
    BY <1>2, <1>3 DEF Received
  <2>3. /\ u1 \in Connection(N, M)
    <3> HIDE DEF r, a, p
    <3> QED BY <2>2 DEF Connection
  <2>4. /\ u1.state = c.state /\ u1.ind = c.ind
        /\ u1.the2MSLTimer = c.the2MSLTimer /\ u1.rexmitTimer = c.rexmitTimer
        /\ u1.iss = c.iss /\ u1.failed = c.failed /\ u1.snd_una = a /\ u1.snd_nxt = c.snd_nxt
        /\ u1.snd_max = c.snd_max
        /\ u1.begin = c.begin /\ u1.sendQueue = c.sendQueue /\ u1.send_fin = c.send_fin
        /\ u1.fin_ack_rcvd = c.fin_ack_rcvd
        /\ u1.rcv_nxt = p /\ u1.receiveQueue = r /\ u1.toApp = c.toApp
        /\ u1.fin_rcvd = c.fin_rcvd /\ u1.out = c.out
    <3> HIDE DEF r, a, p
    <3> QED BY DEF Connection
  <2> HIDE DEF u1
  <2> QED BY <1>0, <2>1, <2>3, <2>4
<1> HIDE DEF u1
<1>7. c2 = u1
  <2>1. /\ u1.begin = a /\ BufferEndSeq(u1) = BufferEndSeq(c)
    BY <1>0, <1>6 DEF BufferEndSeq, Starting
  <2>2. BufferEndSeq(c) \in SeqNo /\ Minus(BufferEndSeq(c), v.iss) = N + 1
    BY <1>0, StartOffsets
  <2>3. seqLE(a, BufferEndSeq(u1))
    <3> DEFINE e == BufferEndSeq(c)
    <3>1. e \in SeqNo /\ Minus(e, v.iss) = N + 1 /\ a \in SeqNo /\ v.iss \in SeqNo
      BY <1>2, <1>3, <2>2
    <3> HIDE DEF e, a
    <3>2. /\ Minus(a, v.iss) - Minus(e, v.iss) < Half
          /\ Minus(e, v.iss) - Minus(a, v.iss) < Half
          /\ Minus(a, v.iss) <= Minus(e, v.iss)
      BY <1>0, <1>2, <1>3, <3>1
    <3>3. seqLE(a, e)
      BY <3>1, <3>2, Offsets
    <3> QED BY <2>1, <3>3 DEF e
  <2> DEFINE q == u1.sendQueue
  <2>4. SubSeq(q, Minus(a, a) + 1, Len(q)) = q
    <3>1. Minus(a, a) = 0
      BY <1>3, OffsetType
    <3>2. 0 \in Nat /\ 1 \in Nat /\ 1 + 0 <= N + 1 /\ 1 + 0 = 1
      BY <1>0
    <3>3. SubSeq(Items(1, N), 0 + 1, Len(Items(1, N))) = Items(1 + 0, N)
      BY <1>0, <3>2, ItemsLeft
    <3>4. q = Items(1, N)
      BY <1>6
    <3> HIDE DEF q, N
    <3> QED BY <3>1, <3>2, <3>3, <3>4
  <2>5. c2 = [u1 EXCEPT !.begin = a, !.sendQueue = q]
    <3>1. seqLE(u1.begin, a) /\ seqLE(a, BufferEndSeq(u1))
      BY <1>4, <2>1, <2>3
    <3>2. c2 = [u1 EXCEPT !.begin = a, !.sendQueue = SubSeq(@, Minus(a, u1.begin) + 1, Len(@))]
      BY <3>1 DEF discardUpTo
    <3> HIDE DEF c2, a
    <3> QED BY <2>1, <2>4, <3>2
  <2>6. [u1 EXCEPT !.begin = a, !.sendQueue = q] = u1
    <3>1. u1.begin = a /\ u1.sendQueue = q /\ u1 \in Connection(N, M)
      BY <1>6
    <3> HIDE DEF q, a
    <3> QED BY <3>1 DEF Connection
  <2> QED BY <2>5, <2>6
<1> HIDE DEF c2
<1>8. /\ Flow(c2, v) /\ Top(c2, v) = 1 /\ Rcv(c2, v) = 1 /\ TimerExact(c2)
      /\ c2.state = "SYN_SENT" /\ c2.ind = c.ind /\ c2.the2MSLTimer = 0 /\ ~c2.send_fin
  <2>1. Met(u1, v)
    BY <1>6 DEF Met
  <2>2. Flow(u1, v) /\ Top(u1, v) = 1 /\ Rcv(u1, v) = 1
    BY <1>0, <1>6, <2>1, MetFlow
  <2>3. TimerExact(u1) /\ u1.the2MSLTimer = 0
    BY <1>0, <1>6 DEF TimerExact, Blank
  <2> QED BY <1>6, <1>7, <2>2, <2>3
<1>9. Flow(c3, v) /\ Sends(c2, c3, v) /\ TimerExact(c3)
  <2> DEFINE b == sendData(c2, win)
  <2>1. Flow(b, v) /\ Sends(c2, b, v) /\ TimerExact(b)
    BY <1>8, DataFlow
  <2>2. c3 = b \/ c3 = sendAck(b)
    BY DEF ackOfSyn
  <2> HIDE DEF b, c3
  <2>3. CASE c3 = b
    BY <2>1, <2>3
  <2>4. CASE c3 = sendAck(b)
    <3> DEFINE k == sendAck(b)
    <3>1. /\ Flow(k, v) /\ Sends(b, k, v) /\ Nxt(k, v) = Nxt(b, v) /\ Top(k, v) = Top(b, v)
          /\ k.rexmitTimer = b.rexmitTimer /\ k.snd_max = b.snd_max
      BY <2>1, AckFlow
    <3> HIDE DEF k
    <3>2. TimerExact(k)
      BY <2>1, <3>1 DEF TimerExact, Sends, Same
    <3>3. Sends(c2, k, v)
      BY <1>8, <2>1, <3>1, SendsTwice
    <3> QED BY <2>4, <3>1, <3>2, <3>3 DEF k
  <2> QED BY <2>2, <2>3, <2>4
<1> HIDE DEF c3
<1>10. /\ c3.state = "SYN_SENT" /\ c3.ind = c.ind /\ c3.the2MSLTimer = 0 /\ ~c3.send_fin
       /\ Rcv(c3, v) = 1 /\ 1 <= Top(c3, v) /\ c3 \in Connection(N, M) /\ ~c3.failed
  BY <1>8, <1>9 DEF Sends, Same, Rcv, Flow
<1>11. /\ c4 \in Connection(N, M) /\ SameFlow(c3, c4) /\ c4.state = c3.state /\ c4.ind = j
       /\ c4.the2MSLTimer = c3.the2MSLTimer /\ c4.rexmitTimer = c3.rexmitTimer
       /\ j \in Seq(Indication)
  <2>1. c3.ind \in Seq(Indication) /\ "ESTABLISHED" \in Indication
    BY <1>10, ConnectionTypes DEF Indication
  <2>2. j \in Seq(Indication)
    BY <2>1
  <2> HIDE DEF j
  <2>0. c3 \in Connection(N, M) /\ j \in Seq(Indication)
    BY <1>10, <2>2
  <2>3. c4 \in Connection(N, M)
    BY ONLY <2>0 DEF Connection
  <2> USE DEF Connection
  <2>4. SameFlow(c3, c4)
    BY <1>10 DEF SameFlow
  <2>5. /\ c4.state = c3.state /\ c4.ind = j
        /\ c4.the2MSLTimer = c3.the2MSLTimer /\ c4.rexmitTimer = c3.rexmitTimer
    BY <1>10
  <2> QED BY ONLY <2>2, <2>3, <2>4, <2>5
<1> HIDE DEF c4
<1>12. NextState(c4, "RCV_SYN_ACK") = "ESTABLISHED" /\ ~c4.failed
  BY <1>10, <1>11 DEF NextState, SameFlow
<1>13. /\ g \in Connection(N, M) /\ SameFlow(c4, g) /\ g.state = "ESTABLISHED" /\ g.ind = j
       /\ g.the2MSLTimer = c4.the2MSLTimer /\ g.rexmitTimer = c4.rexmitTimer
  <2> HIDE DEF j, N, M
  <2> QED BY <1>11, <1>12, PlainMove
<1> HIDE DEF g
<1>14. /\ Flow(g, v) /\ Top(g, v) = Top(c3, v) /\ Rcv(g, v) = 1
  <2>1. Flow(c4, v) /\ Top(c4, v) = Top(c3, v) /\ Rcv(c4, v) = Rcv(c3, v)
    BY <1>9, <1>11, SameFlowFlow
  <2>2. Flow(g, v) /\ Top(g, v) = Top(c4, v) /\ Rcv(g, v) = Rcv(c4, v)
    BY <1>13, <2>1, SameFlowFlow
  <2> QED BY <1>10, <2>1, <2>2
<1>15. ~Says(j, "CLOSED") /\ ~Says(j, "CONNECTION_RESET") /\ Closing(j)
       /\ (Says(j, "PEER_CLOSED") => Says(c.ind, "PEER_CLOSED"))
  <2>1. c.ind \in Seq(Indication) /\ "ESTABLISHED" \in Indication /\ j = Append(c.ind, "ESTABLISHED")
    BY <1>10, ConnectionTypes DEF Indication
  <2>2. /\ Says(Append(c.ind, "ESTABLISHED"), "CLOSED") <=> Says(c.ind, "CLOSED") \/ "ESTABLISHED" = "CLOSED"
        /\ Says(Append(c.ind, "ESTABLISHED"), "PEER_CLOSED") <=> Says(c.ind, "PEER_CLOSED") \/ "ESTABLISHED" = "PEER_CLOSED"
        /\ Says(Append(c.ind, "ESTABLISHED"), "CONNECTION_RESET")
              <=> Says(c.ind, "CONNECTION_RESET") \/ "ESTABLISHED" = "CONNECTION_RESET"
        /\ ~Says(c.ind, "CLOSED") => Closing(Append(c.ind, "ESTABLISHED"))
    BY <2>1, SaysAppend
  <2> HIDE DEF j
  <2> QED BY <1>0, <2>1, <2>2 DEF Blank
<1>16. Control(g, v)
  <2>1. Top(g, v) <= N + 1
    <3>1. ~g.send_fin
      BY <1>10, <1>11, <1>13 DEF SameFlow
    <3>2. Top(g, v) # N + 2 /\ Top(g, v) \in 1 .. N + 2
      BY <1>14, <3>1, FlowFacts DEF Flow, SendSide
    <3> QED BY <1>0, <3>2
  <2>2. TimerExact(g)
    BY <1>9, <1>11, <1>13 DEF TimerExact, SameFlow
  <2>3. ToldRight(g, v)
    <3>1. ~Says(c.ind, "PEER_CLOSED")
      <4>1. nxt # v.peerSent + 2
        BY <1>0
      <4> QED BY <4>1 DEF EndOk, Told2
    <3> QED BY <1>13, <1>15, <3>1 DEF ToldRight
  <2>4. Rcv(g, v) <= v.peerSent + 1
    BY <1>0, <1>14
  <2>5. ~(g.the2MSLTimer > 0)
    BY <1>10, <1>11, <1>13
  <2> QED BY <1>13, <2>1, <2>2, <2>3, <2>4, <2>5 DEF Control, FinConsumed
<1>17. Stepped(g, v, max, nxt, Top(g, v), Rcv(g, v), closed) /\ ~ToldOfReset(g)
  <2>1. max <= Top(g, v) /\ nxt <= Rcv(g, v) /\ g.state \in Synchronized /\ (g.send_fin <=> closed)
    BY <1>0, <1>10, <1>11, <1>13, <1>14 DEF SameFlow, Synchronized
  <2> QED BY <1>14, <1>16, <2>1, LiveStep
<1>18. After(g).state = "ESTABLISHED"
  <2>1. g.state # "CLOSED"
    BY <1>13
  <2> QED BY <1>13, <2>1, Departed
<1> QED
  BY <1>5, <1>17, <1>18 DEF d, s

\* A handler that leaves a connection as it was before it is established.
LEMMA QuietEnd ==
    ASSUME NEW v \in View, NEW max, NEW nxt, NEW closed,
           NEW c \in Connection(v.sent, v.peerSent), EndOk(c, v, max, nxt, closed),
           c.state \in Beginning
    PROVE  /\ EndOk(After(c), v, max, nxt, closed) /\ After(c).state = c.state
           /\ After(c).active = c.active /\ ~ToldOfReset(c) /\ c.out = {}
<1>1. SameBlank(c, c)
  BY DEF SameBlank
<1>2. /\ c.state \in Setting => Starting(c, v)
      /\ c.state \in {"INIT", "LISTEN", "SYN_RCVD"} => v.sent = 0
      /\ c.state = "SYN_RCVD" => c.rcv_nxt = Plus(v.peerIss, 1) /\ c.receiveQueue = {}
      /\ c.out = {}
  BY DEF EndOk
<1> QED
  BY <1>1, <1>2, BeginEnd

\* Shutdown, and what is left of the connection.
LEMMA ShutEnd ==
    ASSUME NEW v, NEW max, NEW nxt, NEW closed, NEW n, NEW m, NEW c \in Connection(n, m),
           EndOk(c, v, max, nxt, closed), c.state # "CLOSED",
           NEW b \in Connection(n, m), Warned(c, b),
           NEW event, NextState(b, event) = "CLOSED"
    PROVE  LET g == performStateTransition(b, event)
           IN  /\ g.out = b.out
               /\ EndOk(After(g), v, max, nxt, closed) /\ After(g).state = "CLOSED"
               /\ ToldOfReset(g) <=> Says(b.ind, "CONNECTION_RESET")
<1> DEFINE g == performStateTransition(b, event)
<1>1. LET e == removeConnection([g EXCEPT !.out = {}])
      IN  /\ g.state = "CLOSED" /\ g.out = b.out
          /\ EndOk(e, v, max, nxt, closed) /\ e.state = "CLOSED"
          /\ Says(e.ind, "CONNECTION_RESET") <=> Says(b.ind, "CONNECTION_RESET")
  BY Shutdown
<1> HIDE DEF g
<1>2. /\ g.out = b.out
      /\ EndOk(After(g), v, max, nxt, closed) /\ After(g).state = "CLOSED"
      /\ ToldOfReset(g) <=> Says(b.ind, "CONNECTION_RESET")
  BY <1>1 DEF After, ToldOfReset
<1> QED
  BY <1>2 DEF g

\* In SYN_SENT a reset of the SYN closes the connection; other resets and segments
\* without SYN are ignored.
LEMMA SynSentOther ==
    ASSUME NEW v \in View, NEW max, NEW nxt, NEW closed,
           NEW c \in Connection(v.sent, v.peerSent), EndOk(c, v, max, nxt, closed),
           c.state = "SYN_SENT", v.peerNxt = 1,
           NEW s \in Segment(0 .. v.peerSent), Reset(s) \/ Theirs(s, v), NEW win
    PROVE  LET d == process_RCV_SEGMENT(c, s, win)
           IN  /\ EndOk(After(d), v, max, nxt, closed) /\ d.out = {}
               /\ \/ After(d).state = "SYN_SENT" /\ ~ToldOfReset(d)
                  \/ After(d).state = "CLOSED" /\ Reset(s)
<1> DEFINE N == v.sent
           M == v.peerSent
           i == Append(c.ind, "CONNECTION_RESET")
           b == [c EXCEPT !.ind = i]
           g == performStateTransition(b, "RCV_RST")
           d == process_RCV_SEGMENT(c, s, win)
<1>0. c \in Connection(N, M) /\ ~c.failed /\ c.out = {} /\ Starting(c, v) /\ Blank(c)
  BY DEF EndOk, Setting, Beginning
<1>1. d = c \/ (d = g /\ Reset(s))
  <2> DEFINE bad == Has(s, "ACK") /\ (seqLE(s.ackNo, c.iss) \/ seqGreater(s.ackNo, c.snd_nxt))
  <2>1. d = processSegmentInSynSent(c, s, win)
    BY DEF process_RCV_SEGMENT
  <2>2. CASE Reset(s)
    <3>1. Has(s, "RST")
      BY <2>2 DEF Reset, Has
    <3>2. sendIndicationToApp(c, "CONNECTION_RESET") = b
      BY DEF sendIndicationToApp
    <3>3. CASE bad
      <4>1. d = c
        BY <2>1, <3>1, <3>3 DEF processSegmentInSynSent
      <4> QED BY <4>1
    <3>4. CASE ~bad
      <4>1. d = IF Has(s, "ACK")
                THEN performStateTransition(
                         sendIndicationToApp(c, "CONNECTION_RESET"), "RCV_RST")
                ELSE c
        BY <2>1, <3>1, <3>4 DEF processSegmentInSynSent
      <4> HIDE DEF b, d
      <4> QED BY <2>2, <3>2, <4>1
    <3> QED BY <3>3, <3>4
  <2>3. CASE Theirs(s, v)
    <3>1. /\ ~Has(s, "RST") /\ ~Has(s, "SYN") /\ Has(s, "ACK")
          /\ Minus(s.ackNo, v.iss) = 1 /\ s.ackNo \in SeqNo
      <4>1. Minus(s.ackNo, v.iss) \in 1 .. 1
        BY <2>3 DEF Theirs, Piece
      <4> QED BY <2>3, <4>1 DEF Theirs, Piece, Has, Segment
    <3>2. ~bad
      <4> DEFINE a == Plus(v.iss, 1)
      <4>1. c.iss = v.iss /\ c.snd_nxt = a
        BY <1>0 DEF Starting
      <4>2. /\ Half \in Nat /\ SeqMod = 2 * Half /\ v.iss \in SeqNo /\ Half >= 2
            /\ Minus(a, v.iss) = 1 /\ a \in SeqNo /\ Minus(v.iss, v.iss) = 0
        BY <1>0, ViewTypes, HalfFacts, StartOffsets
      <4> HIDE DEF a
      <4>3. /\ Minus(s.ackNo, v.iss) - Minus(v.iss, v.iss) < Half
            /\ Minus(v.iss, v.iss) - Minus(s.ackNo, v.iss) < Half
            /\ Minus(s.ackNo, v.iss) - Minus(a, v.iss) < Half
            /\ Minus(a, v.iss) - Minus(s.ackNo, v.iss) < Half
            /\ ~(Minus(s.ackNo, v.iss) <= Minus(v.iss, v.iss))
            /\ ~(Minus(s.ackNo, v.iss) > Minus(a, v.iss))
        BY <3>1, <4>2
      <4>4. ~seqLE(s.ackNo, v.iss)
        BY <3>1, <4>2, <4>3, Offsets
      <4>5. ~seqGreater(s.ackNo, a)
        BY <3>1, <4>2, <4>3, Offsets
      <4> QED BY <4>1, <4>4, <4>5
    <3>3. d = c
      BY <2>1, <3>1, <3>2 DEF processSegmentInSynSent
    <3> QED BY <3>3
  <2> QED BY <2>2, <2>3
<1> HIDE DEF d
<1>2. CASE d = c
  <2>1. c.state \in Beginning
    BY DEF Beginning
  <2>2. /\ EndOk(After(c), v, max, nxt, closed) /\ After(c).state = c.state
        /\ ~ToldOfReset(c) /\ c.out = {}
    BY <2>1, QuietEnd
  <2> QED BY <1>2, <2>2 DEF d
<1>3. CASE d = g /\ Reset(s)
  <2>1. i \in Seq(Indication) /\ "CONNECTION_RESET" \in Indication \ {"CLOSED", "PEER_CLOSED"}
    <3>1. c.ind \in Seq(Indication) /\ "CONNECTION_RESET" \in Indication
      BY <1>0, ConnectionTypes DEF Indication
    <3> QED BY <3>1
  <2>2. /\ b \in Connection(N, M) /\ b.state = c.state /\ b.failed = c.failed
        /\ b.toApp = c.toApp /\ b.ind = i /\ b.out = c.out
    <3> HIDE DEF i
    <3> QED BY <1>0, <2>1 DEF Connection
  <2> HIDE DEF b
  <2>3. Warned(c, b)
    BY <1>0, <2>1, <2>2 DEF Warned
  <2>4. NextState(b, "RCV_RST") = "CLOSED" /\ c.state # "CLOSED" /\ \A r \in b.out : Reset(r)
    BY <1>0, <2>2 DEF NextState, Synchronized
  <2>5. /\ g.out = b.out
        /\ EndOk(After(g), v, max, nxt, closed) /\ After(g).state = "CLOSED"
    <3>1. /\ c \in Connection(N, M) /\ b \in Connection(N, M) /\ Warned(c, b)
          /\ c.state # "CLOSED" /\ NextState(b, "RCV_RST") = "CLOSED"
      BY <1>0, <2>2, <2>3, <2>4
    <3> HIDE DEF N, M, i
    <3> QED BY <3>1, ShutEnd
  <2> HIDE DEF g
  <2> QED BY <1>0, <1>3, <2>2, <2>5 DEF d
<1> QED
  BY <1>1, <1>2, <1>3

\* CLOSE before there is a connection.
LEMMA CloseEarly ==
    ASSUME NEW v \in View, NEW max, NEW nxt, NEW closed,
           NEW c \in Connection(v.sent, v.peerSent), EndOk(c, v, max, nxt, closed),
           c.state \in {"LISTEN", "SYN_SENT"}
    PROVE  LET d == process_CLOSE(c)
           IN  /\ EndOk(After(d), v, max, nxt, TRUE) /\ d.out = {}
               /\ After(d).state = "CLOSED" /\ ~ToldOfReset(d)
<1> DEFINE N == v.sent
           M == v.peerSent
           g == performStateTransition(c, "CLOSE")
           d == process_CLOSE(c)
<1>1. d = g
  BY DEF process_CLOSE
<1>2. /\ c \in Connection(N, M) /\ Warned(c, c) /\ NextState(c, "CLOSE") = "CLOSED"
      /\ c.state # "CLOSED" /\ TRUE \in BOOLEAN /\ closed => TRUE
  BY DEF Warned, EndOk, NextState
<1>3. /\ g.out = c.out
      /\ EndOk(After(g), v, max, nxt, TRUE) /\ After(g).state = "CLOSED"
      /\ ToldOfReset(g) <=> Says(c.ind, "CONNECTION_RESET")
  <2>1. LET e == removeConnection([g EXCEPT !.out = {}])
        IN  /\ g.state = "CLOSED" /\ g.out = c.out
            /\ EndOk(e, v, max, nxt, TRUE) /\ e.state = "CLOSED"
            /\ Says(e.ind, "CONNECTION_RESET") <=> Says(c.ind, "CONNECTION_RESET")
    <3> DEFINE t == TRUE
    <3>1. t \in BOOLEAN /\ (closed => t)
      OBVIOUS
    <3> HIDE DEF N, M, t
    <3>2. LET e == removeConnection([g EXCEPT !.out = {}])
          IN  /\ g.state = "CLOSED" /\ g.out = c.out
              /\ EndOk(e, v, max, nxt, t) /\ e.state = "CLOSED"
              /\ Says(e.ind, "CONNECTION_RESET") <=> Says(c.ind, "CONNECTION_RESET")
      BY <1>2, <3>1, Shutdown
    <3> HIDE DEF g
    <3> QED BY <3>2 DEF t
  <2> HIDE DEF g
  <2> QED BY <2>1 DEF After, ToldOfReset
<1>4. ~Says(c.ind, "CONNECTION_RESET") /\ c.out = {}
  BY DEF EndOk, Beginning, Blank
<1> HIDE DEF g, d
<1> QED
  BY <1>1, <1>3, <1>4 DEF d

\* The CONN-ESTAB timeout: the active end gives up, the passive one listens again.
LEMMA ConnEstabEnd ==
    ASSUME NEW v \in View, NEW max, NEW nxt, NEW closed,
           NEW c \in Connection(v.sent, v.peerSent), EndOk(c, v, max, nxt, closed),
           c.state \in Setting, c.state = "SYN_RCVD" => ~c.active
    PROVE  LET d == process_TIMEOUT_CONN_ESTAB([c EXCEPT !.connEstabTimer = FALSE])
           IN  /\ EndOk(After(d), v, max, nxt, closed) /\ d.out = {} /\ ~ToldOfReset(d)
               /\ After(d).state = (IF c.state = "SYN_SENT" THEN "CLOSED" ELSE "LISTEN")
               /\ c.state = "SYN_RCVD" => ~After(d).active
<1> DEFINE N == v.sent
           M == v.peerSent
           x == [c EXCEPT !.connEstabTimer = FALSE]
           i == Append(c.ind, "TIMED_OUT")
           y == [x EXCEPT !.ind = i]
           b == IF x.active THEN y ELSE x
           g == performStateTransition(b, "TIMEOUT_CONN_ESTAB")
           d == process_TIMEOUT_CONN_ESTAB(x)
<1>0. /\ c \in Connection(N, M) /\ ~c.failed /\ c.out = {} /\ Blank(c)
      /\ c.state \in {"SYN_SENT", "SYN_RCVD"} /\ c.state \in Beginning
  BY DEF EndOk, Setting, Beginning
<1>1. i \in Seq(Indication) /\ "TIMED_OUT" \in Indication \ {"CLOSED", "PEER_CLOSED"}
      /\ ~Says(i, "CONNECTION_RESET")
  <2>1. c.ind \in Seq(Indication) /\ "TIMED_OUT" \in Indication
    BY <1>0, ConnectionTypes DEF Indication
  <2>2. Says(i, "CONNECTION_RESET") <=> Says(c.ind, "CONNECTION_RESET") \/ "TIMED_OUT" = "CONNECTION_RESET"
    BY <2>1, SaysAppend
  <2>3. i \in Seq(Indication)
    BY <2>1
  <2> HIDE DEF i
  <2> QED BY <1>0, <2>1, <2>2, <2>3 DEF Blank
<1>2. d = g
  <2>1. sendIndicationToApp(x, "TIMED_OUT") = y
    BY DEF sendIndicationToApp, Connection
  <2>2. x.state \in {"SYN_SENT", "SYN_RCVD"}
    BY <1>0 DEF Connection
  <2> HIDE DEF x, y
  <2> QED BY <2>1, <2>2 DEF process_TIMEOUT_CONN_ESTAB
<1> HIDE DEF i, d
<1>3. /\ x \in Connection(N, M) /\ x.state = c.state /\ x.active = c.active /\ x.out = {}
      /\ SameBlank(c, x)
  BY <1>0 DEF Connection, SameBlank
<1> HIDE DEF x
<1>4. /\ y \in Connection(N, M) /\ y.state = c.state /\ y.active = c.active /\ y.out = {}
      /\ y.ind = i /\ y.failed = c.failed /\ y.toApp = c.toApp
  BY <1>1, <1>3 DEF Connection, SameBlank
<1> HIDE DEF y
<1>5. CASE c.state = "SYN_SENT"
  <2>1. /\ b \in Connection(N, M) /\ b.state = c.state /\ b.out = {} /\ Warned(c, b)
        /\ ~Says(b.ind, "CONNECTION_RESET")
    <3>1. Warned(c, x)
      BY <1>0, <1>3 DEF Warned, SameBlank
    <3>2. Warned(c, y)
      <4>1. \E z \in Indication \ {"CLOSED", "PEER_CLOSED"} : y.ind = Append(c.ind, z)
        BY <1>1, <1>4 DEF i
      <4> QED BY <1>0, <1>4, <1>5, <4>1 DEF Warned
    <3>3. ~Says(x.ind, "CONNECTION_RESET") /\ ~Says(y.ind, "CONNECTION_RESET")
      BY <1>0, <1>1, <1>3, <1>4 DEF SameBlank, Blank
    <3> QED BY <1>3, <1>4, <3>1, <3>2, <3>3
  <2> HIDE DEF b
  <2>2. NextState(b, "TIMEOUT_CONN_ESTAB") = "CLOSED" /\ c.state # "CLOSED"
    BY <1>5, <2>1 DEF NextState
  <2>3. /\ g.out = b.out
        /\ EndOk(After(g), v, max, nxt, closed) /\ After(g).state = "CLOSED"
        /\ ToldOfReset(g) <=> Says(b.ind, "CONNECTION_RESET")
    <3>1. LET e == removeConnection([g EXCEPT !.out = {}])
          IN  /\ g.state = "CLOSED" /\ g.out = b.out
              /\ EndOk(e, v, max, nxt, closed) /\ e.state = "CLOSED"
              /\ Says(e.ind, "CONNECTION_RESET") <=> Says(b.ind, "CONNECTION_RESET")
      <4> HIDE DEF N, M
      <4> QED BY <1>0, <2>1, <2>2, Shutdown
    <3> HIDE DEF g
    <3> QED BY <3>1 DEF After, ToldOfReset
  <2> HIDE DEF g
  <2> QED BY <1>2, <1>5, <2>1, <2>3 DEF d, x
<1>6. CASE c.state = "SYN_RCVD"
  <2>1. b = x /\ ~x.active
    BY <1>3, <1>6
  <2> HIDE DEF b
  <2>2. NextState(x, "TIMEOUT_CONN_ESTAB") = "LISTEN" /\ ~x.failed
    BY <1>0, <1>3, <1>6, <2>1 DEF NextState, SameBlank
  <2> DEFINE h == performStateTransition(x, "TIMEOUT_CONN_ESTAB")
  <2>3. /\ h \in Connection(N, M) /\ SameFlow(x, h) /\ h.state = "LISTEN"
        /\ h.active = x.active /\ h.ind = x.ind
        /\ h.the2MSLTimer = x.the2MSLTimer /\ h.rexmitTimer = x.rexmitTimer
    <3> HIDE DEF N, M
    <3> QED BY <1>3, <2>2, PlainMove
  <2>4. d = h
    BY <1>2, <2>1 DEF h
  <2> HIDE DEF h, g
  <2>5. SameBlank(c, h) /\ h.out = {} /\ v.sent = 0
    BY <1>3, <1>6, <2>3 DEF SameBlank, SameFlow, EndOk
  <2>6. /\ EndOk(After(h), v, max, nxt, closed) /\ After(h).state = h.state /\ ~ToldOfReset(h)
        /\ After(h).active = h.active
    <3>1. h.state \in Beginning /\ h.state \notin Setting /\ h.state # "SYN_RCVD"
      BY <2>3 DEF Beginning, Setting
    <3> HIDE DEF N, M
    <3> QED BY <1>0, <2>3, <2>5, <3>1, BeginEnd
  <2> QED BY <1>6, <2>1, <2>3, <2>4, <2>5, <2>6 DEF d, x
<1> QED
  BY <1>0, <1>5, <1>6

\* The SYN-REXMIT timeout: the SYN or SYN+ACK again, or the end gives up.
LEMMA SynRexmitEnd ==
    ASSUME NEW v \in View, NEW max, NEW nxt, NEW closed,
           NEW c \in Connection(v.sent, v.peerSent), EndOk(c, v, max, nxt, closed),
           c.state \in Setting
    PROVE  LET d == process_TIMEOUT_SYN_REXMIT(c)
           IN  /\ EndOk(After(d), v, max, nxt, closed) /\ ~ToldOfReset(d)
               /\ \/ After(d).state = "CLOSED" /\ d.out = {}
                  \/ /\ After(d).state = c.state /\ After(d).active = c.active
                     /\ d.out = IF c.state = "SYN_SENT" THEN {Syn(v.iss)}
                                ELSE {SynAck(v.iss, v.peerIss)}
<1> DEFINE N == v.sent
           M == v.peerSent
           k == c.syn_rexmit_count + 1
           x == [c EXCEPT !.syn_rexmit_count = k]
           y == IF c.state = "SYN_SENT" THEN sendSyn(x) ELSE sendSynAck(x)
           g == performStateTransition(x, "ABORT")
           d == process_TIMEOUT_SYN_REXMIT(c)
<1>0. /\ c \in Connection(N, M) /\ ~c.failed /\ c.out = {} /\ Blank(c) /\ Starting(c, v)
      /\ c.state \in {"SYN_SENT", "SYN_RCVD"} /\ c.state \in Beginning /\ N \in Nat
      /\ c.state = "SYN_RCVD" => c.rcv_nxt = Plus(v.peerIss, 1) /\ c.receiveQueue = {}
                                 /\ v.sent = 0
  BY ViewTypes DEF EndOk, Setting, Beginning
<1>1. k \in Nat
  BY <1>0, ConnectionTypes
<1>2. d = g \/ d = y
  <2> HIDE DEF x
  <2> QED BY <1>0 DEF process_TIMEOUT_SYN_REXMIT, x
<1> HIDE DEF k, d
<1>3. /\ x \in Connection(N, M) /\ x.state = c.state /\ x.active = c.active /\ x.out = {}
      /\ SameStart(c, x)
  BY <1>0, <1>1 DEF Connection, SameBlank, SameStart
<1> HIDE DEF x
<1>4. CASE d = g
  <2>1. /\ Warned(c, x) /\ ~Says(x.ind, "CONNECTION_RESET") /\ c.state # "CLOSED"
        /\ NextState(x, "ABORT") = "CLOSED"
    BY <1>0, <1>3 DEF Warned, SameStart, SameBlank, Blank, NextState
  <2>2. /\ g.out = x.out
        /\ EndOk(After(g), v, max, nxt, closed) /\ After(g).state = "CLOSED"
        /\ ToldOfReset(g) <=> Says(x.ind, "CONNECTION_RESET")
    <3>1. LET e == removeConnection([g EXCEPT !.out = {}])
          IN  /\ g.state = "CLOSED" /\ g.out = x.out
              /\ EndOk(e, v, max, nxt, closed) /\ e.state = "CLOSED"
              /\ Says(e.ind, "CONNECTION_RESET") <=> Says(x.ind, "CONNECTION_RESET")
      <4> HIDE DEF N, M
      <4> QED BY <1>0, <1>3, <2>1, Shutdown
    <3> HIDE DEF g
    <3> QED BY <3>1 DEF After, ToldOfReset
  <2> HIDE DEF g
  <2> QED BY <1>3, <1>4, <2>1, <2>2 DEF d
<1>5. CASE d = y
  <2>1. /\ y \in Connection(N, M) /\ SameBlank(x, y)
        /\ y.state = x.state /\ y.active = x.active
        /\ y.rcv_nxt = x.rcv_nxt /\ y.receiveQueue = x.receiveQueue
        /\ y.iss = x.iss /\ y.snd_una = x.snd_una /\ y.begin = x.begin
        /\ y.sendQueue = x.sendQueue
        /\ y.snd_nxt = Plus(x.iss, 1) /\ y.snd_max = Plus(x.iss, 1)
        /\ y.out = x.out \cup (IF c.state = "SYN_SENT" THEN {Syn(x.iss)}
                                ELSE {Seg({"SYN", "ACK"}, x.iss, x.rcv_nxt, 0)})
    <3>1. CASE c.state = "SYN_SENT"
      <4>1. y = sendSyn(x)
        BY <3>1
      <4>2. y \in {sendSyn(x), sendSynAck(x)}
        BY <4>1
      <4> HIDE DEF y, N, M
      <4> QED BY <1>0, <1>3, <3>1, <4>1, <4>2, SynFields
    <3>2. CASE c.state # "SYN_SENT"
      <4>1. y = sendSynAck(x)
        BY <3>2
      <4>2. y \in {sendSyn(x), sendSynAck(x)}
        BY <4>1
      <4> HIDE DEF y, N, M
      <4> QED BY <1>0, <1>3, <3>2, <4>1, <4>2, SynFields
    <3> QED BY <3>1, <3>2
  <2> HIDE DEF y
  <2>2. /\ SameBlank(c, y) /\ y.state = c.state /\ y.active = c.active /\ Starting(y, v)
        /\ y.rcv_nxt = c.rcv_nxt /\ y.receiveQueue = c.receiveQueue
    BY <1>0, <1>3, <2>1 DEF SameStart, SameBlank, Starting
  <2>3. y.out = IF c.state = "SYN_SENT" THEN {Syn(v.iss)} ELSE {SynAck(v.iss, v.peerIss)}
    <3>1. x.iss = v.iss /\ x.rcv_nxt = c.rcv_nxt
      BY <1>0, <1>3 DEF SameStart, Starting
    <3> QED BY <1>0, <1>3, <2>1, <3>1 DEF SynAck
  <2>4. /\ EndOk(After(y), v, max, nxt, closed) /\ After(y).state = y.state /\ ~ToldOfReset(y)
        /\ After(y).active = y.active
    <3>1. y.state \in {"INIT", "LISTEN", "SYN_RCVD"} => v.sent = 0
      BY <1>0, <2>2
    <3> HIDE DEF N, M
    <3> QED BY <1>0, <2>1, <2>2, <3>1, BeginEnd
  <2> QED BY <1>5, <2>2, <2>3, <2>4 DEF d
<1> QED
  BY <1>2, <1>4, <1>5

\* SYN+ACK is no reset and no part of the stream.
LEMMA Kinds ==
    /\ \A iss, q : /\ Syn(iss).flags = {"SYN"} /\ Syn(iss).seqNo = iss
                   /\ Syn(iss).ackNo = 0 /\ Syn(iss).item = 0
                   /\ SynAck(iss, q).flags = {"SYN", "ACK"} /\ SynAck(iss, q).seqNo = iss
                   /\ ~Reset(Syn(iss)) /\ ~Reset(SynAck(iss, q))
    /\ \A s, v : Theirs(s, v) =>
          /\ s.flags \in {{"ACK"}, {"ACK", "FIN"}} /\ ~Reset(s)
          /\ Has(s, "ACK") /\ ~Has(s, "RST") /\ ~Has(s, "SYN")
    /\ \A s : Reset(s) => Has(s, "RST") /\ ~Has(s, "SYN")
<1>1. ASSUME NEW iss, NEW q
      PROVE  /\ Syn(iss).flags = {"SYN"} /\ Syn(iss).seqNo = iss
             /\ Syn(iss).ackNo = 0 /\ Syn(iss).item = 0
             /\ SynAck(iss, q).flags = {"SYN", "ACK"} /\ SynAck(iss, q).seqNo = iss
             /\ ~Reset(Syn(iss)) /\ ~Reset(SynAck(iss, q))
  <2>1. /\ Syn(iss).flags = {"SYN"} /\ Syn(iss).seqNo = iss
        /\ Syn(iss).ackNo = 0 /\ Syn(iss).item = 0
        /\ SynAck(iss, q).flags = {"SYN", "ACK"} /\ SynAck(iss, q).seqNo = iss
    BY DEF Syn, SynAck, Seg
  <2>2. {"SYN"} \notin {{"RST"}, {"RST", "ACK"}} /\ {"SYN", "ACK"} \notin {{"RST"}, {"RST", "ACK"}}
    OBVIOUS
  <2> QED BY <2>1, <2>2 DEF Reset
<1>2. ASSUME NEW s, NEW v, Theirs(s, v)
      PROVE  /\ s.flags \in {{"ACK"}, {"ACK", "FIN"}} /\ ~Reset(s)
             /\ Has(s, "ACK") /\ ~Has(s, "RST") /\ ~Has(s, "SYN")
  <2>1. s.flags \in {{"ACK"}, {"ACK", "FIN"}}
    BY <1>2 DEF Theirs, Piece
  <2> QED BY <2>1 DEF Reset, Has
<1>3. ASSUME NEW s, Reset(s) PROVE Has(s, "RST") /\ ~Has(s, "SYN")
  BY <1>3 DEF Reset, Has
<1> QED
  BY <1>1, <1>2, <1>3

\* A handler that leaves a connection in INIT or LISTEN, where nothing is sent yet.
LEMMA RestEnd ==
    ASSUME NEW v \in View, NEW max, NEW nxt, NEW closed, NEW c,
           EndOk(c, v, max, nxt, closed), c.state \in Beginning, v.sent = 0,
           NEW n, NEW m, NEW d \in Connection(n, m), SameBlank(c, d),
           d.state \in {"INIT", "LISTEN"}
    PROVE  /\ EndOk(After(d), v, max, nxt, closed) /\ After(d).state = d.state
           /\ After(d).ind = c.ind /\ After(d).active = d.active /\ ~ToldOfReset(d)
<1>1. d.state \in Beginning /\ d.state \notin Setting /\ d.state # "SYN_RCVD"
  BY DEF Beginning, Setting
<1> QED
  BY <1>1, BeginEnd

\* A reset that is sent on its own.
LEMMA RstFields ==
    ASSUME NEW n \in Nat, NEW m, NEW c \in Connection(n, m), NEW q \in SeqNo
    PROVE  LET d == sendRst(c, q)
           IN  /\ d \in Connection(n, m) /\ SameStart(c, d) /\ d.state = c.state
               /\ d.active = c.active
               /\ \A r \in d.out : r \in c.out \/ Reset(r)
<1> DEFINE x == Seg({"RST"}, q, 0, 0)
           o == c.out \cup {x}
           d == [c EXCEPT !.out = o]
<1>1. sendRst(c, q) \in Connection(n, m) /\ sendRst(c, q) = d
  BY SendControl DEF Sender, sendRst, Emit
<1>2. Reset(x)
  BY DEF Reset, Seg
<1> HIDE DEF x
<1>3. \A r \in o : r \in c.out \/ Reset(r)
  BY <1>2
<1> HIDE DEF o
<1>4. d.out = o /\ SameStart(c, d) /\ d.state = c.state /\ d.active = c.active
  BY DEF Connection, SameStart, SameBlank
<1> QED
  BY <1>1, <1>3, <1>4

\* A segment for an end that has no connection, or no longer: a reset, or nothing.
LEMMA NobodyThere ==
    ASSUME NEW v \in View, NEW max, NEW nxt, NEW closed,
           NEW c \in Connection(v.sent, v.peerSent), EndOk(c, v, max, nxt, closed),
           c.state \in {"INIT", "CLOSED"},
           NEW s \in Segment(0 .. v.peerSent), NEW win
    PROVE  LET d == process_RCV_SEGMENT(c, s, win)
           IN  /\ EndOk(After(d), v, max, nxt, closed) /\ After(d).state = c.state
               /\ After(d).ind = c.ind
               /\ c.state = "INIT" => After(d).active = c.active
               /\ \A r \in d.out : Reset(r)
<1> DEFINE N == v.sent
           M == v.peerSent
           x == Seg({"RST", "ACK"}, 0, Plus(s.seqNo, SegLen(s)), 0)
           d == process_RCV_SEGMENT(c, s, win)
<1>0. N \in Nat /\ c \in Connection(N, M) /\ c.out = {} /\ ~c.failed /\ c.ind \in Seq(Indication)
  BY ViewTypes, ConnectionTypes DEF EndOk
<1>1. d = segmentArrivalWhileClosed(c, s)
  BY DEF process_RCV_SEGMENT
<1>2. d = c \/ d = sendRst(c, s.ackNo) \/ d = Emit(c, x)
  BY <1>1 DEF segmentArrivalWhileClosed
<1>3. /\ SameStart(c, d) /\ d.state = c.state /\ d.active = c.active
      /\ \A r \in d.out : Reset(r)
  <2> HIDE DEF d, N, M
  <2>1. CASE d = c
    BY <1>0, <2>1 DEF SameStart, SameBlank
  <2>2. CASE d = sendRst(c, s.ackNo)
    <3>1. s.ackNo \in SeqNo
      BY DEF Segment
    <3> DEFINE f == sendRst(c, s.ackNo)
    <3>2. /\ SameStart(c, f) /\ f.state = c.state /\ f.active = c.active
          /\ \A r \in f.out : r \in c.out \/ Reset(r)
      BY ONLY <1>0, <3>1, RstFields
    <3>3. d = f
      BY <2>2
    <3> HIDE DEF f
    <3> QED BY <1>0, <3>2, <3>3
  <2>3. CASE d = Emit(c, x)
    <3>1. Reset(x)
      BY DEF Reset, Seg
    <3> HIDE DEF x
    <3> DEFINE o == c.out \cup {x}
               z == [c EXCEPT !.out = o]
    <3>2. d = z
      BY <2>3 DEF Emit
    <3>3. \A r \in o : Reset(r)
      BY <1>0, <3>1
    <3> HIDE DEF o
    <3>4. z.out = o /\ SameStart(c, z) /\ z.state = c.state /\ z.active = c.active
      BY <1>0 DEF Connection, SameStart, SameBlank
    <3> QED BY <3>2, <3>3, <3>4
  <2> QED BY <1>2, <2>1, <2>2, <2>3
<1>4. CASE c.state = "CLOSED"
  <2>1. d.state = "CLOSED" /\ ~d.failed /\ d.toApp = c.toApp /\ d.ind = c.ind
    BY <1>0, <1>3, <1>4 DEF SameStart, SameBlank
  <2>2. Counts(v, max, nxt, closed) /\ Told2(d, v, nxt)
    BY <2>1 DEF EndOk, Told2
  <2>3. LET e == removeConnection([d EXCEPT !.out = {}])
        IN  EndOk(e, v, max, nxt, closed) /\ e.state = "CLOSED" /\ e.ind = d.ind
    <3> HIDE DEF d
    <3> QED BY <2>1, <2>2, ClosedEnd
  <2>4. EndOk(After(d), v, max, nxt, closed) /\ After(d).state = "CLOSED" /\ After(d).ind = d.ind
    BY <2>3 DEF After
  <2> HIDE DEF d
  <2> QED BY <1>3, <1>4, <2>1, <2>4 DEF d
<1>5. CASE c.state = "INIT"
  <2>1. d \in Connection(N, M)
    <3>1. CASE d = c
      BY <1>0, <3>1
    <3>2. CASE d = sendRst(c, s.ackNo)
      <4>1. s.ackNo \in SeqNo
        BY DEF Segment
      <4> HIDE DEF N, M, d
      <4> QED BY <1>0, <3>2, <4>1, RstFields
    <3>3. CASE d = Emit(c, x)
      <4>1. x \in Segment(0 .. N)
        <5>1. s.seqNo \in SeqNo /\ SegLen(s) \in SeqNo
          <6>1. SegLen(s) \in 0 .. 3
            <7> DEFINE k == s.flags \cap {"SYN", "FIN"}
            <7>1. k \in SUBSET {"SYN", "FIN"}
              OBVIOUS
            <7> HIDE DEF k
            <7>2. k = {} \/ k = {"SYN"} \/ k = {"FIN"} \/ k = {"SYN", "FIN"}
              BY <7>1
            <7>3. Cardinality(k) \in 0 .. 2
              <8>1. Cardinality({}) = 0 /\ Cardinality({"SYN"}) = 1 /\ Cardinality({"FIN"}) = 1
                BY FS_EmptySet, FS_Singleton
              <8>2. Cardinality({"SYN"} \cup {"FIN"}) = 2
                <9>1. IsFiniteSet({"SYN"}) /\ Cardinality({"SYN"}) = 1 /\ "FIN" \notin {"SYN"}
                  BY FS_Singleton
                <9>2. Cardinality({"SYN"} \cup {"FIN"}) = Cardinality({"SYN"}) + 1
                  BY <9>1, FS_AddElement
                <9> QED BY <9>1, <9>2
              <8>3. {"SYN", "FIN"} = {"SYN"} \cup {"FIN"}
                OBVIOUS
              <8>4. CASE k = {}
                BY <8>1, <8>4
              <8>5. CASE k = {"SYN"}
                BY <8>1, <8>5
              <8>6. CASE k = {"FIN"}
                BY <8>1, <8>6
              <8>7. CASE k = {"SYN", "FIN"}
                <9>1. Cardinality(k) = 2
                  BY <8>2, <8>3, <8>7
                <9> QED BY <9>1
              <8> QED BY <7>2, <8>4, <8>5, <8>6, <8>7
            <7>4. SegLen(s) = PayloadLength(s) + Cardinality(k) /\ PayloadLength(s) \in 0 .. 1
              BY DEF SegLen, PayloadLength, k
            <7> QED BY <7>3, <7>4
          <6> QED BY <6>1, HalfFacts DEF SeqNo, Segment
        <5>2. Plus(s.seqNo, SegLen(s)) \in SeqNo /\ 0 \in SeqNo
          BY <5>1, PlusType, SeqConstants
        <5>3. {"RST", "ACK"} \in SUBSET Flag /\ 0 \in 0 .. N
          BY <1>0 DEF Flag
        <5> HIDE DEF N
        <5> QED BY <1>0, <5>2, <5>3, SegType
      <4> HIDE DEF x, N, M, d
      <4>2. Emit(c, x) \in Sender(c, N, M)
        BY <1>0, <4>1, EmitStep
      <4> QED BY <3>3, <4>2 DEF Sender
    <3> QED BY <1>2, <3>1, <3>2, <3>3
  <2> HIDE DEF d
  <2>2. SameBlank(c, d) /\ d.state = "INIT" /\ v.sent = 0
    BY <1>3, <1>5 DEF SameStart, EndOk
  <2>3. /\ EndOk(After(d), v, max, nxt, closed) /\ After(d).state = d.state
        /\ After(d).ind = c.ind /\ After(d).active = d.active
    <3>1. d.state \in {"INIT", "LISTEN"} /\ c.state \in Beginning
      BY <1>5, <2>2 DEF Beginning
    <3> HIDE DEF N, M
    <3> QED BY <2>1, <2>2, <3>1, RestEnd
  <2> QED BY <1>3, <1>5, <2>2, <2>3 DEF d
<1> QED
  BY <1>4, <1>5

\* In LISTEN a reset is ignored, and a segment of an earlier connection is answered
\* with one.
LEMMA ListenOther ==
    ASSUME NEW v \in View, NEW max, NEW nxt, NEW closed,
           NEW c \in Connection(v.sent, v.peerSent), EndOk(c, v, max, nxt, closed),
           c.state = "LISTEN",
           NEW s \in Segment(0 .. v.peerSent), Reset(s) \/ Theirs(s, v), NEW win
    PROVE  LET d == process_RCV_SEGMENT(c, s, win)
           IN  /\ EndOk(After(d), v, max, nxt, closed) /\ After(d).state = "LISTEN"
               /\ After(d).active = c.active /\ ~ToldOfReset(d)
               /\ \A r \in d.out : Reset(r)
<1> DEFINE N == v.sent
           M == v.peerSent
           d == process_RCV_SEGMENT(c, s, win)
<1>0. N \in Nat /\ N = 0 /\ c \in Connection(N, M) /\ c.out = {} /\ s.ackNo \in SeqNo
  BY ViewTypes DEF EndOk, Segment
<1>1. d = processSegmentInListen(c, s)
  BY DEF process_RCV_SEGMENT
<1>2. d = c \/ d = sendRst(c, s.ackNo)
  <2>1. Has(s, "RST") \/ (Has(s, "ACK") /\ ~Has(s, "RST"))
    BY Kinds
  <2> HIDE DEF d
  <2>2. CASE Has(s, "RST")
    <3>1. s.flags \cap {"RST", "ACK", "SYN"} # {"SYN"}
      BY <2>2 DEF Has
    <3> QED BY <1>1, <2>2, <3>1 DEF processSegmentInListen
  <2>3. CASE Has(s, "ACK") /\ ~Has(s, "RST")
    <3>1. s.flags \cap {"RST", "ACK", "SYN"} # {"SYN"}
      BY <2>3 DEF Has
    <3> QED BY <1>1, <2>3, <3>1 DEF processSegmentInListen
  <2> QED BY <2>1, <2>2, <2>3
<1> HIDE DEF d, N, M
<1>3. /\ d \in Connection(N, M) /\ SameStart(c, d) /\ d.state = c.state /\ d.active = c.active
      /\ \A r \in d.out : Reset(r)
  <2>1. CASE d = c
    BY <1>0, <2>1 DEF SameStart, SameBlank
  <2>2. CASE d = sendRst(c, s.ackNo)
    BY <1>0, <2>2, RstFields
  <2> QED BY <1>2, <2>1, <2>2
<1>4. /\ SameBlank(c, d) /\ d.state \in {"INIT", "LISTEN"} /\ c.state \in Beginning /\ v.sent = 0
  BY <1>0, <1>3 DEF SameStart, Beginning, N
<1>5. /\ EndOk(After(d), v, max, nxt, closed) /\ After(d).state = d.state
      /\ After(d).active = d.active /\ ~ToldOfReset(d)
  <2>1. /\ d \in Connection(N, M) /\ SameBlank(c, d) /\ d.state \in {"INIT", "LISTEN"}
        /\ c.state \in Beginning /\ v.sent = 0
    BY <1>3, <1>4
  <2> QED BY <2>1, RestEnd
<1> QED
  BY <1>3, <1>5 DEF d

\* In LISTEN the SYN of the peer is answered with a SYN+ACK that carries a new
\* initial sequence number.
Answers(c, d, w, max, nxt, closed) ==
    /\ EndOk(After(d), w, max, nxt, closed) /\ After(d).state = "SYN_RCVD"
    /\ After(d).active = c.active
    /\ ~ToldOfReset(d) /\ d.out = {SynAck(w.iss, w.peerIss)}

\* See Answers.
LEMMA ListenSyn ==
    ASSUME NEW v \in View, NEW max, NEW nxt, NEW closed,
           NEW c \in Connection(v.sent, v.peerSent), EndOk(c, v, max, nxt, closed),
           c.state = "LISTEN",
           NEW w \in View, w.sent = v.sent, w.iss = NextIss(c), w.peerSent = v.peerSent,
           w.peerIss = v.peerIss, w.peerMax = v.peerMax, w.peerNxt = v.peerNxt,
           NEW win, NEW f, f = process_RCV_SEGMENT(c, Syn(v.peerIss), win)
    PROVE  Answers(c, f, w, max, nxt, closed)
<1> DEFINE N == v.sent
           M == v.peerSent
           i == NextIss(c)
           s == Syn(v.peerIss)
           r == Plus(s.seqNo, 1)
           q == {}
           c0 == [c EXCEPT !.rcv_nxt = r, !.receiveQueue = q]
           c1 == selectInitialSeqNum(c0)
           c2 == sendSynAck(c1)
           c3 == PassiveSetup(c2)
           g == performStateTransition(c3, "RCV_SYN")
           d == process_RCV_SEGMENT(c, s, win)
<1>0. /\ N \in Nat /\ c \in Connection(N, M) /\ N = 0 /\ ~c.failed /\ c.out = {}
      /\ v.peerIss \in SeqNo
  BY ViewTypes DEF EndOk
<1>1. d = g
  <2>1. d = processSegmentInListen(c, s)
    BY DEF process_RCV_SEGMENT
  <2>2. s.flags = {"SYN"}
    BY Kinds
  <2>3. ~Has(s, "RST") /\ ~Has(s, "ACK") /\ s.flags \cap {"RST", "ACK", "SYN"} = {"SYN"}
    BY <2>2 DEF Has
  <2> HIDE DEF s, d
  <2> QED BY <2>1, <2>3 DEF processSegmentInListen, PassiveSetup
<1>2. r \in SeqNo /\ r = Plus(v.peerIss, 1) /\ q \in Received(M)
  <2>1. s.seqNo = v.peerIss
    BY Kinds
  <2>2. r \in SeqNo
    BY <1>0, <2>1, PlusType, SeqConstants
  <2> QED BY <2>1, <2>2 DEF Received
<1> HIDE DEF N, M, r, d
<1>3. /\ c0 \in Connection(N, M) /\ SameBlank(c, c0) /\ c0.state = c.state
      /\ c0.active = c.active /\ c0.out = c.out /\ c0.iss = c.iss
      /\ c0.rcv_nxt = r /\ c0.receiveQueue = q
  <2> HIDE DEF q
  <2>0. c \in Connection(N, M) /\ r \in SeqNo /\ q \in Received(M)
    BY <1>0, <1>2
  <2>1. c0 \in Connection(N, M)
    BY ONLY <2>0 DEF Connection
  <2> USE DEF Connection
  <2>2. /\ c0.state = c.state /\ c0.active = c.active /\ c0.out = c.out /\ c0.iss = c.iss
        /\ c0.rcv_nxt = r /\ c0.receiveQueue = q
    BY <1>0
  <2>3. SameBlank(c, c0)
    BY <1>0 DEF SameBlank
  <2> QED BY ONLY <2>1, <2>2, <2>3
<1> HIDE DEF c0
<1>4. /\ c1 \in Connection(N, M) /\ SameBlank(c0, c1)
      /\ c1.state = c0.state /\ c1.active = c0.active /\ c1.out = c0.out
      /\ c1.rcv_nxt = c0.rcv_nxt /\ c1.receiveQueue = c0.receiveQueue
      /\ c1.iss = i /\ c1.snd_una = i /\ c1.begin = Plus(i, 1) /\ c1.sendQueue = <<>>
  <2>1. NextIss(c0) = i
    BY <1>3 DEF NextIss
  <2> HIDE DEF i
  <2>2. LET dd == selectInitialSeqNum(c0)
            ii == NextIss(c0)
        IN  /\ dd \in Connection(N, M) /\ SameBlank(c0, dd)
            /\ dd.state = c0.state /\ dd.active = c0.active /\ dd.out = c0.out
            /\ dd.rcv_nxt = c0.rcv_nxt /\ dd.receiveQueue = c0.receiveQueue
            /\ ii \in SeqNo /\ dd.iss = ii /\ dd.snd_una = ii /\ dd.begin = Plus(ii, 1)
            /\ dd.sendQueue = <<>>
    BY <1>0, <1>3, SelectFields
  <2> QED BY <2>1, <2>2
<1> HIDE DEF c1
<1>5. /\ c2 \in Connection(N, M) /\ SameBlank(c1, c2)
      /\ c2.state = c1.state /\ c2.active = c1.active
      /\ c2.rcv_nxt = c1.rcv_nxt /\ c2.receiveQueue = c1.receiveQueue
      /\ c2.iss = c1.iss /\ c2.snd_una = c1.snd_una /\ c2.begin = c1.begin
      /\ c2.sendQueue = c1.sendQueue
      /\ c2.snd_nxt = Plus(c1.iss, 1) /\ c2.snd_max = Plus(c1.iss, 1)
      /\ c2.out = c1.out \cup {Seg({"SYN", "ACK"}, c1.iss, c1.rcv_nxt, 0)}
  <2>1. c2 \in {sendSyn(c1), sendSynAck(c1)} /\ c2 = sendSynAck(c1)
    OBVIOUS
  <2> HIDE DEF c2
  <2> QED BY <1>0, <1>4, <2>1, SynFields
<1> HIDE DEF c2
<1>6. /\ c3 \in Connection(N, M) /\ c3.state = c2.state /\ c3.out = c2.out
      /\ SameStart(c2, c3) /\ c3.active = c2.active
  <2>1. c3 \in {PassiveSetup(c2), ActiveSetup(c2)} /\ c3 = PassiveSetup(c2)
    OBVIOUS
  <2> HIDE DEF c3
  <2> QED BY <1>5, <2>1, SetupFields
<1> HIDE DEF c3
<1>7. ~c3.failed /\ NextState(c3, "RCV_SYN") = "SYN_RCVD"
  BY <1>0, <1>3, <1>4, <1>5, <1>6 DEF SameStart, SameBlank, NextState
<1>8. /\ g \in Connection(N, M) /\ SameFlow(c3, g) /\ g.state = "SYN_RCVD"
      /\ g.active = c3.active /\ g.ind = c3.ind
      /\ g.the2MSLTimer = c3.the2MSLTimer /\ g.rexmitTimer = c3.rexmitTimer
  BY <1>6, <1>7, PlainMove
<1> HIDE DEF g
<1>9. SameBlank(c, g) /\ g.active = c.active
  BY <1>3, <1>4, <1>5, <1>6, <1>8 DEF SameStart, SameBlank, SameFlow
<1>10. /\ g.iss = i /\ g.snd_una = i /\ g.begin = Plus(i, 1) /\ g.sendQueue = <<>>
       /\ g.snd_nxt = Plus(i, 1) /\ g.snd_max = Plus(i, 1)
       /\ g.rcv_nxt = r /\ g.receiveQueue = q
       /\ g.out = {Seg({"SYN", "ACK"}, i, r, 0)}
  <2>1. c1.iss = i /\ c1.rcv_nxt = r /\ c1.out = {}
    BY <1>0, <1>3, <1>4
  <2> HIDE DEF i, q
  <2> QED BY <1>3, <1>4, <1>5, <1>6, <1>8, <2>1 DEF SameStart, SameFlow
<1>11. Starting(g, w)
  <2>1. Items(1, w.sent) = <<>>
    <3>1. w.sent = 0
      BY <1>0 DEF N
    <3>2. Len(Items(1, 0)) = 0 /\ Items(1, 0) = [k \in 1 .. 0 |-> 1 + k - 1]
      BY FirstItems
    <3>3. [k \in 1 .. 0 |-> 1 + k - 1] = <<>>
      OBVIOUS
    <3> QED BY <3>1, <3>2, <3>3
  <2> QED BY <1>10, <2>1 DEF Starting
<1>12. g.out = {SynAck(w.iss, w.peerIss)}
  BY <1>2, <1>10 DEF SynAck
<1>13. g.state = "SYN_RCVD" => g.rcv_nxt = Plus(w.peerIss, 1) /\ g.receiveQueue = {}
  BY <1>2, <1>10
<1>14. /\ EndOk(After(g), w, max, nxt, closed) /\ After(g).state = g.state /\ ~ToldOfReset(g)
       /\ After(g).active = g.active
  <2>1. g.state \in Beginning /\ c.state \in Beginning /\ w.sent = 0
    BY <1>0, <1>8 DEF Beginning, N
  <2>2. /\ g \in Connection(N, M) /\ SameBlank(c, g) /\ g.state \in Beginning
        /\ (g.state \in Setting => Starting(g, w))
        /\ (g.state \in {"INIT", "LISTEN", "SYN_RCVD"} => w.sent = 0)
        /\ (g.state = "SYN_RCVD" => g.rcv_nxt = Plus(w.peerIss, 1) /\ g.receiveQueue = {})
        /\ (w.sent = v.sent \/ w.sent = v.sent + 1) /\ c.state \in Beginning
    BY <1>8, <1>9, <1>11, <1>13, <2>1
  <2> HIDE DEF q, i, s
  <2> QED BY <2>2, BeginEnd
<1> QED
  BY <1>1, <1>8, <1>9, <1>12, <1>14 DEF d, Answers

\* An acknowledgement of the SYN alone discards nothing.
LEMMA DiscardNothing ==
    ASSUME NEW v \in View, NEW m, NEW u \in Connection(v.sent, m),
           u.begin = Plus(v.iss, 1), u.sendQueue = Items(1, v.sent)
    PROVE  discardUpTo(u, Plus(v.iss, 1)) = u
<1> DEFINE N == v.sent
           a == Plus(v.iss, 1)
           e == Plus(a, N)
           q == u.sendQueue
<1>1. /\ Half \in Nat /\ SeqMod = 2 * Half /\ v.iss \in SeqNo /\ N \in Nat
      /\ N + 2 <= Half /\ Half >= 2
  BY ViewTypes, HalfFacts
<1>2. a \in SeqNo /\ Minus(a, v.iss) = 1
  <2>1. Minus(v.iss, v.iss) = 0
    BY <1>1, OffsetType
  <2>2. Minus(v.iss, v.iss) + 1 < SeqMod
    BY <1>1, <2>1
  <2> QED BY <1>1, <2>1, <2>2, OffsetPlus
<1> HIDE DEF a
<1>3. e \in SeqNo /\ Minus(e, v.iss) = 1 + N
  <2>1. Minus(a, v.iss) + N < SeqMod
    BY <1>1, <1>2
  <2> HIDE DEF N
  <2> QED BY <1>1, <1>2, <2>1, OffsetPlus
<1>4. BufferEndSeq(u) = e /\ Len(q) = N /\ q = Items(1, N)
  BY <1>1, FirstItems DEF BufferEndSeq, a
<1> HIDE DEF e, q, N
<1>5. seqLE(a, a) /\ seqLE(a, e)
  <2>1. /\ Minus(a, v.iss) - Minus(a, v.iss) < Half /\ Minus(a, v.iss) <= Minus(a, v.iss)
        /\ Minus(a, v.iss) - Minus(e, v.iss) < Half
        /\ Minus(e, v.iss) - Minus(a, v.iss) < Half
        /\ Minus(a, v.iss) <= Minus(e, v.iss)
    BY <1>1, <1>2, <1>3
  <2> QED BY <1>1, <1>2, <1>3, <2>1, Offsets
<1>6. SubSeq(q, Minus(a, a) + 1, Len(q)) = q
  <2>1. Minus(a, a) = 0
    BY <1>2, OffsetType
  <2>2. 0 \in Nat /\ 1 \in Nat /\ 1 + 0 <= N + 1 /\ 1 + 0 = 1
    BY <1>1
  <2>3. SubSeq(Items(1, N), 0 + 1, Len(Items(1, N))) = Items(1 + 0, N)
    BY <1>1, <2>2, ItemsLeft
  <2> QED BY <1>4, <2>1, <2>2, <2>3
<1>7. u.begin = a /\ u.sendQueue = q
  BY DEF a, q
<1>8. discardUpTo(u, a) = [u EXCEPT !.begin = a, !.sendQueue = q]
  <2>1. discardUpTo(u, a) =
          [u EXCEPT !.begin = a, !.sendQueue = SubSeq(@, Minus(a, u.begin) + 1, Len(@))]
    BY <1>4, <1>5, <1>7 DEF discardUpTo
  <2> QED BY <1>6, <1>7, <2>1
<1>9. [u EXCEPT !.begin = a, !.sendQueue = q] = u
  BY <1>7 DEF Connection
<1> QED
  BY <1>8, <1>9 DEF a

\* In SYN_RCVD an acknowledgement establishes the connection, or if it is outside
\* the receive window is answered by one.
LEMMA SynRcvdAck ==
    ASSUME NEW v \in View, NEW max, NEW nxt, NEW closed,
           NEW c \in Connection(v.sent, v.peerSent), EndOk(c, v, max, nxt, closed),
           c.state = "SYN_RCVD",
           NEW s \in Segment(0 .. v.peerSent), Theirs(s, v), NEW win \in Windows
    PROVE  LET d == process_RCV_SEGMENT(c, s, win)
           IN  /\ ~ToldOfReset(d)
               /\ \/ /\ EndOk(After(d), v, max, nxt, closed) /\ After(d).state = "SYN_RCVD"
                     /\ After(d).active = c.active
                     /\ \A r \in d.out : Piece(r, v.sent, v.iss, max, v.peerIss, nxt)
                  \/ Stepped(d, v, max, nxt, Top(d, v), Rcv(d, v), closed)
<1> DEFINE N == v.sent
           M == v.peerSent
           a == Plus(v.iss, 1)
           p == Plus(v.peerIss, 1)
           j == Append(c.ind, "ESTABLISHED")
           i == [c EXCEPT !.ind = j]
           x == seqMax(i.snd_nxt, s.ackNo)
           f == i.fin_ack_rcvd \/ AcksFin(i, s)
           u == [i EXCEPT !.snd_una = s.ackNo, !.snd_nxt = x, !.fin_ack_rcvd = f]
           b == processAckInEstabEtc(i, s, win)
           k == processAfterText(processText(u, s, win, i), s, i)
           d == process_RCV_SEGMENT(c, s, win)
<1>0. /\ N \in Nat /\ N = 0 /\ M \in Nat /\ ~c.failed /\ c.out = {} /\ Starting(c, v) /\ Blank(c)
      /\ c.rcv_nxt = p /\ c.receiveQueue = {}
      /\ max = 1 /\ nxt = 1 /\ ~closed /\ v.peerMax \in Nat /\ 1 <= v.peerMax
      /\ v.peerMax <= v.peerSent + 2 /\ v.peerNxt <= 1 /\ v.peerNxt \in Nat
      /\ c.ind \in Seq(Indication) /\ ~Says(c.ind, "PEER_CLOSED")
  <2>1. Counts(v, max, nxt, closed) /\ max = 1 /\ nxt = 1
    BY DEF EndOk, Beginning
  <2>2. nxt # v.peerSent + 2
    BY <2>1, ViewTypes
  <2>3. ~Says(c.ind, "PEER_CLOSED")
    BY <2>2 DEF EndOk, Told2
  <2> QED BY <2>1, <2>3, ViewTypes, ConnectionTypes DEF EndOk, Setting, Beginning, Counts
<1>1. /\ Half \in Nat /\ SeqMod = 2 * Half /\ v.iss \in SeqNo /\ v.peerIss \in SeqNo
      /\ N + 2 <= Half /\ Half >= 2 /\ p \in SeqNo
  BY ViewTypes, HalfFacts, PlusType, SeqConstants
<1>2. a \in SeqNo /\ Minus(a, v.iss) = 1 /\ Minus(v.iss, v.iss) = 0
  BY <1>0, StartOffsets
<1>3. v.peerNxt = 1 /\ s.ackNo = a
  <2>1. Minus(s.ackNo, v.iss) \in 1 .. v.peerNxt /\ s.ackNo \in SeqNo
    BY DEF Theirs, Piece, Segment
  <2>2. v.peerNxt = 1 /\ Minus(s.ackNo, v.iss) = 1
    BY <1>0, <2>1
  <2> HIDE DEF a
  <2>3. s.ackNo = a
    BY <1>1, <1>2, <2>1, <2>2, SameOffset
  <2> QED BY <2>2, <2>3
<1>4. c.snd_una = v.iss /\ c.snd_nxt = a /\ c.snd_max = a /\ c.iss = v.iss /\ c.begin = a
      /\ c.sendQueue = Items(1, N)
  BY <1>0 DEF Starting
<1>5. /\ ~seqGE(v.iss, a) /\ seqLE(v.iss, a) /\ seqLE(a, a) /\ seqMax(a, a) = a
  <2> HIDE DEF a
  <2>1. /\ Minus(a, v.iss) - Minus(v.iss, v.iss) < Half
        /\ Minus(v.iss, v.iss) - Minus(a, v.iss) < Half
        /\ Minus(a, v.iss) - Minus(a, v.iss) < Half
        /\ ~(Minus(v.iss, v.iss) >= Minus(a, v.iss)) /\ Minus(v.iss, v.iss) <= Minus(a, v.iss)
        /\ Minus(a, v.iss) <= Minus(a, v.iss)
    BY <1>1, <1>2
  <2> QED BY <1>1, <1>2, <2>1, Offsets DEF seqMax
<1>6. d = IF ~isSegmentAcceptable(c, s) THEN sendAck(c) ELSE processAckTextFin(i, s, win)
  <2>1. Has(s, "ACK") /\ ~Has(s, "RST") /\ ~Has(s, "SYN")
    BY Kinds
  <2>2. d = processSegment1stThru8th(c, s, win)
    BY DEF process_RCV_SEGMENT
  <2>3. seqLE(c.snd_una, s.ackNo) /\ seqLE(s.ackNo, c.snd_nxt)
    BY <1>3, <1>4, <1>5
  <2>4. sendIndicationToApp(c, "ESTABLISHED") = i
    BY DEF sendIndicationToApp
  <2> HIDE DEF i, d
  <2> QED BY <2>1, <2>2, <2>3, <2>4 DEF processSegment1stThru8th
<1> HIDE DEF a, p, N, M, d
<1>7. CASE ~isSegmentAcceptable(c, s)
  <2> DEFINE y == Seg({"ACK"}, c.snd_nxt, c.rcv_nxt, 0)
             o == c.out \cup {y}
             g == [c EXCEPT !.out = o]
  <2>1. g = sendAck(c) /\ d = g
    BY <1>6, <1>7 DEF sendAck, Emit
  <2>2. g \in Connection(N, M)
    <3>1. c \in Connection(N, M)
      BY DEF N, M
    <3> HIDE DEF g
    <3> QED BY <1>0, <2>1, <3>1, SendControl DEF Sender
  <2>3. Piece(y, v.sent, v.iss, max, v.peerIss, nxt)
    <3>1. y.flags = {"ACK"} /\ y.seqNo = a /\ y.ackNo = p /\ y.item = 0
      BY <1>0, <1>4 DEF Seg
    <3>2. Minus(p, v.peerIss) = 1
      <4>1. Minus(v.peerIss, v.peerIss) = 0
        BY <1>1, OffsetType
      <4>2. Minus(v.peerIss, v.peerIss) + 1 < SeqMod
        BY <1>1, <4>1
      <4> QED BY <1>1, <4>1, <4>2, OffsetPlus DEF p
    <3> HIDE DEF y
    <3> QED BY <1>0, <1>2, <3>1, <3>2 DEF Piece
  <2> HIDE DEF y
  <2>4. \A r \in o : Piece(r, v.sent, v.iss, max, v.peerIss, nxt)
    BY <1>0, <2>3
  <2> HIDE DEF o
  <2>5. g.out = o /\ SameStart(c, g) /\ g.state = c.state /\ g.active = c.active
    BY DEF Connection, SameStart, SameBlank
  <2> HIDE DEF g
  <2>6. /\ SameBlank(c, g) /\ g.state = "SYN_RCVD" /\ g.state \in Beginning /\ c.state \in Beginning
        /\ Starting(g, v) /\ v.sent = 0
        /\ g.rcv_nxt = Plus(v.peerIss, 1) /\ g.receiveQueue = {}
    BY <1>0, <2>5 DEF SameStart, Starting, Beginning, p, N
  <2>7. /\ EndOk(After(g), v, max, nxt, closed) /\ After(g).state = g.state /\ ~ToldOfReset(g)
        /\ After(g).active = g.active
    <3>1. /\ g \in Connection(N, M) /\ SameBlank(c, g) /\ g.state \in Beginning
          /\ (g.state \in Setting => Starting(g, v))
          /\ (g.state \in {"INIT", "LISTEN", "SYN_RCVD"} => v.sent = 0)
          /\ (g.state = "SYN_RCVD" => g.rcv_nxt = Plus(v.peerIss, 1) /\ g.receiveQueue = {})
          /\ c.state \in Beginning
      BY <2>2, <2>6
    <3> QED BY <3>1, BeginEnd
  <2> QED BY <2>1, <2>4, <2>5, <2>6, <2>7 DEF d
<1>8. CASE isSegmentAcceptable(c, s)
  <2>1. /\ i \in Connection(N, M) /\ i.state = "SYN_RCVD" /\ i.ind = j
        /\ i.the2MSLTimer = c.the2MSLTimer /\ i.rexmitTimer = c.rexmitTimer
        /\ SameFlow(c, i) /\ j \in Seq(Indication)
    <3>1. "ESTABLISHED" \in Indication /\ c \in Connection(N, M)
      BY DEF Indication, N, M
    <3>2. j \in Seq(Indication)
      BY <1>0, <3>1
    <3> HIDE DEF j
    <3> QED BY <3>1, <3>2 DEF Connection, SameFlow
  <2>2. ~i.send_fin /\ ~i.fin_ack_rcvd /\ i.snd_una = v.iss /\ i.snd_nxt = a /\ i.snd_max = a
        /\ i.begin = a /\ i.sendQueue = Items(1, N) /\ ~i.failed /\ i.iss = v.iss
        /\ i.rcv_nxt = p /\ i.receiveQueue = {} /\ i.toApp = <<>> /\ ~i.fin_rcvd /\ i.out = {}
    BY <1>0, <1>4, <2>1 DEF SameFlow, Blank
  <2> HIDE DEF i, j
  <2>3. ~AcksUnsent(i, s) /\ ~AcksFin(i, s) /\ x = a /\ (f <=> FALSE) /\ f \in BOOLEAN
    BY <1>3, <1>5, <2>2 DEF AcksUnsent, AcksFin
  <2> HIDE DEF x, f
  <2>4. /\ u \in Connection(N, M) /\ u.state = "SYN_RCVD" /\ u.ind = j
        /\ u.the2MSLTimer = i.the2MSLTimer /\ u.rexmitTimer = i.rexmitTimer
        /\ u.iss = v.iss /\ ~u.failed /\ u.snd_una = a /\ u.snd_nxt = a /\ u.snd_max = a
        /\ u.begin = a /\ u.sendQueue = Items(1, N) /\ ~u.send_fin /\ ~u.fin_ack_rcvd
        /\ u.rcv_nxt = p /\ u.receiveQueue = {} /\ u.toApp = <<>> /\ ~u.fin_rcvd
        /\ u.out = {}
    <3>1. s.ackNo = a /\ x = a /\ a \in SeqNo
      BY <1>2, <1>3, <2>3
    <3>2. u = [i EXCEPT !.snd_una = a, !.snd_nxt = a, !.fin_ack_rcvd = f]
      BY <3>1
    <3> DEFINE z == [i EXCEPT !.snd_una = a, !.snd_nxt = a, !.fin_ack_rcvd = f]
    <3>3. z \in Connection(N, M)
      <4>1. i \in Connection(N, M) /\ a \in SeqNo /\ f \in BOOLEAN
        BY <2>1, <2>3, <3>1
      <4> HIDE DEF i, a, N, M
      <4> QED BY ONLY <4>1 DEF Connection
    <3>4. /\ z.state = i.state /\ z.ind = i.ind
          /\ z.the2MSLTimer = i.the2MSLTimer /\ z.rexmitTimer = i.rexmitTimer
          /\ z.iss = i.iss /\ z.failed = i.failed /\ z.snd_una = a /\ z.snd_nxt = a
          /\ z.snd_max = i.snd_max
          /\ z.begin = i.begin /\ z.sendQueue = i.sendQueue /\ z.send_fin = i.send_fin
          /\ z.fin_ack_rcvd = f
          /\ z.rcv_nxt = i.rcv_nxt /\ z.receiveQueue = i.receiveQueue /\ z.toApp = i.toApp
          /\ z.fin_rcvd = i.fin_rcvd /\ z.out = i.out
      BY <2>1 DEF Connection
    <3> HIDE DEF u, z
    <3> QED BY <2>1, <2>2, <2>3, <3>2, <3>3, <3>4 DEF z
  <2> HIDE DEF u
  <2>5. b = u
    <3>1. discardUpTo(u, a) = u
      BY <2>4, DiscardNothing DEF a, N
    <3>2. b = discardUpTo(u, s.ackNo)
      <4>1. ~seqGE(i.snd_una, s.ackNo)
        BY <1>3, <1>5, <2>2
      <4>2. u = [i EXCEPT !.snd_una = s.ackNo, !.snd_nxt = seqMax(@, s.ackNo),
                          !.fin_ack_rcvd = @ \/ AcksFin(i, s)]
        BY DEF u, x, f
      <4> QED BY <2>1, <2>3, <4>1, <4>2 DEF processAckInEstabEtc
    <3> QED BY <1>3, <3>1, <3>2
  <2> HIDE DEF b
  <2>6. d = k
    <3>1. d = processAckTextFin(i, s, win)
      BY <1>6, <1>8
    <3>2. processAck(i, s, win) = u
      <4>1. processAck(i, s, win) = timeWaitAfterClosing(b)
        BY <2>1 DEF processAck, b
      <4> QED BY <2>4, <2>5, <4>1 DEF timeWaitAfterClosing
    <3>3. processAckTextFin(i, s, win)
            = processAfterText(processText(processAck(i, s, win), s, win, i), s, i)
      BY <2>1, <2>3 DEF processAckTextFin
    <3> QED BY <3>1, <3>2, <3>3
  <2>7. /\ Flow(u, v) /\ Una(u, v) = 1 /\ Nxt(u, v) = 1 /\ Top(u, v) = 1 /\ Rcv(u, v) = 1
    <3>1. Met(u, v)
      BY <2>4 DEF Met, a, p, N
    <3> QED BY <1>0, <1>3, <2>4, <3>1, MetFlow DEF N, M
  <2>8. ToldRight(u, v)
    <3>1. "ESTABLISHED" \in Indication /\ j = Append(c.ind, "ESTABLISHED")
      BY DEF Indication, j
    <3>2. /\ Says(Append(c.ind, "ESTABLISHED"), "CLOSED") <=> Says(c.ind, "CLOSED") \/ "ESTABLISHED" = "CLOSED"
          /\ Says(Append(c.ind, "ESTABLISHED"), "PEER_CLOSED") <=> Says(c.ind, "PEER_CLOSED") \/ "ESTABLISHED" = "PEER_CLOSED"
          /\ Says(Append(c.ind, "ESTABLISHED"), "CONNECTION_RESET")
                <=> Says(c.ind, "CONNECTION_RESET") \/ "ESTABLISHED" = "CONNECTION_RESET"
          /\ ~Says(c.ind, "CLOSED") => Closing(Append(c.ind, "ESTABLISHED"))
      BY <1>0, <3>1, SaysAppend
    <3> QED BY <1>0, <2>4, <3>1, <3>2 DEF Blank, ToldRight
  <2>9. Acked(u, i, s, v)
    <3>1. /\ 1 <= v.sent + 1 /\ 1 # v.sent + 2 /\ 1 <= v.peerSent + 1
      BY <1>0 DEF N, M
    <3>2. i.snd_nxt \in SeqNo /\ Minus(i.snd_nxt, v.iss) # v.sent + 2
      BY <1>2, <2>2, <3>1
    <3>3. u.the2MSLTimer = 0 /\ ~(u.the2MSLTimer > 0)
      BY <1>0, <2>1, <2>4 DEF Blank
    <3> QED BY <2>4, <2>7, <2>8, <3>1, <3>2, <3>3 DEF Acked, Opening, FinConsumed
  <2>10. /\ TimerExact(u) /\ Waiting(0, u)
         /\ s.item # 0 => Minus(s.seqNo, u.rcv_nxt) \in 0 .. RcvWnd - 1
    <3>1. ~u.rexmitTimer /\ u.snd_una = u.snd_max /\ u.receiveQueue = {} /\ u.rcv_nxt = c.rcv_nxt
      BY <1>0, <2>1, <2>4 DEF Blank
    <3>2. s.item # 0 => Minus(s.seqNo, c.rcv_nxt) \in 0 .. RcvWnd - 1
      BY <1>8, TextInWindow
    <3> QED BY <3>1, <3>2 DEF TimerExact, Waiting
  <2>11. /\ Flow(k, v) /\ k.state \in Synchronized /\ Control(k, v)
         /\ Top(u, v) <= Top(k, v) /\ Rcv(u, v) <= Rcv(k, v)
         /\ k.send_fin = u.send_fin
    BY <2>7, <2>9, <2>10, AfterAckFlow
  <2> HIDE DEF k
  <2>12. Stepped(k, v, max, nxt, Top(k, v), Rcv(k, v), closed) /\ ~ToldOfReset(k)
    <3>1. max <= Top(k, v) /\ nxt <= Rcv(k, v) /\ (k.send_fin <=> closed)
      BY <1>0, <2>4, <2>7, <2>11
    <3> QED BY <2>11, <3>1, LiveStep
  <2> QED BY <2>6, <2>12 DEF d
<1> QED
  BY <1>7, <1>8

\* A reset sends a passive connection back from SYN_RCVD to LISTEN.
LEMMA SynRcvdReset ==
    ASSUME NEW v \in View, NEW max, NEW nxt, NEW closed,
           NEW c \in Connection(v.sent, v.peerSent), EndOk(c, v, max, nxt, closed),
           c.state = "SYN_RCVD", ~c.active, NEW s, Reset(s), NEW win
    PROVE  LET d == process_RCV_SEGMENT(c, s, win)
           IN  /\ EndOk(After(d), v, max, nxt, closed)
               /\ After(d).state \in {"LISTEN", "SYN_RCVD"}
               /\ After(d).active = c.active /\ ~ToldOfReset(d) /\ d.out = {}
<1> DEFINE N == v.sent
           M == v.peerSent
           g == performStateTransition(c, "RCV_RST")
           d == process_RCV_SEGMENT(c, s, win)
<1>0. /\ N \in Nat /\ N = 0 /\ c \in Connection(N, M) /\ ~c.failed /\ c.out = {} /\ Starting(c, v)
      /\ c.state \in Beginning
  BY ViewTypes DEF EndOk, Setting, Beginning
<1>1. discardUpTo(c, BufferEndSeq(c)) = c
  <2> DEFINE a == Plus(v.iss, 1)
  <2>1. /\ c.begin = a /\ c.sendQueue = Items(1, N) /\ Len(Items(1, N)) = N
    BY <1>0, FirstItems DEF Starting
  <2>2. a \in SeqNo
    BY <1>0, StartOffsets
  <2> HIDE DEF a
  <2>3. BufferEndSeq(c) = a
    <3>1. Plus(a, 0) = a
      BY <2>2, HalfFacts DEF Plus, SeqNo
    <3>2. BufferEndSeq(c) = Plus(a, Len(Items(1, N)))
      BY <2>1 DEF BufferEndSeq
    <3>3. Len(Items(1, N)) = 0
      BY <1>0, <2>1
    <3> HIDE DEF N
    <3> QED BY <3>1, <3>2, <3>3
  <2>4. discardUpTo(c, a) = c
    BY <2>1, DiscardNothing DEF a
  <2> QED BY <2>3, <2>4
<1>2. d = c \/ d = g
  <2>1. Has(s, "RST")
    BY Kinds
  <2>2. d = processSegment1stThru8th(c, s, win)
    BY DEF process_RCV_SEGMENT
  <2>3. processRst(c) = g
    BY <1>1 DEF processRst
  <2> HIDE DEF d, g
  <2> QED BY <2>1, <2>2, <2>3 DEF processSegment1stThru8th
<1> HIDE DEF d
<1>3. CASE d = c
  <2>1. /\ EndOk(After(c), v, max, nxt, closed) /\ After(c).state = c.state
        /\ After(c).active = c.active /\ ~ToldOfReset(c)
    BY <1>0, QuietEnd
  <2> QED BY <1>0, <1>3, <2>1 DEF d
<1>4. CASE d = g
  <2>1. NextState(c, "RCV_RST") = "LISTEN"
    BY DEF NextState, Synchronized
  <2>2. /\ g \in Connection(N, M) /\ SameFlow(c, g) /\ g.state = "LISTEN"
        /\ g.active = c.active /\ g.ind = c.ind
        /\ g.the2MSLTimer = c.the2MSLTimer /\ g.rexmitTimer = c.rexmitTimer
    <3> HIDE DEF N, M
    <3> QED BY <1>0, <2>1, PlainMove
  <2> HIDE DEF g
  <2>3. SameBlank(c, g) /\ g.out = {} /\ v.sent = 0 /\ g.state \in {"INIT", "LISTEN"}
    BY <1>0, <2>2 DEF SameBlank, SameFlow
  <2>4. /\ EndOk(After(g), v, max, nxt, closed) /\ After(g).state = g.state
        /\ After(g).active = g.active /\ ~ToldOfReset(g)
    <3>1. /\ g \in Connection(N, M) /\ SameBlank(c, g) /\ g.state \in {"INIT", "LISTEN"}
          /\ c.state \in Beginning /\ v.sent = 0
      BY <1>0, <2>2, <2>3
    <3> HIDE DEF N, M
    <3> QED BY <3>1, RestEnd
  <2> QED BY <1>4, <2>2, <2>3, <2>4 DEF d
<1> QED
  BY <1>2, <1>3, <1>4

\* The SYN of the peer comes again in SYN_RCVD: it is outside the window and is
\* acknowledged, or (its ackNo is not set) it is let in and resets the connection.
LEMMA SynRcvdSyn ==
    ASSUME NEW v \in View, NEW max, NEW nxt, NEW closed,
           NEW c \in Connection(v.sent, v.peerSent), EndOk(c, v, max, nxt, closed),
           c.state = "SYN_RCVD", NEW win
    PROVE  LET d == process_RCV_SEGMENT(c, Syn(v.peerIss), win)
           IN  /\ EndOk(After(d), v, max, nxt, closed)
               /\ \/ /\ After(d).state = "SYN_RCVD" /\ ~ToldOfReset(d)
                     /\ After(d).active = c.active
                     /\ \A r \in d.out : Piece(r, v.sent, v.iss, max, v.peerIss, nxt)
                  \/ After(d).state = "CLOSED" /\ d.out = {}
<1> DEFINE N == v.sent
           M == v.peerSent
           s == Syn(v.peerIss)
           a == Plus(v.iss, 1)
           p == Plus(v.peerIss, 1)
           y == Seg({"ACK"}, c.snd_nxt, c.rcv_nxt, 0)
           o == c.out \cup {y}
           g == [c EXCEPT !.out = o]
           i == Append(c.ind, "CONNECTION_RESET")
           b == [c EXCEPT !.ind = i]
           h == performStateTransition(b, "RCV_UNEXP_SYN")
           d == process_RCV_SEGMENT(c, s, win)
<1>0. /\ N \in Nat /\ N = 0 /\ c \in Connection(N, M) /\ ~c.failed /\ c.out = {} /\ Starting(c, v)
      /\ c.state \in Beginning /\ c.rcv_nxt = p /\ c.receiveQueue = {} /\ max = 1 /\ nxt = 1
      /\ c.ind \in Seq(Indication)
  BY ViewTypes, ConnectionTypes DEF EndOk, Setting, Beginning
<1>1. d = g \/ d = h
  <2>1. Has(s, "SYN") /\ ~Has(s, "RST")
    <3>1. s.flags = {"SYN"}
      BY Kinds
    <3> QED BY <3>1 DEF Has
  <2>2. d = processSegment1stThru8th(c, s, win)
    BY DEF process_RCV_SEGMENT
  <2>3. sendAck(c) = g /\ sendIndicationToApp(c, "CONNECTION_RESET") = b
    BY DEF sendAck, Emit, sendIndicationToApp
  <2> HIDE DEF d, g, b, s
  <2> QED BY <2>1, <2>2, <2>3 DEF processSegment1stThru8th
<1> HIDE DEF d, s
<1>2. CASE d = g
  <2>1. g = sendAck(c)
    BY DEF sendAck, Emit
  <2>2. g \in Connection(N, M)
    <3> HIDE DEF g, N, M
    <3> QED BY <1>0, <2>1, SendControl DEF Sender
  <2>3. Piece(y, v.sent, v.iss, max, v.peerIss, nxt)
    <3>1. y.flags = {"ACK"} /\ y.seqNo = a /\ y.ackNo = p /\ y.item = 0
      BY <1>0 DEF Seg, Starting
    <3>2. Minus(p, v.peerIss) = 1
      <4>0. v.peerIss \in SeqNo /\ Half \in Nat /\ Half >= 2 /\ SeqMod = 2 * Half
        BY ViewTypes, HalfFacts
      <4>1. Minus(v.peerIss, v.peerIss) = 0
        BY <4>0, OffsetType
      <4>2. Minus(v.peerIss, v.peerIss) + 1 < SeqMod
        BY <4>0, <4>1
      <4> QED BY <4>0, <4>1, <4>2, OffsetPlus DEF p
    <3>3. Minus(a, v.iss) = 1
      BY <1>0, StartOffsets
    <3> HIDE DEF y, a, p
    <3> QED BY <1>0, <3>1, <3>2, <3>3 DEF Piece
  <2> HIDE DEF y
  <2>4. \A r \in o : Piece(r, v.sent, v.iss, max, v.peerIss, nxt)
    BY <1>0, <2>3
  <2> HIDE DEF o
  <2>5. g.out = o /\ SameStart(c, g) /\ g.state = c.state /\ g.active = c.active
    BY DEF Connection, SameStart, SameBlank
  <2> HIDE DEF g
  <2>6. /\ g \in Connection(N, M) /\ SameBlank(c, g) /\ g.state \in Beginning
        /\ (g.state \in Setting => Starting(g, v))
        /\ (g.state \in {"INIT", "LISTEN", "SYN_RCVD"} => v.sent = 0)
        /\ (g.state = "SYN_RCVD" => g.rcv_nxt = Plus(v.peerIss, 1) /\ g.receiveQueue = {})
        /\ c.state \in Beginning
    <3>1. SameBlank(c, g) /\ Starting(g, v) /\ g.rcv_nxt = p /\ g.receiveQueue = {}
      BY <1>0, <2>5 DEF SameStart, Starting
    <3> QED BY <1>0, <2>2, <2>5, <3>1
  <2>7. /\ EndOk(After(g), v, max, nxt, closed) /\ After(g).state = g.state /\ ~ToldOfReset(g)
        /\ After(g).active = g.active
    <3> HIDE DEF N, M
    <3> QED BY <2>6, BeginEnd
  <2> QED BY <1>2, <2>4, <2>5, <2>7 DEF d, s
<1>3. CASE d = h
  <2>1. i \in Seq(Indication) /\ "CONNECTION_RESET" \in Indication \ {"CLOSED", "PEER_CLOSED"}
    <3>1. "CONNECTION_RESET" \in Indication
      BY DEF Indication
    <3> QED BY <1>0, <3>1
  <2>2. /\ b \in Connection(N, M) /\ b.state = c.state /\ b.failed = c.failed
        /\ b.toApp = c.toApp /\ b.ind = i /\ b.out = c.out
    <3> HIDE DEF i
    <3> QED BY <1>0, <2>1 DEF Connection
  <2> HIDE DEF b
  <2>3. Warned(c, b)
    <3>1. \E x \in Indication \ {"CLOSED", "PEER_CLOSED"} : b.ind = Append(c.ind, x)
      BY <2>1, <2>2
    <3> QED BY <1>0, <2>2, <3>1 DEF Warned
  <2>4. NextState(b, "RCV_UNEXP_SYN") = "CLOSED" /\ c.state # "CLOSED"
    BY <1>0, <2>2 DEF NextState
  <2>5. /\ h.out = b.out
        /\ EndOk(After(h), v, max, nxt, closed) /\ After(h).state = "CLOSED"
    <3>1. /\ c \in Connection(N, M) /\ b \in Connection(N, M) /\ Warned(c, b)
          /\ c.state # "CLOSED" /\ NextState(b, "RCV_UNEXP_SYN") = "CLOSED"
      BY <1>0, <2>2, <2>3, <2>4
    <3> HIDE DEF N, M, i
    <3> QED BY <3>1, ShutEnd
  <2> HIDE DEF h
  <2> QED BY <1>0, <1>3, <2>2, <2>5 DEF d, s
<1> QED
  BY <1>1, <1>2, <1>3 DEF s

\* Any segment that comes to an established connection.
LEMMA SyncSegment ==
    ASSUME NEW v \in View, NEW max, NEW nxt, NEW closed,
           NEW c \in Connection(v.sent, v.peerSent), EndOk(c, v, max, nxt, closed),
           c.state \in Synchronized, Window(c, c.state),
           NEW s \in Segment(0 .. v.peerSent),
           Reset(s) \/ Theirs(s, v) \/ s = SynAck(v.peerIss, v.iss), NEW win \in Windows
    PROVE  LET d == process_RCV_SEGMENT(c, s, win)
           IN  /\ \E max2, nxt2 : Stepped(d, v, max, nxt, max2, nxt2, closed)
               /\ ToldOfReset(d) => Reset(s) /\ After(d).state = "CLOSED"
<1> DEFINE d == process_RCV_SEGMENT(c, s, win)
<1>1. CASE Reset(s)
  <2>1. /\ Stepped(d, v, max, nxt, max, nxt, closed)
        /\ ToldOfReset(d) => After(d).state = "CLOSED"
    BY <1>1, ResetLive
  <2> HIDE DEF d
  <2> QED BY <1>1, <2>1 DEF d
<1>2. CASE Theirs(s, v)
  <2>1. /\ Flow(c, v) /\ Control(c, v) /\ Top(c, v) = max /\ Rcv(c, v) = nxt
        /\ (c.send_fin <=> closed)
    BY DEF EndOk, Live
  <2>2. Outcome(c, d, v) /\ ~Says(d.ind, "CONNECTION_RESET")
    BY <1>2, <2>1, SyncSegmentFlow
  <2> HIDE DEF d
  <2>3. Stepped(d, v, Top(c, v), Rcv(c, v), Top(d, v), Rcv(d, v), closed) /\ ~ToldOfReset(d)
    BY <2>1, <2>2, OutcomeStep
  <2>4. Stepped(d, v, max, nxt, Top(d, v), Rcv(d, v), closed)
    BY <2>1, <2>3
  <2> QED BY <2>3, <2>4 DEF d
<1>3. CASE s = SynAck(v.peerIss, v.iss)
  <2> DEFINE e == process_RCV_SEGMENT(c, SynAck(v.peerIss, v.iss), win)
  <2>1. /\ Stepped(e, v, max, nxt, Top(e, v), Rcv(e, v), closed)
        /\ ~ToldOfReset(e)
    BY SynAckLive
  <2>2. d = e
    BY <1>3
  <2> HIDE DEF d, e
  <2> QED BY <2>1, <2>2 DEF d
<1> QED
  BY <1>1, <1>2, <1>3

-----------------------------------------------------------------------------
(* The two ends and the network between them *)

\* A side is a record of one end: its connection conn, the number of items its
\* application has sent, whether this has closed, the segments net on their way from
\* it, and the numbers that are no variables of the model: where its sequence
\* numbers begin (iss) and how far it has sent (max) and received (nxt).
At(n, i, b) == [sent |-> n, iss |-> i, peerSent |-> b.sent, peerIss |-> b.iss,
                peerMax |-> b.max, peerNxt |-> b.nxt]
ViewOf(a, b) == At(a.sent, a.iss, b)

\* The types of side a, whose peer is b.
Typed(a, b) ==
    /\ a.sent \in Number /\ a.iss \in SeqNo /\ a.closed \in BOOLEAN
    /\ a.conn \in Connection(a.sent, b.sent)
    /\ a.net \subseteq Segment(0 .. a.sent)

\* The end is right, and what it has sent is: first is the segment that carries its
\* SYN, a reset is sent only by an end that has no connection.
SideOk(a, b) == EndOk(a.conn, ViewOf(a, b), a.max, a.nxt, a.closed)
InFlight(a, b, first) ==
    \A s \in a.net : \/ s = first
                     \/ Reset(s) /\ a.conn.state \in Gone
                     \/ Piece(s, a.sent, a.iss, a.max, b.iss, a.nxt)

\* Both ends.
Both(a, b, firstA, firstB) ==
    /\ SideOk(a, b) /\ SideOk(b, a)
    /\ InFlight(a, b, firstA) /\ InFlight(b, a, firstB)

\* b2 is the peer b while the other end handles an event: it only loses segments.
Stays(b, b2) ==
    /\ b2.conn = b.conn /\ b2.sent = b.sent /\ b2.closed = b.closed
    /\ b2.iss = b.iss /\ b2.max = b.max /\ b2.nxt = b.nxt
    /\ b2.net \subseteq b.net

\* A side seen from itself.
LEMMA ViewFields ==
    ASSUME NEW a, NEW b, Typed(a, b), Typed(b, a), SideOk(a, b), SideOk(b, a)
    PROVE  /\ ViewOf(a, b) \in View
           /\ a.max \in Nat /\ a.nxt \in Nat /\ b.max \in Nat /\ b.nxt \in Nat
           /\ 1 <= a.max /\ a.max <= a.sent + 2 /\ b.nxt <= a.max
           /\ 1 <= a.nxt /\ a.nxt <= b.max /\ b.max <= b.sent + 2
           /\ a.max = a.sent + 2 => a.closed
           /\ a.sent \in Nat /\ b.sent \in Nat
<1>1. /\ a.max \in Nat /\ 1 <= a.max /\ a.max <= a.sent + 2 /\ b.nxt <= a.max
      /\ a.nxt \in Nat /\ 1 <= a.nxt /\ a.nxt <= b.max /\ b.max <= b.sent + 2
      /\ a.max = a.sent + 2 => a.closed
      /\ b.max \in Nat /\ b.nxt \in Nat
  BY DEF SideOk, EndOk, Counts, ViewOf, At
<1>2. ViewOf(a, b) \in View
  BY <1>1 DEF View, ViewOf, At, Typed
<1>3. a.sent \in Nat /\ b.sent \in Nat
  BY ViewTypes, HalfFacts DEF Typed, Number
<1> QED
  BY <1>1, <1>2, <1>3

\* A handler that does not choose an initial sequence number keeps both ends right.
LEMMA Moves ==
    ASSUME NEW a, NEW b, NEW fa, NEW fb, Typed(a, b), Typed(b, a), Both(a, b, fa, fb),
           NEW a2, NEW b2, Typed(a2, b2), Typed(b2, a2), Stays(b, b2), SideOk(a2, b),
           a2.iss = a.iss, a.max <= a2.max, a.nxt <= a2.nxt,
           a2.sent = a.sent \/ (a2.sent = a.sent + 1 /\ ~a.closed),
           a.conn.state \in Gone => a2.conn.state \in Gone,
           \A s \in a2.net : \/ s \in a.net \/ s = fa
                             \/ Reset(s) /\ a2.conn.state \in Gone
                             \/ Piece(s, a2.sent, a2.iss, a2.max, b.iss, a2.nxt)
    PROVE  Both(a2, b2, fa, fb)
<1>0. /\ ViewOf(b, a) \in View
      /\ a.max \in Nat /\ a.nxt \in Nat /\ a.max <= a.sent + 2 /\ a.sent \in Nat
      /\ b.max \in Nat /\ b.nxt \in Nat /\ b.sent \in Nat
      /\ ~a.closed => a.max <= a.sent + 1
  <2>1. SideOk(a, b) /\ SideOk(b, a)
    BY DEF Both
  <2>2. /\ a.max \in Nat /\ a.nxt \in Nat /\ a.max <= a.sent + 2 /\ a.sent \in Nat
        /\ b.max \in Nat /\ b.nxt \in Nat /\ b.sent \in Nat
        /\ a.max = a.sent + 2 => a.closed
    BY <2>1, ViewFields
  <2>3. ViewOf(b, a) \in View
    BY <2>1, ViewFields
  <2> QED BY <2>2, <2>3
<1>1. /\ a2.max \in Nat /\ a2.max <= a2.sent + 2 /\ b.nxt <= a2.max
      /\ a2.nxt \in Nat /\ a2.nxt <= b.max
      /\ a2.sent \in Number /\ a2.sent \in Nat
  BY HalfFacts DEF SideOk, EndOk, Counts, ViewOf, At, Typed, Number
<1>2. ViewOf(a2, b2) = ViewOf(a2, b)
  BY DEF Stays, ViewOf, At
<1>3. SideOk(a2, b2)
  BY <1>2 DEF SideOk
<1>4. SideOk(b2, a2)
  <2> DEFINE v == ViewOf(b, a)
             w == ViewOf(b, a2)
             c == b.conn
  <2>1. v \in View
    BY <1>0
  <2>2. w \in View
    BY <1>0, <1>1 DEF View, ViewOf, At, Typed
  <2>3. /\ w.sent = v.sent /\ w.iss = v.iss /\ w.peerIss = v.peerIss
        /\ w.peerSent = v.peerSent \/ (w.peerSent = v.peerSent + 1 /\ v.peerMax <= v.peerSent + 1)
        /\ v.peerMax <= w.peerMax /\ w.peerMax <= w.peerSent + 2
        /\ v.peerNxt <= w.peerNxt /\ w.peerNxt <= b.max
    BY <1>0, <1>1 DEF ViewOf, At
  <2>4. c \in Connection(v.sent, w.peerSent)
    BY DEF ViewOf, At, Typed, Stays
  <2>5. EndOk(c, v, b.max, b.nxt, b.closed)
    BY DEF Both, SideOk
  <2>6. ViewOf(b2, a2) = w
    BY DEF Stays, ViewOf, At
  <2> HIDE DEF v, w, c
  <2>7. EndOk(c, w, b.max, b.nxt, b.closed)
    BY <2>1, <2>2, <2>3, <2>4, <2>5, PeerGrows
  <2> QED BY <2>6, <2>7 DEF SideOk, Stays, c
<1>5. ASSUME NEW s \in a.net
      PROVE  s = fa \/ (Reset(s) /\ a2.conn.state \in Gone)
             \/ Piece(s, a2.sent, a2.iss, a2.max, b.iss, a2.nxt)
  <2>1. CASE s = fa \/ (Reset(s) /\ a.conn.state \in Gone)
    BY <2>1
  <2>2. CASE Piece(s, a.sent, a.iss, a.max, b.iss, a.nxt)
    <3>1. CASE a2.sent = a.sent
      <4>1. /\ a.sent \in Nat /\ a.max \in Nat /\ a2.max \in Nat /\ a.nxt \in Nat /\ a2.nxt \in Nat
            /\ a.max <= a2.max /\ a2.max <= a.sent + 2 /\ a.nxt <= a2.nxt
        BY <1>0, <1>1, <3>1
      <4>2. Piece(s, a.sent, a.iss, a2.max, b.iss, a2.nxt)
        BY <2>2, <4>1, PieceGrows
      <4> QED BY <3>1, <4>2
    <3>2. CASE a2.sent = a.sent + 1 /\ ~a.closed
      <4>1. "FIN" \notin s.flags /\ a.max <= a.sent + 1
        BY <1>0, <2>2, <3>2 DEF Piece
      <4>2. Minus(s.seqNo, a.iss) \in 1 .. a2.max /\ Minus(s.ackNo, b.iss) \in 1 .. a2.nxt
        <5> DEFINE x == Minus(s.seqNo, a.iss)
                   y == Minus(s.ackNo, b.iss)
        <5>1. x \in 1 .. a.max /\ y \in 1 .. a.nxt
          BY <2>2 DEF Piece
        <5> HIDE DEF x, y
        <5>2. x \in 1 .. a2.max /\ y \in 1 .. a2.nxt
          BY <1>0, <1>1, <5>1
        <5> QED BY <5>2 DEF x, y
      <4>3. s.item # 0 => /\ s.item = Minus(s.seqNo, a.iss)
                          /\ s.item <= a2.sent /\ s.item < a2.max
        <5>1. s.item # 0 => /\ s.item = Minus(s.seqNo, a.iss) /\ s.item \in 1 .. a.max
                            /\ s.item <= a.sent /\ s.item < a.max
          BY <2>2 DEF Piece
        <5> QED BY <1>0, <1>1, <3>2, <5>1
      <4>4. s.flags \in {{"ACK"}, {"ACK", "FIN"}}
        BY <2>2 DEF Piece
      <4> QED BY <4>1, <4>2, <4>3, <4>4 DEF Piece
    <3> QED BY <3>1, <3>2
  <2> QED BY <2>1, <2>2 DEF Both, InFlight
<1>6. InFlight(a2, b2, fa)
  BY <1>5 DEF InFlight, Stays
<1>7. InFlight(b2, a2, fb)
  BY DEF InFlight, Stays, Both
<1> QED
  BY <1>3, <1>4, <1>6, <1>7 DEF Both

\* An end that sends the first segment of a connection, when its peer has none and
\* nothing is on its way.
LEMMA Begins ==
    ASSUME NEW a, NEW b, NEW fa, NEW fb, Typed(a, b), Typed(b, a), Both(a, b, fa, fb),
           b.conn.state \notin Synchronized \cup {"SYN_RCVD"},
           NEW a2, NEW b2, Stays(b, b2), SideOk(a2, b),
           a2.sent = a.sent, a2.max = a.max, a2.nxt = a.nxt,
           NEW fa2, NEW fb2, a2.net \subseteq {fa2}, b2.net = {}
    PROVE  Both(a2, b2, fa2, fb2)
<1>1. SideOk(a2, b2)
  BY DEF SideOk, ViewOf, At, Stays
<1>2. SideOk(b2, a2)
  <2> DEFINE v == ViewOf(b, a)
             w == ViewOf(b, a2)
             c == b.conn
  <2>1. /\ w.sent = v.sent /\ w.iss = v.iss /\ w.peerSent = v.peerSent
        /\ w.peerMax = v.peerMax /\ w.peerNxt = v.peerNxt
    BY DEF ViewOf, At
  <2>2. EndOk(c, v, b.max, b.nxt, b.closed) /\ c.state \notin Synchronized \cup {"SYN_RCVD"}
    BY DEF Both, SideOk
  <2>3. ViewOf(b2, a2) = w
    BY DEF Stays, ViewOf, At
  <2> HIDE DEF v, w, c
  <2>4. EndOk(c, w, b.max, b.nxt, b.closed)
    BY <2>1, <2>2, PeerBegins
  <2> QED BY <2>3, <2>4 DEF SideOk, Stays, c
<1>3. InFlight(a2, b2, fa2) /\ InFlight(b2, a2, fb2)
  BY DEF InFlight
<1> QED
  BY <1>1, <1>2, <1>3 DEF Both

\* Side a when its handler has the result d, and side b when the segments in taken
\* have left what is on its way.
Became(a, d, n, i, max, nxt, closed) ==
    [conn |-> After(d), sent |-> n, closed |-> closed, net |-> a.net \cup d.out,
     iss |-> i, max |-> max, nxt |-> nxt]
Without(b, taken) ==
    [conn |-> b.conn, sent |-> b.sent, closed |-> b.closed, net |-> b.net \ taken,
     iss |-> b.iss, max |-> b.max, nxt |-> b.nxt]

\* The types of the result, if it has sent n items.
Fits(a, b, d, n) ==
    /\ n \in Number
    /\ After(d) \in Connection(n, b.sent) /\ b.conn \in Connection(b.sent, n)
    /\ d.out \subseteq Segment(0 .. n) /\ a.net \subseteq Segment(0 .. n)

\* Nothing but SYNs has been sent and received.
NothingYet(x, y) == x.max = 1 /\ x.nxt = 1 /\ y.max = 1 /\ y.nxt = 1

\* How the client x, which opens actively, and the server y, which opens passively,
\* come to a connection: what each state of one allows the other and the network.
SetupOk(x, y) ==
    LET X == x.conn.state
        Y == y.conn.state
        syn == Syn(x.iss)
    IN  /\ X \in {"INIT", "SYN_SENT", "CLOSED"} \cup Synchronized
        /\ Y \in {"INIT", "LISTEN", "SYN_RCVD", "CLOSED"} \cup Synchronized
        /\ Y \in {"INIT", "LISTEN", "SYN_RCVD"} => ~y.conn.active
        /\ X = "INIT" => x.net = {} /\ y.net = {} /\ Y \in Gone /\ NothingYet(x, y)
        /\ X = "SYN_SENT" =>
              /\ Y \notin Synchronized /\ x.net \subseteq {syn} /\ NothingYet(x, y)
              /\ SynAck(y.iss, x.iss) \in y.net => Y \in {"SYN_RCVD", "CLOSED"}
        /\ syn \in x.net =>
              /\ X \in {"SYN_SENT", "CLOSED"} /\ Y \notin Synchronized
              /\ NothingYet(x, y)
              /\ \A s \in x.net : s = syn \/ Y = "CLOSED"
              /\ \A s \in y.net : Reset(s) /\ Y = "CLOSED"
        /\ X \in Synchronized => Y # "INIT"
        /\ Says(x.conn.ind, "CONNECTION_RESET") =>
              X = "CLOSED" /\ Y \in Gone /\ (syn \in x.net => Y = "CLOSED")
        /\ Says(y.conn.ind, "CONNECTION_RESET") =>
              /\ Y = "CLOSED"
              /\ X = "CLOSED" \/ (X = "SYN_SENT" /\ SynAck(y.iss, x.iss) \notin y.net)

\* The invariant of the pair.
PairOk(x, y) ==
    /\ Typed(x, y) /\ Typed(y, x)
    /\ Both(x, y, Syn(x.iss), SynAck(y.iss, x.iss))
    /\ SetupOk(x, y)

\* The invariant holds again when the client, or the server, has handled an event
\* with the result d.
ClientGoes(x, y, d, n, closed, taken) ==
    \E i, max, nxt : /\ PairOk(Became(x, d, n, i, max, nxt, closed), Without(y, taken))
                     /\ x.nxt <= nxt
ServerGoes(x, y, d, n, closed, taken) ==
    \E i, max, nxt : /\ PairOk(Without(x, taken), Became(y, d, n, i, max, nxt, closed))
                     /\ y.nxt <= nxt

\* The types of the sides after a step.
LEMMA StepTyped ==
    ASSUME NEW a, NEW b, Typed(b, a), NEW d, NEW n, Fits(a, b, d, n),
           NEW i \in SeqNo, NEW max, NEW nxt, NEW closed \in BOOLEAN, NEW taken
    PROVE  LET a2 == Became(a, d, n, i, max, nxt, closed)
               b2 == Without(b, taken)
           IN  Typed(a2, b2) /\ Typed(b2, a2)
<1> DEFINE a2 == Became(a, d, n, i, max, nxt, closed)
           b2 == Without(b, taken)
<1>1. /\ a2.conn = After(d) /\ a2.sent = n /\ a2.closed = closed
      /\ a2.net = a.net \cup d.out /\ a2.iss = i
  BY DEF Became, Without, Stays
<1>2. /\ b2.conn = b.conn /\ b2.sent = b.sent /\ b2.closed = b.closed
      /\ b2.net \subseteq b.net /\ b2.iss = b.iss
  BY DEF Without
<1> HIDE DEF a2, b2
<1> QED
  BY <1>1, <1>2 DEF Typed, Fits, a2, b2

\* A handler that does not choose an initial sequence number.
LEMMA StepBoth ==
    ASSUME NEW a, NEW b, NEW fa, NEW fb, Typed(a, b), Typed(b, a), Both(a, b, fa, fb),
           NEW d, NEW n, Fits(a, b, d, n), n = a.sent \/ (n = a.sent + 1 /\ ~a.closed),
           NEW max, NEW nxt, NEW closed \in BOOLEAN, NEW taken,
           EndOk(After(d), At(n, a.iss, b), max, nxt, closed),
           a.max <= max, a.nxt <= nxt,
           a.conn.state \in Gone => After(d).state \in Gone,
           \A s \in d.out : \/ s = fa
                            \/ Reset(s) /\ After(d).state \in Gone
                            \/ Piece(s, n, a.iss, max, b.iss, nxt)
    PROVE  Both(Became(a, d, n, a.iss, max, nxt, closed), Without(b, taken), fa, fb)
<1> DEFINE a2 == Became(a, d, n, a.iss, max, nxt, closed)
           b2 == Without(b, taken)
<1>1. /\ a2.conn = After(d) /\ a2.sent = n /\ a2.closed = closed
      /\ a2.net = a.net \cup d.out /\ a2.iss = a.iss /\ a2.max = max /\ a2.nxt = nxt
  BY DEF Became, Without, Stays
<1>2. Stays(b, b2)
  BY DEF Became, Without, Stays
<1>3. Typed(a2, b2) /\ Typed(b2, a2)
  BY StepTyped DEF Typed
<1> HIDE DEF a2, b2
<1>4. SideOk(a2, b)
  BY <1>1 DEF SideOk, ViewOf
<1>5. \A s \in a2.net : \/ s \in a.net \/ s = fa
                        \/ Reset(s) /\ a2.conn.state \in Gone
                        \/ Piece(s, a2.sent, a2.iss, a2.max, b.iss, a2.nxt)
  BY <1>1
<1>6. /\ a2.iss = a.iss /\ a.max <= a2.max /\ a.nxt <= a2.nxt
      /\ a2.sent = a.sent \/ (a2.sent = a.sent + 1 /\ ~a.closed)
      /\ a.conn.state \in Gone => a2.conn.state \in Gone
  BY <1>1
<1>7. Both(a2, b2, fa, fb)
  BY <1>2, <1>3, <1>4, <1>5, <1>6, Moves
<1> QED
  BY <1>7 DEF a2, b2

\* A handler of an end that has, or just got, a connection.
LEMMA SteppedBoth ==
    ASSUME NEW a, NEW b, NEW fa, NEW fb, Typed(a, b), Typed(b, a), Both(a, b, fa, fb),
           a.conn.state \notin Gone,
           NEW d, NEW n, Fits(a, b, d, n), n = a.sent \/ (n = a.sent + 1 /\ ~a.closed),
           NEW max, NEW nxt, NEW closed \in BOOLEAN, NEW taken,
           Stepped(d, At(n, a.iss, b), a.max, a.nxt, max, nxt, closed)
    PROVE  Both(Became(a, d, n, a.iss, max, nxt, closed), Without(b, taken), fa, fb)
<1> DEFINE v == At(n, a.iss, b)
<1>1. v.sent = n /\ v.iss = a.iss /\ v.peerIss = b.iss
  BY DEF At
<1>2. /\ EndOk(After(d), v, max, nxt, closed) /\ a.max <= max /\ a.nxt <= nxt
      /\ \A s \in d.out : \/ Piece(s, v.sent, v.iss, max, v.peerIss, nxt)
                          \/ Reset(s) /\ After(d).state = "CLOSED"
  BY DEF Stepped
<1> HIDE DEF v
<1>3. \A s \in d.out : \/ s = fa
                       \/ Reset(s) /\ After(d).state \in Gone
                       \/ Piece(s, n, a.iss, max, b.iss, nxt)
  BY <1>1, <1>2 DEF Gone
<1> QED
  BY <1>2, <1>3, StepBoth DEF v

\* The peer of an end with a connection, and the segments that are neither.
LEMMA NotFirst ==
    /\ \A iss, q : "SYN" \in Syn(iss).flags /\ "SYN" \in SynAck(iss, q).flags
    /\ \A s, n, iss, max, q, nxt : Piece(s, n, iss, max, q, nxt) => "SYN" \notin s.flags
    /\ \A s : Reset(s) => "SYN" \notin s.flags
BY DEF Syn, SynAck, Seg, Piece, Reset

\* The client has a connection and handles an event.
LEMMA ClientSync ==
    ASSUME NEW x, NEW y, PairOk(x, y), x.conn.state \in Synchronized,
           NEW d, NEW n, Fits(x, y, d, n), n = x.sent \/ (n = x.sent + 1 /\ ~x.closed),
           NEW max, NEW nxt, NEW closed \in BOOLEAN, NEW taken,
           Stepped(d, At(n, x.iss, y), x.max, x.nxt, max, nxt, closed),
           ToldOfReset(d) => After(d).state = "CLOSED" /\ y.conn.state \in Gone
    PROVE  ClientGoes(x, y, d, n, closed, taken)
<1> DEFINE x2 == Became(x, d, n, x.iss, max, nxt, closed)
           y2 == Without(y, taken)
<1>0. Typed(x, y) /\ Typed(y, x) /\ Both(x, y, Syn(x.iss), SynAck(y.iss, x.iss)) /\ SetupOk(x, y)
  BY DEF PairOk
<1>1. Synchronized \cap (Beginning \cup Gone) = {} /\ "CLOSED" \in Gone
  BY DEF Synchronized, Beginning, Gone
<1>2. Both(x2, y2, Syn(x.iss), SynAck(y.iss, x.iss))
  BY <1>0, <1>1, SteppedBoth
<1>3. /\ x2.conn = After(d) /\ x2.net = x.net \cup d.out /\ x2.iss = x.iss /\ x2.nxt = nxt
      /\ y2.conn = y.conn /\ y2.net = y.net \ taken /\ y2.iss = y.iss
  BY DEF Became, Without, Stays
<1>4. Typed(x2, y2) /\ Typed(y2, x2)
  BY <1>0, StepTyped DEF Typed
<1> HIDE DEF x2, y2
<1>5. /\ x2.conn.state \in Synchronized \cup {"CLOSED"} /\ x.nxt <= nxt
      /\ \A s \in d.out : "SYN" \notin s.flags
      /\ Says(x2.conn.ind, "CONNECTION_RESET") =>
            x2.conn.state = "CLOSED" /\ y.conn.state \in Gone
  BY <1>3, NotFirst DEF Stepped, ToldOfReset
<1>6. Syn(x2.iss) \notin x2.net
  <2>1. Syn(x.iss) \notin x.net
    BY <1>0, <1>1 DEF SetupOk, Beginning
  <2> QED BY <1>3, <1>5, <2>1, NotFirst
<1>7. SetupOk(x2, y2)
  BY <1>0, <1>1, <1>3, <1>5, <1>6 DEF SetupOk, Beginning, Gone
<1>8. PairOk(x2, y2)
  BY <1>2, <1>3, <1>4, <1>7 DEF PairOk
<1> QED
  BY <1>5, <1>8 DEF ClientGoes, x2, y2

\* The server has, or just got, a connection, and handles an event.
ServerStep(x, y, d, n, max, nxt, closed) ==
    /\ PairOk(x, y) /\ y.conn.state \in Synchronized \cup {"SYN_RCVD"}
    /\ x.conn.state \in Synchronized \cup {"CLOSED"} /\ Syn(x.iss) \notin x.net
    /\ Fits(y, x, d, n) /\ (n = y.sent \/ (n = y.sent + 1 /\ ~y.closed))
    /\ Stepped(d, At(n, y.iss, x), y.max, y.nxt, max, nxt, closed)
    /\ ToldOfReset(d) => After(d).state = "CLOSED" /\ x.conn.state \in Gone

\* See ServerStep.
LEMMA ServerSync ==
    ASSUME NEW x, NEW y, NEW d, NEW n, NEW max, NEW nxt, NEW closed \in BOOLEAN,
           NEW taken, ServerStep(x, y, d, n, max, nxt, closed)
    PROVE  ServerGoes(x, y, d, n, closed, taken)
<1> DEFINE y2 == Became(y, d, n, y.iss, max, nxt, closed)
           x2 == Without(x, taken)
<1>0. /\ Typed(x, y) /\ Typed(y, x) /\ Both(x, y, Syn(x.iss), SynAck(y.iss, x.iss))
      /\ SetupOk(x, y)
  BY DEF ServerStep, PairOk
<1>s. /\ y.conn.state \in Synchronized \cup {"SYN_RCVD"}
      /\ x.conn.state \in Synchronized \cup {"CLOSED"} /\ Syn(x.iss) \notin x.net
      /\ Fits(y, x, d, n) /\ (n = y.sent \/ (n = y.sent + 1 /\ ~y.closed))
      /\ Stepped(d, At(n, y.iss, x), y.max, y.nxt, max, nxt, closed)
      /\ ToldOfReset(d) => After(d).state = "CLOSED" /\ x.conn.state \in Gone
  BY DEF ServerStep
<1>1. Synchronized \cap (Beginning \cup Gone) = {} /\ "CLOSED" \in Gone
  BY DEF Synchronized, Beginning, Gone
<1>2. Both(x2, y2, Syn(x.iss), SynAck(y.iss, x.iss))
  <2>1. Both(y, x, SynAck(y.iss, x.iss), Syn(x.iss)) /\ y.conn.state \notin Gone
    BY <1>0, <1>s, <1>1 DEF Both, Gone
  <2>2. Both(y2, x2, SynAck(y.iss, x.iss), Syn(x.iss))
    BY <1>0, <1>s, <2>1, SteppedBoth
  <2> QED BY <2>2 DEF Both
<1>3. /\ y2.conn = After(d) /\ y2.net = y.net \cup d.out /\ y2.iss = y.iss /\ y2.nxt = nxt
      /\ x2.conn = x.conn /\ x2.net = x.net \ taken /\ x2.iss = x.iss
  BY DEF Became, Without, Stays
<1>4. Typed(x2, y2) /\ Typed(y2, x2)
  BY <1>0, <1>s, StepTyped, ZenonT(60) DEF Typed
<1> HIDE DEF x2, y2
<1>5. /\ y2.conn.state \in Synchronized \cup {"CLOSED"} /\ y.nxt <= nxt
      /\ \A s \in d.out : "SYN" \notin s.flags
      /\ Says(y2.conn.ind, "CONNECTION_RESET") =>
            y2.conn.state = "CLOSED" /\ x.conn.state \in Gone
  BY <1>s, <1>3, NotFirst DEF Stepped, ToldOfReset
<1>6. /\ Syn(x2.iss) \notin x2.net
      /\ ~Says(x.conn.ind, "CONNECTION_RESET") \/ y.conn.state \in Gone
  BY <1>0, <1>s, <1>3 DEF SetupOk
<1>7. SetupOk(x2, y2)
  BY <1>0, <1>s, <1>1, <1>3, <1>5, <1>6 DEF SetupOk, Beginning, Gone
<1>8. PairOk(x2, y2)
  BY <1>2, <1>3, <1>4, <1>7 DEF PairOk
<1> QED
  BY <1>5, <1>8 DEF ServerGoes, x2, y2

\* What a side of the pair sees, and what is known of it.
LEMMA Seen ==
    ASSUME NEW a, NEW b, Typed(a, b), Typed(b, a), SideOk(a, b), SideOk(b, a)
    PROVE  LET v == At(a.sent, a.iss, b)
           IN  /\ v \in View
               /\ v.sent = a.sent /\ v.iss = a.iss /\ v.peerSent = b.sent /\ v.peerIss = b.iss
               /\ v.peerMax = b.max /\ v.peerNxt = b.nxt
               /\ a.closed \in BOOLEAN
               /\ a.conn \in Connection(v.sent, v.peerSent)
               /\ EndOk(a.conn, v, a.max, a.nxt, a.closed)
<1> DEFINE v == At(a.sent, a.iss, b)
<1>1. ViewOf(a, b) = v
  BY DEF ViewOf
<1>2. /\ v.sent = a.sent /\ v.iss = a.iss /\ v.peerSent = b.sent /\ v.peerIss = b.iss
      /\ v.peerMax = b.max /\ v.peerNxt = b.nxt
  BY DEF At
<1>3. v \in View
  BY <1>1, ViewFields
<1> HIDE DEF v
<1>4. a.closed \in BOOLEAN /\ a.conn \in Connection(v.sent, v.peerSent)
  BY <1>2 DEF Typed
<1>5. EndOk(a.conn, v, a.max, a.nxt, a.closed)
  BY <1>1 DEF SideOk
<1> QED
  BY <1>2, <1>3, <1>4, <1>5 DEF v

\* The same for both ends.
LEMMA SeenByBoth ==
    ASSUME NEW x, NEW y, PairOk(x, y)
    PROVE  /\ Typed(x, y) /\ Typed(y, x) /\ SideOk(x, y) /\ SideOk(y, x) /\ SetupOk(x, y)
           /\ InFlight(x, y, Syn(x.iss)) /\ InFlight(y, x, SynAck(y.iss, x.iss))
           /\ x.max \in Nat /\ x.nxt \in Nat /\ y.max \in Nat /\ y.nxt \in Nat
           /\ x.sent \in Nat /\ y.sent \in Nat
           /\ x.iss \in SeqNo /\ y.iss \in SeqNo
<1>1. /\ Typed(x, y) /\ Typed(y, x) /\ SideOk(x, y) /\ SideOk(y, x) /\ SetupOk(x, y)
      /\ InFlight(x, y, Syn(x.iss)) /\ InFlight(y, x, SynAck(y.iss, x.iss))
  BY DEF PairOk, Both
<1>2. /\ x.max \in Nat /\ x.nxt \in Nat /\ y.max \in Nat /\ y.nxt \in Nat
      /\ x.sent \in Nat /\ y.sent \in Nat
  BY <1>1, ViewFields
<1>3. x.iss \in SeqNo /\ y.iss \in SeqNo
  BY <1>1 DEF Typed
<1> QED
  BY <1>1, <1>2, <1>3

\* A step of the client during setup, and one of the server.
LEMMA ClientSetup ==
    ASSUME NEW x, NEW y, PairOk(x, y),
           NEW d, NEW n, Fits(x, y, d, n), n = x.sent \/ (n = x.sent + 1 /\ ~x.closed),
           NEW closed \in BOOLEAN, NEW taken,
           EndOk(After(d), At(n, x.iss, y), x.max, x.nxt, closed),
           x.conn.state \in Gone => After(d).state \in Gone,
           \A s \in d.out : \/ s = Syn(x.iss)
                            \/ Reset(s) /\ After(d).state \in Gone
                            \/ Piece(s, n, x.iss, x.max, y.iss, x.nxt),
           SetupOk(Became(x, d, n, x.iss, x.max, x.nxt, closed), Without(y, taken))
    PROVE  ClientGoes(x, y, d, n, closed, taken)
<1> DEFINE x2 == Became(x, d, n, x.iss, x.max, x.nxt, closed)
           y2 == Without(y, taken)
<1>0. /\ Typed(x, y) /\ Typed(y, x) /\ Both(x, y, Syn(x.iss), SynAck(y.iss, x.iss))
      /\ x.max \in Nat /\ x.nxt \in Nat /\ x.max <= x.max /\ x.nxt <= x.nxt /\ x.iss \in SeqNo
  BY SeenByBoth DEF PairOk
<1>1. Both(x2, y2, Syn(x.iss), SynAck(y.iss, x.iss))
  BY <1>0, StepBoth
<1>2. Typed(x2, y2) /\ Typed(y2, x2)
  BY <1>0, StepTyped
<1>3. x2.iss = x.iss /\ y2.iss = y.iss
  BY DEF Became, Without
<1>4. SetupOk(x2, y2)
  OBVIOUS
<1> HIDE DEF x2, y2
<1>5. PairOk(x2, y2)
  BY <1>1, <1>2, <1>3, <1>4 DEF PairOk
<1> QED
  BY <1>0, <1>5 DEF ClientGoes, x2, y2

\* See ClientSetup.
LEMMA ServerSetup ==
    ASSUME NEW x, NEW y, PairOk(x, y),
           NEW d, NEW n, Fits(y, x, d, n), n = y.sent \/ (n = y.sent + 1 /\ ~y.closed),
           NEW closed \in BOOLEAN, NEW taken,
           EndOk(After(d), At(n, y.iss, x), y.max, y.nxt, closed),
           y.conn.state \in Gone => After(d).state \in Gone,
           \A s \in d.out : \/ s = SynAck(y.iss, x.iss)
                            \/ Reset(s) /\ After(d).state \in Gone
                            \/ Piece(s, n, y.iss, y.max, x.iss, y.nxt),
           SetupOk(Without(x, taken), Became(y, d, n, y.iss, y.max, y.nxt, closed))
    PROVE  ServerGoes(x, y, d, n, closed, taken)
<1> DEFINE y2 == Became(y, d, n, y.iss, y.max, y.nxt, closed)
           x2 == Without(x, taken)
<1>0. /\ Typed(x, y) /\ Typed(y, x) /\ Both(y, x, SynAck(y.iss, x.iss), Syn(x.iss))
      /\ y.max \in Nat /\ y.nxt \in Nat /\ y.max <= y.max /\ y.nxt <= y.nxt /\ y.iss \in SeqNo
  BY SeenByBoth DEF Both
<1>1. Both(y2, x2, SynAck(y.iss, x.iss), Syn(x.iss))
  BY <1>0, StepBoth
<1>2. Typed(x2, y2) /\ Typed(y2, x2)
  BY <1>0, StepTyped
<1>3. x2.iss = x.iss /\ y2.iss = y.iss
  BY DEF Became, Without
<1>4. SetupOk(x2, y2)
  OBVIOUS
<1> HIDE DEF x2, y2
<1>5. PairOk(x2, y2)
  BY <1>1, <1>2, <1>3, <1>4 DEF PairOk, Both
<1> QED
  BY <1>0, <1>5 DEF ServerGoes, x2, y2

\* The network loses segments.
LEMMA SegmentsLost ==
    ASSUME NEW x, NEW y, PairOk(x, y), NEW S, NEW T
    PROVE  PairOk(Without(x, S), Without(y, T))
<1> DEFINE x2 == Without(x, S)
           y2 == Without(y, T)
<1>1. /\ x2.conn = x.conn /\ x2.sent = x.sent /\ x2.closed = x.closed
      /\ x2.iss = x.iss /\ x2.max = x.max /\ x2.nxt = x.nxt /\ x2.net = x.net \ S
      /\ y2.conn = y.conn /\ y2.sent = y.sent /\ y2.closed = y.closed
      /\ y2.iss = y.iss /\ y2.max = y.max /\ y2.nxt = y.nxt /\ y2.net = y.net \ T
  BY DEF Without
<1> HIDE DEF x2, y2
<1>2. Typed(x2, y2) /\ Typed(y2, x2)
  BY <1>1 DEF PairOk, Typed
<1>3. SideOk(x2, y2) /\ SideOk(y2, x2)
  BY <1>1 DEF PairOk, Both, SideOk, ViewOf, At
<1>4. InFlight(x2, y2, Syn(x2.iss)) /\ InFlight(y2, x2, SynAck(y2.iss, x2.iss))
  BY <1>1 DEF PairOk, Both, InFlight
<1>5. SetupOk(x2, y2)
  BY <1>1 DEF PairOk, SetupOk, NothingYet
<1> QED
  BY <1>2, <1>3, <1>4, <1>5 DEF PairOk, Both, x2, y2

\* The states of the two ends, for the case distinctions of connection setup.
LEMMA Apart ==
    /\ Synchronized \cap {"INIT", "LISTEN", "SYN_SENT", "SYN_RCVD", "CLOSED"} = {}
    /\ Beginning \cap Synchronized = {} /\ "CLOSED" \notin Beginning
    /\ \A s, iss, q : Reset(s) => s # Syn(iss) /\ s # SynAck(iss, q)
    /\ \A s, n, iss, max, q, nxt, i, j :
          Piece(s, n, iss, max, q, nxt) => s # Syn(i) /\ s # SynAck(i, j) /\ ~Reset(s)
    /\ \A i, j, k : Syn(i) # SynAck(j, k)
<1>1. \A i, j, k : Syn(i) # SynAck(j, k)
  BY Kinds
<1>2. \A s, n, iss, max, q, nxt : Piece(s, n, iss, max, q, nxt) => ~Reset(s)
  BY DEF Piece, Reset
<1> QED
  BY <1>1, <1>2, NotFirst DEF Synchronized, Beginning

\* The client gives up, or is reset, before it has a connection.
LEMMA ClientLeaves ==
    ASSUME NEW x, NEW y, PairOk(x, y), x.conn.state = "SYN_SENT",
           NEW d, Fits(x, y, d, x.sent), NEW closed \in BOOLEAN, NEW taken,
           EndOk(After(d), At(x.sent, x.iss, y), x.max, x.nxt, closed),
           After(d).state = "CLOSED", d.out = {},
           ToldOfReset(d) => \E s \in y.net : Reset(s)
    PROVE  ClientGoes(x, y, d, x.sent, closed, taken)
<1> DEFINE x2 == Became(x, d, x.sent, x.iss, x.max, x.nxt, closed)
           y2 == Without(y, taken)
<1>0. SetupOk(x, y) /\ InFlight(y, x, SynAck(y.iss, x.iss)) /\ "CLOSED" \in Gone
  BY SeenByBoth DEF Gone
<1>1. /\ x2.conn = After(d) /\ x2.net = x.net /\ x2.iss = x.iss
      /\ x2.max = x.max /\ x2.nxt = x.nxt
      /\ y2.conn = y.conn /\ y2.net = y.net \ taken /\ y2.iss = y.iss
      /\ y2.max = y.max /\ y2.nxt = y.nxt
  BY DEF Became, Without
<1> HIDE DEF x2, y2
<1>2. Says(x2.conn.ind, "CONNECTION_RESET") =>
         y.conn.state \in Gone /\ (Syn(x.iss) \in x.net => y.conn.state = "CLOSED")
  <2>1. Says(x2.conn.ind, "CONNECTION_RESET") => \E s \in y.net : Reset(s)
    BY <1>1 DEF ToldOfReset
  <2>2. ASSUME NEW s \in y.net, Reset(s) PROVE y.conn.state \in Gone
    BY <1>0, <2>2, Apart DEF InFlight
  <2>3. y.net # {} => (Syn(x.iss) \in x.net => y.conn.state = "CLOSED")
    BY <1>0 DEF SetupOk
  <2> QED BY <2>1, <2>2, <2>3
<1>3. SetupOk(x2, y2)
  BY <1>0, <1>1, <1>2, Apart DEF SetupOk, NothingYet
<1> QED
  BY <1>0, <1>3, ClientSetup DEF x2, y2

\* The client stays in SYN_SENT, and has sent at most its SYN again.
LEMMA ClientWaits ==
    ASSUME NEW x, NEW y, PairOk(x, y), x.conn.state = "SYN_SENT",
           NEW d, NEW n, Fits(x, y, d, n), n = x.sent \/ (n = x.sent + 1 /\ ~x.closed),
           NEW closed \in BOOLEAN, NEW taken,
           EndOk(After(d), At(n, x.iss, y), x.max, x.nxt, closed),
           After(d).state = "SYN_SENT", ~ToldOfReset(d),
           d.out = {} \/ (d.out = {Syn(x.iss)} /\ y.net = {})
    PROVE  ClientGoes(x, y, d, n, closed, taken)
<1> DEFINE x2 == Became(x, d, n, x.iss, x.max, x.nxt, closed)
           y2 == Without(y, taken)
<1>0. SetupOk(x, y) /\ "SYN_SENT" \notin Gone
  BY SeenByBoth DEF Gone
<1>1. /\ x2.conn = After(d) /\ x2.net = x.net \cup d.out /\ x2.iss = x.iss
      /\ x2.max = x.max /\ x2.nxt = x.nxt
      /\ y2.conn = y.conn /\ y2.net = y.net \ taken /\ y2.iss = y.iss
      /\ y2.max = y.max /\ y2.nxt = y.nxt
      /\ ~Says(x2.conn.ind, "CONNECTION_RESET")
  BY DEF Became, Without, ToldOfReset
<1> HIDE DEF x2, y2
<1>2. SetupOk(x2, y2)
  <2>1. CASE d.out = {}
    <3>1. x2.net = x.net
      BY <1>1, <2>1
    <3> QED BY <1>0, <1>1, <3>1, Apart DEF SetupOk, NothingYet
  <2>2. CASE d.out = {Syn(x.iss)} /\ y.net = {}
    <3>1. x2.net = {Syn(x.iss)} /\ y2.net = {}
      BY <1>0, <1>1, <2>2 DEF SetupOk
    <3> QED BY <1>0, <1>1, <3>1, Apart DEF SetupOk, NothingYet
  <2> QED BY <2>1, <2>2
<1>3. /\ x.conn.state \in Gone => After(d).state \in Gone
      /\ \A s \in d.out : s = Syn(x.iss)
  BY <1>0
<1> QED
  BY <1>2, <1>3, ClientSetup DEF x2, y2

\* A segment comes to a client that is gone.
LEMMA ClientNobody ==
    ASSUME NEW x, NEW y, PairOk(x, y), x.conn.state \in {"INIT", "CLOSED"},
           NEW s \in y.net,
           NEW d, Fits(x, y, d, x.sent),
           EndOk(After(d), At(x.sent, x.iss, y), x.max, x.nxt, x.closed),
           After(d).state = x.conn.state, After(d).ind = x.conn.ind,
           \A r \in d.out : Reset(r)
    PROVE  ClientGoes(x, y, d, x.sent, x.closed, {s})
<1> DEFINE x2 == Became(x, d, x.sent, x.iss, x.max, x.nxt, x.closed)
           y2 == Without(y, {s})
<1>0. SetupOk(x, y) /\ "CLOSED" \in Gone /\ x.closed \in BOOLEAN
  BY SeenByBoth DEF Gone, Typed
<1>1. /\ x2.conn = After(d) /\ x2.net = x.net \cup d.out /\ x2.iss = x.iss
      /\ x2.max = x.max /\ x2.nxt = x.nxt
      /\ y2.conn = y.conn /\ y2.net = y.net \ {s} /\ y2.iss = y.iss
      /\ y2.max = y.max /\ y2.nxt = y.nxt
  BY DEF Became, Without
<1> HIDE DEF x2, y2
<1>2. x.conn.state = "CLOSED"
  BY <1>0 DEF SetupOk
<1>3. Syn(x.iss) \in x2.net <=> Syn(x.iss) \in x.net
  BY <1>1, Apart
<1>4. Syn(x.iss) \in x.net => y.conn.state = "CLOSED"
  BY <1>0 DEF SetupOk
<1>5. SetupOk(x2, y2)
  BY <1>0, <1>1, <1>2, <1>3, <1>4, Apart DEF SetupOk, NothingYet
<1> QED
  BY <1>0, <1>2, <1>5, ClientSetup DEF x2, y2

\* The client opens.
LEMMA ClientOpens ==
    ASSUME NEW x, NEW y, PairOk(x, y), x.conn.state = "INIT",
           NEW d, Fits(x, y, d, x.sent), NEW i \in SeqNo,
           EndOk(After(d), At(x.sent, i, y), x.max, x.nxt, x.closed),
           After(d).state = "SYN_SENT", ~ToldOfReset(d), d.out = {Syn(i)}
    PROVE  ClientGoes(x, y, d, x.sent, x.closed, {})
<1> DEFINE x2 == Became(x, d, x.sent, i, x.max, x.nxt, x.closed)
           y2 == Without(y, {})
<1>0. /\ SetupOk(x, y) /\ Typed(x, y) /\ Typed(y, x) /\ x.closed \in BOOLEAN
      /\ Both(x, y, Syn(x.iss), SynAck(y.iss, x.iss)) /\ x.nxt <= x.nxt
  BY SeenByBoth DEF PairOk, Typed
<1>1. /\ x2.conn = After(d) /\ x2.net = x.net \cup d.out /\ x2.iss = i
      /\ x2.sent = x.sent /\ x2.closed = x.closed
      /\ x2.max = x.max /\ x2.nxt = x.nxt
      /\ y2.conn = y.conn /\ y2.net = y.net /\ y2.iss = y.iss
      /\ y2.max = y.max /\ y2.nxt = y.nxt
      /\ Stays(y, y2)
  BY DEF Became, Without, Stays
<1>2. Typed(x2, y2) /\ Typed(y2, x2)
  BY <1>0, StepTyped
<1> HIDE DEF x2, y2
<1>3. /\ x.net = {} /\ y.net = {} /\ y.conn.state \in Gone /\ NothingYet(x, y)
      /\ x2.net = {Syn(i)} /\ y2.net = {}
  BY <1>0, <1>1 DEF SetupOk
<1>4. Both(x2, y2, Syn(i), SynAck(y.iss, i))
  <2>1. SideOk(x2, y)
    BY <1>1 DEF SideOk, ViewOf
  <2>2. y.conn.state \notin Synchronized \cup {"SYN_RCVD"}
    BY <1>3, Apart DEF Gone
  <2> QED BY <1>0, <1>1, <1>3, <2>1, <2>2, Begins
<1>5. SetupOk(x2, y2)
  BY <1>0, <1>1, <1>3, Apart DEF SetupOk, NothingYet, ToldOfReset, Gone
<1>6. PairOk(x2, y2)
  BY <1>1, <1>2, <1>4, <1>5 DEF PairOk
<1> QED
  BY <1>0, <1>6 DEF ClientGoes, x2, y2

\* The SYN+ACK comes to the client.
LEMMA ClientEstablished ==
    ASSUME NEW x, NEW y, PairOk(x, y), x.conn.state = "SYN_SENT",
           SynAck(y.iss, x.iss) \in y.net, NEW taken,
           NEW d, Fits(x, y, d, x.sent), NEW max, NEW nxt,
           Stepped(d, At(x.sent, x.iss, y), x.max, x.nxt, max, nxt, x.closed),
           After(d).state = "ESTABLISHED", ~ToldOfReset(d)
    PROVE  ClientGoes(x, y, d, x.sent, x.closed, taken)
<1> DEFINE x2 == Became(x, d, x.sent, x.iss, max, nxt, x.closed)
           y2 == Without(y, taken)
<1>0. /\ SetupOk(x, y) /\ Typed(x, y) /\ Typed(y, x) /\ x.closed \in BOOLEAN
      /\ Both(x, y, Syn(x.iss), SynAck(y.iss, x.iss)) /\ x.iss \in SeqNo
      /\ "SYN_SENT" \notin Gone
  BY SeenByBoth DEF PairOk, Typed, Gone
<1>1. /\ x2.conn = After(d) /\ x2.net = x.net \cup d.out /\ x2.iss = x.iss /\ x2.nxt = nxt
      /\ y2.conn = y.conn /\ y2.net = y.net \ taken /\ y2.iss = y.iss
  BY DEF Became, Without
<1>2. Typed(x2, y2) /\ Typed(y2, x2)
  BY <1>0, StepTyped
<1>3. Both(x2, y2, Syn(x.iss), SynAck(y.iss, x.iss))
  BY <1>0, SteppedBoth
<1> HIDE DEF x2, y2
<1>4. /\ x.nxt <= nxt
      /\ \A s \in d.out : "SYN" \notin s.flags
      /\ ~Says(x2.conn.ind, "CONNECTION_RESET")
  BY <1>1, NotFirst DEF Stepped, ToldOfReset
<1>5. Syn(x.iss) \notin x2.net
  <2>1. Syn(x.iss) \notin x.net
    BY <1>0, Apart DEF SetupOk
  <2> QED BY <1>1, <1>4, <2>1, NotFirst
<1>6. y.conn.state \in {"SYN_RCVD", "CLOSED"}
  BY <1>0 DEF SetupOk
<1>7. x2.conn.state \in Synchronized
  BY <1>1 DEF Synchronized
<1>8. SetupOk(x2, y2)
  BY <1>0, <1>1, <1>4, <1>5, <1>6, <1>7, Apart DEF SetupOk
<1>9. PairOk(x2, y2)
  BY <1>1, <1>2, <1>3, <1>8 DEF PairOk
<1> QED
  BY <1>4, <1>9 DEF ClientGoes, x2, y2

\* The server opens.
LEMMA ServerOpens ==
    ASSUME NEW x, NEW y, PairOk(x, y), y.conn.state = "INIT",
           NEW d, Fits(y, x, d, y.sent),
           EndOk(After(d), At(y.sent, y.iss, x), y.max, y.nxt, y.closed),
           After(d).state = "LISTEN", After(d).active = y.conn.active,
           ~ToldOfReset(d), d.out = {}
    PROVE  ServerGoes(x, y, d, y.sent, y.closed, {})
<1> DEFINE y2 == Became(y, d, y.sent, y.iss, y.max, y.nxt, y.closed)
           x2 == Without(x, {})
<1>0. SetupOk(x, y) /\ y.closed \in BOOLEAN
  BY SeenByBoth DEF Typed
<1>1. /\ y2.conn = After(d) /\ y2.net = y.net /\ y2.iss = y.iss
      /\ y2.max = y.max /\ y2.nxt = y.nxt
      /\ x2.conn = x.conn /\ x2.net = x.net /\ x2.iss = x.iss
      /\ x2.max = x.max /\ x2.nxt = x.nxt
      /\ ~Says(y2.conn.ind, "CONNECTION_RESET")
  BY DEF Became, Without, ToldOfReset
<1> HIDE DEF x2, y2
<1>2. SetupOk(x2, y2)
  BY <1>0, <1>1, Apart DEF SetupOk, NothingYet, Gone
<1>3. After(d).state \in Gone
  BY DEF Gone
<1> QED
  BY <1>0, <1>2, <1>3, ServerSetup DEF x2, y2

\* The server leaves before it has a connection.
LEMMA ServerLeaves ==
    ASSUME NEW x, NEW y, PairOk(x, y), y.conn.state \in {"LISTEN", "SYN_RCVD"},
           NEW d, Fits(y, x, d, y.sent), NEW closed \in BOOLEAN, NEW taken,
           EndOk(After(d), At(y.sent, y.iss, x), y.max, y.nxt, closed),
           After(d).state = "CLOSED", \A s \in d.out : Reset(s),
           y.conn.state = "LISTEN" => d.out = {},
           ToldOfReset(d) => Syn(x.iss) \in x.net /\ d.out = {}
    PROVE  ServerGoes(x, y, d, y.sent, closed, taken)
<1> DEFINE y2 == Became(y, d, y.sent, y.iss, y.max, y.nxt, closed)
           x2 == Without(x, taken)
<1>0. SetupOk(x, y) /\ "CLOSED" \in Gone
  BY SeenByBoth DEF Gone
<1>1. /\ y2.conn = After(d) /\ y2.net = y.net \cup d.out /\ y2.iss = y.iss
      /\ y2.max = y.max /\ y2.nxt = y.nxt
      /\ x2.conn = x.conn /\ x2.net = x.net \ taken /\ x2.iss = x.iss
      /\ x2.max = x.max /\ x2.nxt = x.nxt
  BY DEF Became, Without
<1> HIDE DEF x2, y2
<1>2. /\ x.conn.state = "INIT" => x.net = {} /\ y.net = {} /\ NothingYet(x, y)
      /\ Syn(x.iss) \in x.net => y.net = {} /\ x.conn.state \in {"SYN_SENT", "CLOSED"}
  BY <1>0, Apart DEF SetupOk
<1>3. Says(y2.conn.ind, "CONNECTION_RESET") =>
         x.conn.state = "CLOSED" \/ (x.conn.state = "SYN_SENT" /\ y2.net = {})
  BY <1>1, <1>2 DEF ToldOfReset
<1>4. \A s \in d.out : s # SynAck(y.iss, x.iss) /\ Reset(s)
  BY Apart
<1>5. x.conn.state = "INIT" => d.out = {}
  BY <1>0, Apart DEF SetupOk, Gone
<1>6. SetupOk(x2, y2)
  BY <1>0, <1>1, <1>2, <1>3, <1>4, <1>5, Apart DEF SetupOk, NothingYet
<1> QED
  BY <1>0, <1>6, ServerSetup DEF x2, y2

\* The server returns to LISTEN.
LEMMA ServerListens ==
    ASSUME NEW x, NEW y, PairOk(x, y), y.conn.state = "SYN_RCVD",
           NEW d, Fits(y, x, d, y.sent), NEW taken,
           EndOk(After(d), At(y.sent, y.iss, x), y.max, y.nxt, y.closed),
           After(d).state = "LISTEN", ~After(d).active, ~ToldOfReset(d), d.out = {},
           x.conn.state = "SYN_SENT" => y.net = {}
    PROVE  ServerGoes(x, y, d, y.sent, y.closed, taken)
<1> DEFINE y2 == Became(y, d, y.sent, y.iss, y.max, y.nxt, y.closed)
           x2 == Without(x, taken)
<1>0. SetupOk(x, y) /\ y.closed \in BOOLEAN
  BY SeenByBoth DEF Typed
<1>1. /\ y2.conn = After(d) /\ y2.net = y.net /\ y2.iss = y.iss
      /\ y2.max = y.max /\ y2.nxt = y.nxt
      /\ x2.conn = x.conn /\ x2.net = x.net \ taken /\ x2.iss = x.iss
      /\ x2.max = x.max /\ x2.nxt = x.nxt
      /\ ~Says(y2.conn.ind, "CONNECTION_RESET")
  BY DEF Became, Without, ToldOfReset
<1> HIDE DEF x2, y2
<1>2. /\ x.conn.state # "INIT" /\ ~Says(x.conn.ind, "CONNECTION_RESET")
      /\ Syn(x.iss) \in x.net => y.net = {} /\ \A s \in x.net : s = Syn(x.iss)
  BY <1>0, Apart DEF SetupOk, Gone
<1>3. SetupOk(x2, y2)
  BY <1>0, <1>1, <1>2, Apart DEF SetupOk, NothingYet
<1>4. y.conn.state \in Gone => After(d).state \in Gone
  BY DEF Gone
<1> QED
  BY <1>0, <1>3, <1>4, ServerSetup DEF x2, y2

\* A segment comes to a server that has no connection, and starts none.
LEMMA ServerNobody ==
    ASSUME NEW x, NEW y, PairOk(x, y), y.conn.state \in Gone,
           NEW s \in x.net,
           NEW d, Fits(y, x, d, y.sent),
           EndOk(After(d), At(y.sent, y.iss, x), y.max, y.nxt, y.closed),
           After(d).state = y.conn.state,
           y.conn.state # "CLOSED" => After(d).active = y.conn.active,
           ToldOfReset(d) => Says(y.conn.ind, "CONNECTION_RESET"),
           \A r \in d.out : Reset(r)
    PROVE  ServerGoes(x, y, d, y.sent, y.closed, {s})
<1> DEFINE y2 == Became(y, d, y.sent, y.iss, y.max, y.nxt, y.closed)
           x2 == Without(x, {s})
<1>0. SetupOk(x, y) /\ y.closed \in BOOLEAN
  BY SeenByBoth DEF Typed
<1>1. /\ y2.conn = After(d) /\ y2.net = y.net \cup d.out /\ y2.iss = y.iss
      /\ y2.max = y.max /\ y2.nxt = y.nxt
      /\ x2.conn = x.conn /\ x2.net = x.net \ {s} /\ x2.iss = x.iss
      /\ x2.max = x.max /\ x2.nxt = x.nxt
      /\ Says(y2.conn.ind, "CONNECTION_RESET") => Says(y.conn.ind, "CONNECTION_RESET")
  BY DEF Became, Without, ToldOfReset
<1> HIDE DEF x2, y2
<1>2. /\ x.conn.state # "INIT"
      /\ \A r \in d.out : r # SynAck(y.iss, x.iss)
      /\ Syn(x.iss) \in x2.net => Syn(x.iss) \in x.net /\ y.conn.state = "CLOSED"
  BY <1>0, <1>1, Apart DEF SetupOk
<1>3. SetupOk(x2, y2)
  BY <1>0, <1>1, <1>2, Apart DEF SetupOk, NothingYet, Gone
<1> QED
  BY <1>0, <1>3, ServerSetup DEF x2, y2

\* The server stays in SYN_RCVD.
LEMMA ServerWaits ==
    ASSUME NEW x, NEW y, PairOk(x, y), y.conn.state = "SYN_RCVD",
           NEW d, Fits(y, x, d, y.sent), NEW taken,
           EndOk(After(d), At(y.sent, y.iss, x), y.max, y.nxt, y.closed),
           After(d).state = "SYN_RCVD", After(d).active = y.conn.active, ~ToldOfReset(d),
           \A r \in d.out : \/ r = SynAck(y.iss, x.iss)
                            \/ Piece(r, y.sent, y.iss, y.max, x.iss, y.nxt),
           x.net \subseteq taken \/ \E s \in x.net : taken = {s}
    PROVE  ServerGoes(x, y, d, y.sent, y.closed, taken)
<1> DEFINE y2 == Became(y, d, y.sent, y.iss, y.max, y.nxt, y.closed)
           x2 == Without(x, taken)
<1>0. SetupOk(x, y) /\ y.closed \in BOOLEAN
  BY SeenByBoth DEF Typed
<1>1. /\ y2.conn = After(d) /\ y2.net = y.net \cup d.out /\ y2.iss = y.iss
      /\ y2.max = y.max /\ y2.nxt = y.nxt
      /\ x2.conn = x.conn /\ x2.net = x.net \ taken /\ x2.iss = x.iss
      /\ x2.max = x.max /\ x2.nxt = x.nxt
      /\ ~Says(y2.conn.ind, "CONNECTION_RESET")
  BY DEF Became, Without, ToldOfReset
<1> HIDE DEF x2, y2
<1>2. /\ x.conn.state # "INIT" /\ ~Says(x.conn.ind, "CONNECTION_RESET")
      /\ Syn(x.iss) \in x.net => \A s \in x.net : s = Syn(x.iss)
  BY <1>0, Apart DEF SetupOk, Gone
<1>3. Syn(x.iss) \notin x2.net
  BY <1>1, <1>2
<1>4. SetupOk(x2, y2)
  BY <1>0, <1>1, <1>2, <1>3, Apart DEF SetupOk, NothingYet
<1>5. y.conn.state \in Gone => After(d).state \in Gone
  BY DEF Gone
<1> QED
  BY <1>0, <1>4, <1>5, ServerSetup DEF x2, y2

\* The SYN of the client comes to a server that listens.
LEMMA ServerAnswers ==
    ASSUME NEW x, NEW y, PairOk(x, y), y.conn.state = "LISTEN", Syn(x.iss) \in x.net,
           NEW d, Fits(y, x, d, y.sent), NEW i \in SeqNo,
           EndOk(After(d), At(y.sent, i, x), y.max, y.nxt, y.closed),
           After(d).state = "SYN_RCVD", After(d).active = y.conn.active,
           ~ToldOfReset(d), d.out = {SynAck(i, x.iss)}
    PROVE  ServerGoes(x, y, d, y.sent, y.closed, {Syn(x.iss)})
<1> DEFINE y2 == Became(y, d, y.sent, i, y.max, y.nxt, y.closed)
           x2 == Without(x, {Syn(x.iss)})
<1>0. /\ SetupOk(x, y) /\ Typed(x, y) /\ Typed(y, x) /\ y.closed \in BOOLEAN
      /\ Both(y, x, SynAck(y.iss, x.iss), Syn(x.iss)) /\ y.nxt <= y.nxt
  BY SeenByBoth DEF Both, Typed
<1>1. /\ y2.conn = After(d) /\ y2.net = y.net \cup d.out /\ y2.iss = i
      /\ y2.sent = y.sent /\ y2.closed = y.closed
      /\ y2.max = y.max /\ y2.nxt = y.nxt
      /\ x2.conn = x.conn /\ x2.net = x.net \ {Syn(x.iss)} /\ x2.iss = x.iss
      /\ x2.max = x.max /\ x2.nxt = x.nxt
      /\ Stays(x, x2)
  BY DEF Became, Without, Stays
<1>2. Typed(x2, y2) /\ Typed(y2, x2)
  BY <1>0, StepTyped
<1> HIDE DEF x2, y2
<1>3. /\ x.conn.state \in {"SYN_SENT", "CLOSED"} /\ NothingYet(x, y)
      /\ x2.net = {} /\ y2.net = {SynAck(i, x.iss)}
      /\ ~Says(x.conn.ind, "CONNECTION_RESET")
  BY <1>0, <1>1 DEF SetupOk
<1>4. Both(x2, y2, Syn(x.iss), SynAck(i, x.iss))
  <2>1. SideOk(y2, x)
    BY <1>1 DEF SideOk, ViewOf
  <2>2. x.conn.state \notin Synchronized \cup {"SYN_RCVD"}
    BY <1>3, Apart
  <2>3. Both(y2, x2, SynAck(i, x.iss), Syn(x.iss))
    BY <1>0, <1>1, <1>3, <2>1, <2>2, Begins
  <2> QED BY <2>3 DEF Both
<1>5. SetupOk(x2, y2)
  BY <1>0, <1>1, <1>3, Apart DEF SetupOk, NothingYet, ToldOfReset, Gone
<1>6. PairOk(x2, y2)
  BY <1>1, <1>2, <1>4, <1>5 DEF PairOk
<1> QED
  BY <1>0, <1>6 DEF ServerGoes, x2, y2

\* The pair, seen from either of its ends, and its invariant after a step of this one.
Linked(a, b) == PairOk(a, b) \/ PairOk(b, a)
Goes(a, b, d, n, closed, taken) ==
    /\ PairOk(a, b) => ClientGoes(a, b, d, n, closed, taken)
    /\ PairOk(b, a) => ServerGoes(b, a, d, n, closed, taken)

\* What an end sees, from either side.
LEMMA LinkedSeen ==
    ASSUME NEW a, NEW b, Linked(a, b)
    PROVE  LET v == At(a.sent, a.iss, b)
           IN  /\ v \in View
               /\ v.sent = a.sent /\ v.iss = a.iss /\ v.peerSent = b.sent /\ v.peerIss = b.iss
               /\ v.peerMax = b.max /\ v.peerNxt = b.nxt
               /\ a.closed \in BOOLEAN
               /\ a.conn \in Connection(v.sent, v.peerSent)
               /\ EndOk(a.conn, v, a.max, a.nxt, a.closed)
<1>1. Typed(a, b) /\ Typed(b, a) /\ SideOk(a, b) /\ SideOk(b, a)
  BY SeenByBoth DEF Linked
<1> QED
  BY <1>1, Seen

\* A step of an end that has a connection.
LEMMA SyncGoes ==
    ASSUME NEW a, NEW b, Linked(a, b), a.conn.state \in Synchronized,
           NEW d, NEW n, Fits(a, b, d, n), n = a.sent \/ (n = a.sent + 1 /\ ~a.closed),
           NEW max, NEW nxt, NEW closed \in BOOLEAN, NEW taken,
           Stepped(d, At(n, a.iss, b), a.max, a.nxt, max, nxt, closed),
           ToldOfReset(d) => After(d).state = "CLOSED" /\ b.conn.state \in Gone
    PROVE  Goes(a, b, d, n, closed, taken)
<1>1. ASSUME PairOk(a, b) PROVE ClientGoes(a, b, d, n, closed, taken)
  BY <1>1, ClientSync
<1>2. ASSUME PairOk(b, a) PROVE ServerGoes(b, a, d, n, closed, taken)
  <2>1. SetupOk(b, a)
    BY <1>2, SeenByBoth
  <2>2. b.conn.state \in Synchronized \cup {"CLOSED"} /\ Syn(b.iss) \notin b.net
    BY <2>1, Apart DEF SetupOk, Gone
  <2>3. ServerStep(b, a, d, n, max, nxt, closed)
    BY <1>2, <2>2 DEF ServerStep
  <2> QED BY <2>3, ServerSync
<1> QED
  BY <1>1, <1>2 DEF Goes

\* What comes to an end that has a connection.
LEMMA SyncArrives ==
    ASSUME NEW a, NEW b, Linked(a, b), a.conn.state \in Synchronized, NEW s \in b.net
    PROVE  LET v == At(a.sent, a.iss, b)
           IN  /\ Reset(s) \/ Theirs(s, v) \/ s = SynAck(v.peerIss, v.iss)
               /\ Reset(s) => b.conn.state \in Gone
               /\ s \in Segment(0 .. v.peerSent)
<1> DEFINE v == At(a.sent, a.iss, b)
<1>1. /\ v.sent = a.sent /\ v.iss = a.iss /\ v.peerSent = b.sent /\ v.peerIss = b.iss
      /\ v.peerMax = b.max /\ v.peerNxt = b.nxt
  BY DEF At
<1> HIDE DEF v
<1>2. s \in Segment(0 .. v.peerSent)
  BY <1>1, SeenByBoth DEF Linked, Typed
<1>3. \/ s = SynAck(b.iss, a.iss)
      \/ Reset(s) /\ b.conn.state \in Gone
      \/ Piece(s, b.sent, b.iss, b.max, a.iss, b.nxt)
  <2>1. CASE PairOk(a, b)
    <3>1. InFlight(b, a, SynAck(b.iss, a.iss))
      BY <2>1, SeenByBoth
    <3> QED BY <3>1 DEF InFlight
  <2>2. CASE PairOk(b, a)
    <3>1. InFlight(b, a, Syn(b.iss)) /\ SetupOk(b, a)
      BY <2>2, SeenByBoth
    <3>2. Syn(b.iss) \notin b.net
      BY <3>1 DEF SetupOk
    <3> QED BY <3>1, <3>2 DEF InFlight
  <2> QED BY <2>1, <2>2 DEF Linked
<1>4. Reset(s) => b.conn.state \in Gone
  BY <1>3, Apart
<1> QED
  BY <1>1, <1>2, <1>3, <1>4 DEF Theirs, v

\* A segment.
LEMMA SyncSegmentGoes ==
    ASSUME NEW a, NEW b, Linked(a, b), a.conn.state \in Synchronized,
           Window(a.conn, a.conn.state), NEW s \in b.net, NEW win \in Windows,
           NEW d, d = process_RCV_SEGMENT(a.conn, s, win), Fits(a, b, d, a.sent)
    PROVE  Goes(a, b, d, a.sent, a.closed, {s})
<1> DEFINE v == At(a.sent, a.iss, b)
           c == a.conn
<1>1. /\ v \in View /\ a.closed \in BOOLEAN /\ c \in Connection(v.sent, v.peerSent)
      /\ EndOk(c, v, a.max, a.nxt, a.closed)
  BY LinkedSeen
<1>2. /\ Reset(s) \/ Theirs(s, v) \/ s = SynAck(v.peerIss, v.iss)
      /\ Reset(s) => b.conn.state \in Gone
      /\ s \in Segment(0 .. v.peerSent)
  BY SyncArrives
<1> HIDE DEF v
<1>3. /\ c.state \in Synchronized /\ Window(c, c.state)
      /\ d = process_RCV_SEGMENT(c, s, win)
  OBVIOUS
<1> HIDE DEF c
<1>4. /\ \E max2, nxt2 : Stepped(d, v, a.max, a.nxt, max2, nxt2, a.closed)
      /\ ToldOfReset(d) => Reset(s) /\ After(d).state = "CLOSED"
  BY <1>1, <1>2, <1>3, SyncSegment
<1>5. PICK max2, nxt2 : Stepped(d, v, a.max, a.nxt, max2, nxt2, a.closed)
  BY <1>4
<1>6. ToldOfReset(d) => After(d).state = "CLOSED" /\ b.conn.state \in Gone
  BY <1>2, <1>4
<1> QED
  BY <1>1, <1>5, <1>6, SyncGoes DEF v

\* A connection that is established: its numbers are those of the pair.
LEMMA SyncFlow ==
    ASSUME NEW c, NEW v, NEW max, NEW nxt, NEW closed, EndOk(c, v, max, nxt, closed),
           c.state \in Synchronized
    PROVE  /\ Flow(c, v) /\ Control(c, v) /\ Top(c, v) = max /\ Rcv(c, v) = nxt
           /\ c.send_fin <=> closed
           /\ c.out = {}
BY DEF EndOk, Live

\* SEND.
LEMMA SyncSendGoes ==
    ASSUME NEW a, NEW b, Linked(a, b), a.conn.state \in {"ESTABLISHED", "CLOSE_WAIT"},
           ~a.closed, NEW win \in Windows,
           NEW d, d = process_SEND(a.conn, a.sent + 1, win), Fits(a, b, d, a.sent + 1)
    PROVE  Goes(a, b, d, a.sent + 1, a.closed, {})
<1> DEFINE v == At(a.sent, a.iss, b)
           w == At(a.sent + 1, a.iss, b)
           c == a.conn
<1>1. /\ v \in View /\ a.closed \in BOOLEAN /\ c \in Connection(v.sent, v.peerSent)
      /\ EndOk(c, v, a.max, a.nxt, a.closed) /\ v.sent = a.sent
  BY LinkedSeen
<1>2. /\ w.sent = v.sent + 1 /\ w.iss = v.iss /\ w.peerSent = v.peerSent
      /\ w.peerIss = v.peerIss /\ w.peerMax = v.peerMax /\ w.peerNxt = v.peerNxt
  BY DEF At
<1>3. w \in View
  BY <1>1 DEF View, At, Fits
<1>4. c.state \in {"ESTABLISHED", "CLOSE_WAIT"} /\ c.state \in Synchronized
  BY DEF Synchronized
<1>5. d = process_SEND(c, v.sent + 1, win)
  BY <1>1
<1> HIDE DEF v, w, c
<1>6. /\ Flow(c, v) /\ Control(c, v) /\ Top(c, v) = a.max /\ Rcv(c, v) = a.nxt
      /\ ~c.send_fin /\ c.out = {}
  BY <1>1, <1>4, SyncFlow
<1>7. /\ Stepped(d, w, Top(c, v), Rcv(c, v), Top(d, w), Rcv(d, w), FALSE)
      /\ ~ToldOfReset(d)
  <2>1. /\ v \in View /\ w \in View
        /\ w.sent = v.sent + 1 /\ w.iss = v.iss /\ w.peerSent = v.peerSent
        /\ w.peerIss = v.peerIss /\ w.peerMax = v.peerMax /\ w.peerNxt = v.peerNxt
        /\ Flow(c, v) /\ c.state \in {"ESTABLISHED", "CLOSE_WAIT"} /\ Control(c, v)
        /\ ~c.send_fin /\ c.out = {} /\ win \in Windows
    BY <1>1, <1>2, <1>3, <1>4, <1>6
  <2> DEFINE f == process_SEND(c, v.sent + 1, win)
  <2>2. /\ Stepped(f, w, Top(c, v), Rcv(c, v), Top(f, w), Rcv(f, w), FALSE)
        /\ ~ToldOfReset(f)
    BY <2>1, SendLive
  <2>3. d = f
    BY <1>5
  <2> HIDE DEF f
  <2> QED BY <2>2, <2>3
<1>8. Stepped(d, w, a.max, a.nxt, Top(d, w), Rcv(d, w), a.closed)
  <2>1. a.closed = FALSE
    BY <1>1
  <2> QED BY <1>6, <1>7, <2>1
<1> QED
  BY <1>1, <1>4, <1>7, <1>8, SyncGoes DEF w, c

\* CLOSE.
LEMMA SyncCloseGoes ==
    ASSUME NEW a, NEW b, Linked(a, b), a.conn.state \in {"ESTABLISHED", "CLOSE_WAIT"},
           ~a.closed,
           NEW d, d = process_CLOSE(a.conn), Fits(a, b, d, a.sent)
    PROVE  Goes(a, b, d, a.sent, TRUE, {})
<1> DEFINE v == At(a.sent, a.iss, b)
           c == a.conn
<1>1. /\ v \in View /\ a.closed \in BOOLEAN
      /\ EndOk(c, v, a.max, a.nxt, a.closed)
  BY LinkedSeen
<1>4. c.state \in {"ESTABLISHED", "CLOSE_WAIT"} /\ c.state \in Synchronized
  BY DEF Synchronized
<1>5. d = process_CLOSE(c)
  OBVIOUS
<1> HIDE DEF v, c
<1>6. /\ Flow(c, v) /\ Control(c, v) /\ Top(c, v) = a.max /\ Rcv(c, v) = a.nxt
      /\ ~c.send_fin /\ c.out = {}
  BY <1>1, <1>4, SyncFlow
<1>7. /\ Stepped(d, v, a.max, a.nxt, Top(d, v), Rcv(d, v), TRUE)
      /\ ~ToldOfReset(d)
  BY <1>1, <1>4, <1>5, <1>6, CloseLive
<1> QED
  BY <1>4, <1>7, SyncGoes DEF v, c

\* The REXMIT timer, and the 2MSL timer.
LEMMA SyncTimerGoes ==
    ASSUME NEW a, NEW b, Linked(a, b), a.conn.state \in Synchronized,
           NEW d,
           \/ a.conn.rexmitTimer /\ d = processRexmitTimer(a.conn)
           \/ /\ a.conn.the2MSLTimer > 0
              /\ d = IF a.conn.the2MSLTimer > 1
                     THEN [a.conn EXCEPT !.the2MSLTimer = @ - 1]
                     ELSE process_TIMEOUT_2MSL(a.conn),
           Fits(a, b, d, a.sent)
    PROVE  Goes(a, b, d, a.sent, a.closed, {})
<1> DEFINE v == At(a.sent, a.iss, b)
           c == a.conn
<1>1. /\ v \in View /\ a.closed \in BOOLEAN
      /\ EndOk(c, v, a.max, a.nxt, a.closed) /\ c.state \in Synchronized
  BY LinkedSeen
<1>2. \/ c.rexmitTimer /\ d = processRexmitTimer(c)
      \/ /\ c.the2MSLTimer > 0
         /\ d = IF c.the2MSLTimer > 1
                THEN [c EXCEPT !.the2MSLTimer = @ - 1]
                ELSE process_TIMEOUT_2MSL(c)
  OBVIOUS
<1> HIDE DEF v, c
<1>3. Stepped(d, v, a.max, a.nxt, a.max, a.nxt, a.closed) /\ ~ToldOfReset(d)
  <2>1. CASE c.rexmitTimer /\ d = processRexmitTimer(c)
    BY <1>1, <2>1, RexmitLive
  <2>2. CASE /\ c.the2MSLTimer > 0
             /\ d = IF c.the2MSLTimer > 1
                    THEN [c EXCEPT !.the2MSLTimer = @ - 1]
                    ELSE process_TIMEOUT_2MSL(c)
    BY <1>1, <2>2, TwoMslLive
  <2> QED BY <1>2, <2>1, <2>2
<1> QED
  BY <1>1, <1>3, SyncGoes DEF v, c

\* ABORT of a connection.
LEMMA SyncAbortGoes ==
    ASSUME NEW a, NEW b, Linked(a, b), a.conn.state \in Synchronized,
           NEW d, d = process_ABORT(a.conn), Fits(a, b, d, a.sent)
    PROVE  Goes(a, b, d, a.sent, a.closed, {})
<1> DEFINE v == At(a.sent, a.iss, b)
           c == a.conn
<1>1. /\ v \in View /\ a.closed \in BOOLEAN /\ c \in Connection(v.sent, v.peerSent)
      /\ EndOk(c, v, a.max, a.nxt, a.closed) /\ c.state \in Synchronized
  BY LinkedSeen
<1>2. d = process_ABORT(c) /\ c.state \notin {"INIT", "CLOSED"}
  BY <1>1, Apart
<1> HIDE DEF v, c
<1>3. ~Says(c.ind, "CONNECTION_RESET")
  BY <1>1, SyncFlow DEF Control, ToldRight
<1>4. Stepped(d, v, a.max, a.nxt, a.max, a.nxt, a.closed) /\ ~ToldOfReset(d)
  BY <1>1, <1>2, <1>3, AbortEnd
<1> QED
  BY <1>1, <1>4, SyncGoes DEF v, c

\* ABORT before there is a connection, in states in which no reset is sent.
LEMMA AbortEarly ==
    ASSUME NEW v \in View, NEW max, NEW nxt, NEW closed,
           NEW c \in Connection(v.sent, v.peerSent), EndOk(c, v, max, nxt, closed),
           c.state \in {"LISTEN", "SYN_SENT"}
    PROVE  LET d == process_ABORT(c)
           IN  /\ EndOk(After(d), v, max, nxt, closed) /\ After(d).state = "CLOSED"
               /\ d.out = {} /\ ~ToldOfReset(d)
<1> DEFINE d == performStateTransition(c, "ABORT")
<1>1. process_ABORT(c) = d
  BY DEF process_ABORT
<1>2. Warned(c, c) /\ c.state # "CLOSED" /\ c.out = {}
  BY DEF EndOk, Warned
<1>3. NextState(c, "ABORT") = "CLOSED"
  BY DEF NextState, Synchronized
<1>4. ~Says(c.ind, "CONNECTION_RESET")
  BY DEF EndOk, Blank, Beginning
<1>5. /\ d.out = c.out
      /\ EndOk(After(d), v, max, nxt, closed) /\ After(d).state = "CLOSED"
      /\ ToldOfReset(d) <=> Says(c.ind, "CONNECTION_RESET")
  BY <1>2, <1>3, ShutEnd
<1> HIDE DEF d
<1> QED
  BY <1>1, <1>2, <1>4, <1>5

\* The commands of the client's application before there is a connection.
LEMMA ClientOpen ==
    ASSUME NEW x, NEW y, PairOk(x, y), x.conn.state = "INIT",
           NEW d, d = process_OPEN_ACTIVE(x.conn), Fits(x, y, d, x.sent)
    PROVE  ClientGoes(x, y, d, x.sent, x.closed, {})
<1> DEFINE v == At(x.sent, x.iss, y)
           c == x.conn
           i == NextIss(c)
           w == At(x.sent, i, y)
<1>1. /\ v \in View /\ x.closed \in BOOLEAN /\ c \in Connection(v.sent, v.peerSent)
      /\ EndOk(c, v, x.max, x.nxt, x.closed)
  BY LinkedSeen DEF Linked
<1>2. i \in SeqNo
  <2>1. c.iss \in SeqNo /\ IssStep \in SeqNo
    BY <1>1, ConnectionTypes, SeqConstants
  <2> QED BY <2>1, PlusType DEF NextIss
<1>3. /\ w.sent = v.sent /\ w.iss = i /\ w.peerSent = v.peerSent
      /\ w.peerIss = v.peerIss /\ w.peerMax = v.peerMax /\ w.peerNxt = v.peerNxt
  BY DEF At
<1>4. w \in View
  BY <1>1, <1>2 DEF View, At
<1>5. d = process_OPEN_ACTIVE(c) /\ c.state = "INIT"
  OBVIOUS
<1> HIDE DEF v, w, c
<1>6. /\ EndOk(After(d), w, x.max, x.nxt, x.closed) /\ After(d).state = "SYN_SENT"
      /\ ~ToldOfReset(d) /\ d.out = {Syn(w.iss)}
  BY <1>1, <1>3, <1>4, <1>5, OpenActiveEnd
<1> HIDE DEF i
<1> QED
  BY <1>2, <1>3, <1>6, ClientOpens DEF w

\* See ClientOpen.
LEMMA ClientSend ==
    ASSUME NEW x, NEW y, PairOk(x, y), x.conn.state = "SYN_SENT", ~x.closed, NEW win,
           NEW d, d = process_SEND(x.conn, x.sent + 1, win), Fits(x, y, d, x.sent + 1)
    PROVE  ClientGoes(x, y, d, x.sent + 1, x.closed, {})
<1> DEFINE v == At(x.sent, x.iss, y)
           c == x.conn
           w == At(x.sent + 1, x.iss, y)
<1>1. /\ v \in View /\ x.closed \in BOOLEAN /\ c \in Connection(v.sent, v.peerSent)
      /\ EndOk(c, v, x.max, x.nxt, x.closed) /\ v.sent = x.sent
  BY LinkedSeen DEF Linked
<1>2. /\ w.sent = v.sent + 1 /\ w.iss = v.iss /\ w.peerSent = v.peerSent
      /\ w.peerIss = v.peerIss /\ w.peerMax = v.peerMax /\ w.peerNxt = v.peerNxt
  BY DEF At
<1>3. w \in View
  BY <1>1 DEF View, At, Fits
<1>4. d = process_SEND(c, v.sent + 1, win) /\ c.state = "SYN_SENT"
  BY <1>1
<1> HIDE DEF v, w, c
<1>5. /\ EndOk(After(d), w, x.max, x.nxt, x.closed) /\ After(d).state = "SYN_SENT"
      /\ ~ToldOfReset(d) /\ d.out = {}
  <2> DEFINE f == process_SEND(c, v.sent + 1, win)
  <2>1. /\ EndOk(After(f), w, x.max, x.nxt, x.closed) /\ After(f).state = "SYN_SENT"
        /\ ~ToldOfReset(f) /\ f.out = {}
    BY <1>1, <1>2, <1>3, <1>4, SynSentSendEnd
  <2>2. d = f
    BY <1>4
  <2> HIDE DEF f
  <2> QED BY <2>1, <2>2
<1> QED
  BY <1>1, <1>5, ClientWaits DEF w

\* See ClientOpen.
LEMMA ClientEnds ==
    ASSUME NEW x, NEW y, PairOk(x, y), x.conn.state = "SYN_SENT",
           NEW d, d \in {process_CLOSE(x.conn), process_ABORT(x.conn)},
           Fits(x, y, d, x.sent)
    PROVE  /\ d = process_CLOSE(x.conn) => ClientGoes(x, y, d, x.sent, TRUE, {})
           /\ d = process_ABORT(x.conn) => ClientGoes(x, y, d, x.sent, x.closed, {})
<1> DEFINE v == At(x.sent, x.iss, y)
           c == x.conn
<1>1. /\ v \in View /\ x.closed \in BOOLEAN /\ c \in Connection(v.sent, v.peerSent)
      /\ EndOk(c, v, x.max, x.nxt, x.closed)
  BY LinkedSeen DEF Linked
<1>2. c.state \in {"LISTEN", "SYN_SENT"}
  OBVIOUS
<1> HIDE DEF v
<1>3. ASSUME d = process_CLOSE(c) PROVE ClientGoes(x, y, d, x.sent, TRUE, {})
  <2>1. /\ EndOk(After(d), v, x.max, x.nxt, TRUE) /\ d.out = {}
        /\ After(d).state = "CLOSED" /\ ~ToldOfReset(d)
    <3> HIDE DEF c
    <3> DEFINE f == process_CLOSE(c)
    <3>1. /\ EndOk(After(f), v, x.max, x.nxt, TRUE) /\ f.out = {}
          /\ After(f).state = "CLOSED" /\ ~ToldOfReset(f)
      BY <1>1, <1>2, CloseEarly
    <3> HIDE DEF f
    <3> QED BY <1>3, <3>1 DEF f
  <2> QED BY <2>1, ClientLeaves DEF v
<1>4. ASSUME d = process_ABORT(c) PROVE ClientGoes(x, y, d, x.sent, x.closed, {})
  <2>1. /\ EndOk(After(d), v, x.max, x.nxt, x.closed) /\ After(d).state = "CLOSED"
        /\ d.out = {} /\ ~ToldOfReset(d)
    <3> HIDE DEF c
    <3> QED BY <1>1, <1>2, <1>4, AbortEarly
  <2> QED BY <1>1, <2>1, ClientLeaves DEF v
<1> QED
  BY <1>3, <1>4

\* The timers of connection setup, when nothing is on its way.
LEMMA ClientTimer ==
    ASSUME NEW x, NEW y, PairOk(x, y), x.conn.state = "SYN_SENT", y.net = {},
           NEW d,
           d \in {process_TIMEOUT_CONN_ESTAB([x.conn EXCEPT !.connEstabTimer = FALSE]),
                  process_TIMEOUT_SYN_REXMIT(x.conn)},
           Fits(x, y, d, x.sent)
    PROVE  ClientGoes(x, y, d, x.sent, x.closed, {})
<1> DEFINE v == At(x.sent, x.iss, y)
           c == x.conn
<1>1. /\ v \in View /\ x.closed \in BOOLEAN /\ c \in Connection(v.sent, v.peerSent)
      /\ EndOk(c, v, x.max, x.nxt, x.closed) /\ v.iss = x.iss
  BY LinkedSeen DEF Linked
<1>2. c.state \in Setting /\ c.state = "SYN_SENT"
  BY DEF Setting
<1>3. CASE d = process_TIMEOUT_CONN_ESTAB([c EXCEPT !.connEstabTimer = FALSE])
  <2>1. /\ EndOk(After(d), v, x.max, x.nxt, x.closed) /\ d.out = {} /\ ~ToldOfReset(d)
        /\ After(d).state = (IF c.state = "SYN_SENT" THEN "CLOSED" ELSE "LISTEN")
    <3> HIDE DEF v, c
    <3> DEFINE f == process_TIMEOUT_CONN_ESTAB([c EXCEPT !.connEstabTimer = FALSE])
    <3>0. /\ v \in View /\ c \in Connection(v.sent, v.peerSent)
          /\ EndOk(c, v, x.max, x.nxt, x.closed) /\ c.state \in Setting
          /\ c.state = "SYN_RCVD" => ~c.active
      BY <1>1, <1>2
    <3>1. /\ EndOk(After(f), v, x.max, x.nxt, x.closed) /\ f.out = {} /\ ~ToldOfReset(f)
          /\ After(f).state = (IF c.state = "SYN_SENT" THEN "CLOSED" ELSE "LISTEN")
          /\ c.state = "SYN_RCVD" => ~After(f).active
      BY <3>0, ConnEstabEnd
    <3>2. d = f
      BY <1>3
    <3> HIDE DEF f
    <3> QED BY <3>1, <3>2
  <2> HIDE DEF v
  <2>2. After(d).state = "CLOSED"
    BY <1>2, <2>1
  <2> QED BY <1>1, <2>1, <2>2, ClientLeaves DEF v
<1>4. CASE d = process_TIMEOUT_SYN_REXMIT(c)
  <2>1. /\ EndOk(After(d), v, x.max, x.nxt, x.closed) /\ ~ToldOfReset(d)
        /\ \/ After(d).state = "CLOSED" /\ d.out = {}
           \/ /\ After(d).state = "SYN_SENT"
              /\ d.out = {Syn(x.iss)}
    <3> HIDE DEF v, c
    <3> DEFINE f == process_TIMEOUT_SYN_REXMIT(c)
    <3>0. /\ v \in View /\ x.closed \in BOOLEAN /\ c \in Connection(v.sent, v.peerSent)
          /\ EndOk(c, v, x.max, x.nxt, x.closed) /\ c.state \in Setting
      BY <1>1, <1>2
    <3>1. /\ EndOk(After(f), v, x.max, x.nxt, x.closed) /\ ~ToldOfReset(f)
          /\ \/ After(f).state = "CLOSED" /\ f.out = {}
             \/ /\ After(f).state = c.state /\ After(f).active = c.active
                /\ f.out = IF c.state = "SYN_SENT" THEN {Syn(v.iss)}
                           ELSE {SynAck(v.iss, v.peerIss)}
      BY ONLY <3>0, SynRexmitEnd
    <3>2. d = f
      BY <1>4
    <3> HIDE DEF f
    <3> QED BY <1>1, <1>2, <3>1, <3>2
  <2> HIDE DEF v
  <2>2. CASE After(d).state = "CLOSED" /\ d.out = {}
    BY <1>1, <2>1, <2>2, ClientLeaves DEF v
  <2>3. CASE After(d).state = "SYN_SENT" /\ d.out = {Syn(x.iss)}
    BY <1>1, <2>1, <2>3, ClientWaits DEF v
  <2> QED BY <2>1, <2>2, <2>3
<1> QED
  BY <1>3, <1>4

\* A segment.
LEMMA ClientSegment ==
    ASSUME NEW x, NEW y, PairOk(x, y), Window(x.conn, x.conn.state),
           NEW s \in y.net, NEW win \in Windows,
           NEW d, d = process_RCV_SEGMENT(x.conn, s, win), Fits(x, y, d, x.sent)
    PROVE  ClientGoes(x, y, d, x.sent, x.closed, {s})
<1> DEFINE v == At(x.sent, x.iss, y)
           c == x.conn
<1>1. /\ v \in View /\ x.closed \in BOOLEAN /\ c \in Connection(v.sent, v.peerSent)
      /\ EndOk(c, v, x.max, x.nxt, x.closed)
      /\ v.iss = x.iss /\ v.sent = x.sent /\ v.peerSent = y.sent /\ v.peerIss = y.iss
      /\ v.peerMax = y.max /\ v.peerNxt = y.nxt
  BY LinkedSeen DEF Linked
<1>2. /\ SetupOk(x, y) /\ InFlight(y, x, SynAck(y.iss, x.iss))
      /\ s \in Segment(0 .. v.peerSent)
  BY <1>1, SeenByBoth DEF Typed
<1>3. d = process_RCV_SEGMENT(c, s, win)
  OBVIOUS
<1> HIDE DEF v
<1>4. CASE c.state \in Synchronized
  <2>1. Goes(x, y, d, x.sent, x.closed, {s})
    BY <1>4, SyncSegmentGoes DEF Linked
  <2> QED BY <2>1 DEF Goes
<1>5. CASE c.state \in {"INIT", "CLOSED"}
  <2>1. /\ EndOk(After(d), v, x.max, x.nxt, x.closed) /\ After(d).state = c.state
        /\ After(d).ind = c.ind
        /\ \A r \in d.out : Reset(r)
    <3> HIDE DEF c
    <3> QED BY <1>1, <1>2, <1>3, <1>5, NobodyThere
  <2> QED BY <1>5, <2>1, ClientNobody DEF v
<1>6. CASE c.state = "SYN_SENT" /\ s = SynAck(y.iss, x.iss)
  <2>1. v.peerNxt = 1 /\ c.state = "SYN_SENT"
    BY <1>1, <1>2, <1>6 DEF SetupOk, NothingYet
  <2>2. d = process_RCV_SEGMENT(c, SynAck(v.peerIss, v.iss), win)
    BY <1>1, <1>3, <1>6
  <2>3. /\ Stepped(d, v, x.max, x.nxt, Top(d, v), Rcv(d, v), x.closed)
        /\ ~ToldOfReset(d) /\ After(d).state = "ESTABLISHED"
    <3> HIDE DEF c
    <3> QED BY <1>1, <2>1, <2>2, SynAckEstablishes
  <2> QED BY <1>6, <2>3, ClientEstablished DEF v
<1>7. CASE c.state = "SYN_SENT" /\ s # SynAck(y.iss, x.iss)
  <2>1. v.peerNxt = 1 /\ c.state = "SYN_SENT"
    BY <1>1, <1>2, <1>7 DEF SetupOk, NothingYet
  <2>2. Reset(s) \/ Theirs(s, v)
    BY <1>1, <1>2, <1>7 DEF InFlight, Theirs
  <2>3. /\ EndOk(After(d), v, x.max, x.nxt, x.closed) /\ d.out = {}
        /\ \/ After(d).state = "SYN_SENT" /\ ~ToldOfReset(d)
           \/ After(d).state = "CLOSED" /\ Reset(s)
    <3> HIDE DEF c
    <3> DEFINE f == process_RCV_SEGMENT(c, s, win)
    <3>0. /\ v \in View /\ x.closed \in BOOLEAN /\ c \in Connection(v.sent, v.peerSent)
          /\ EndOk(c, v, x.max, x.nxt, x.closed) /\ c.state = "SYN_SENT" /\ v.peerNxt = 1
          /\ s \in Segment(0 .. v.peerSent) /\ (Reset(s) \/ Theirs(s, v))
      BY <1>1, <1>2, <2>1, <2>2
    <3>1. /\ EndOk(After(f), v, x.max, x.nxt, x.closed) /\ f.out = {}
          /\ \/ After(f).state = "SYN_SENT" /\ ~ToldOfReset(f)
             \/ After(f).state = "CLOSED" /\ Reset(s)
      BY <3>0, SynSentOther
    <3>2. d = f
      BY <1>3
    <3> HIDE DEF f
    <3> QED BY <3>1, <3>2
  <2>4. CASE After(d).state = "SYN_SENT" /\ ~ToldOfReset(d)
    BY <1>1, <1>7, <2>3, <2>4, ClientWaits DEF v
  <2>5. CASE After(d).state = "CLOSED" /\ Reset(s)
    BY <1>1, <1>7, <2>3, <2>5, ClientLeaves DEF v
  <2> QED BY <2>3, <2>4, <2>5
<1> QED
  BY <1>2, <1>4, <1>5, <1>6, <1>7 DEF SetupOk

\* ABORT in SYN_RCVD: a reset is sent.
LEMMA AbortReceived ==
    ASSUME NEW v \in View, NEW max, NEW nxt, NEW closed,
           NEW c \in Connection(v.sent, v.peerSent), EndOk(c, v, max, nxt, closed),
           c.state = "SYN_RCVD"
    PROVE  LET d == process_ABORT(c)
           IN  /\ EndOk(After(d), v, max, nxt, closed) /\ After(d).state = "CLOSED"
               /\ (\A r \in d.out : Reset(r)) /\ ~ToldOfReset(d)
<1> DEFINE b == sendRst(c, c.snd_nxt)
           d == performStateTransition(b, "ABORT")
<1>1. process_ABORT(c) = d
  BY DEF process_ABORT
<1>2. v.sent \in Nat /\ c.snd_nxt \in SeqNo
  BY ViewTypes, ConnectionTypes
<1>3. /\ b \in Connection(v.sent, v.peerSent) /\ SameStart(c, b) /\ b.state = c.state
      /\ \A r \in b.out : r \in c.out \/ Reset(r)
  BY <1>2, RstFields
<1> HIDE DEF b
<1>4. /\ Warned(c, b) /\ c.state # "CLOSED" /\ c.out = {} /\ b.ind = c.ind
  BY <1>3 DEF EndOk, Warned, SameStart, SameBlank
<1>5. NextState(b, "ABORT") = "CLOSED"
  BY <1>3 DEF NextState, Synchronized
<1>6. ~Says(c.ind, "CONNECTION_RESET")
  BY DEF EndOk, Blank, Beginning
<1>7. /\ d.out = b.out
      /\ EndOk(After(d), v, max, nxt, closed) /\ After(d).state = "CLOSED"
      /\ ToldOfReset(d) <=> Says(b.ind, "CONNECTION_RESET")
  BY <1>3, <1>4, <1>5, ShutEnd
<1> HIDE DEF d
<1> QED
  BY <1>1, <1>3, <1>4, <1>6, <1>7

\* The commands of the server's application before there is a connection.
LEMMA ServerOpen ==
    ASSUME NEW x, NEW y, PairOk(x, y), y.conn.state = "INIT",
           NEW d, d = process_OPEN_PASSIVE(y.conn), Fits(y, x, d, y.sent)
    PROVE  ServerGoes(x, y, d, y.sent, y.closed, {})
<1> DEFINE v == At(y.sent, y.iss, x)
           c == y.conn
<1>1. /\ v \in View /\ y.closed \in BOOLEAN /\ c \in Connection(v.sent, v.peerSent)
      /\ EndOk(c, v, y.max, y.nxt, y.closed)
  BY LinkedSeen DEF Linked
<1>2. d = process_OPEN_PASSIVE(c) /\ c.state = "INIT"
  OBVIOUS
<1> HIDE DEF v
<1>3. /\ EndOk(After(d), v, y.max, y.nxt, y.closed) /\ After(d).state = "LISTEN"
      /\ After(d).active = c.active
      /\ ~ToldOfReset(d) /\ d.out = {}
  <2> HIDE DEF c
  <2> DEFINE f == process_OPEN_PASSIVE(c)
  <2>1. /\ EndOk(After(f), v, y.max, y.nxt, y.closed) /\ After(f).state = "LISTEN"
        /\ After(f).active = c.active
        /\ ~ToldOfReset(f) /\ f.out = {}
    BY <1>1, <1>2, OpenPassiveEnd
  <2>2. d = f
    BY <1>2
  <2> HIDE DEF f
  <2> QED BY <2>1, <2>2
<1> QED
  BY <1>3, ServerOpens DEF v

\* See ServerOpen.
LEMMA ServerEnds ==
    ASSUME NEW x, NEW y, PairOk(x, y),
           NEW d, Fits(y, x, d, y.sent)
    PROVE  /\ y.conn.state = "LISTEN" /\ d = process_CLOSE(y.conn) =>
                 ServerGoes(x, y, d, y.sent, TRUE, {})
           /\ y.conn.state \in {"LISTEN", "SYN_RCVD"} /\ d = process_ABORT(y.conn) =>
                 ServerGoes(x, y, d, y.sent, y.closed, {})
<1> DEFINE v == At(y.sent, y.iss, x)
           c == y.conn
<1>1. /\ v \in View /\ y.closed \in BOOLEAN /\ c \in Connection(v.sent, v.peerSent)
      /\ EndOk(c, v, y.max, y.nxt, y.closed)
  BY LinkedSeen DEF Linked
<1> HIDE DEF v
<1>2. ASSUME c.state = "LISTEN", d = process_CLOSE(c)
      PROVE  ServerGoes(x, y, d, y.sent, TRUE, {})
  <2>1. /\ EndOk(After(d), v, y.max, y.nxt, TRUE) /\ d.out = {}
        /\ After(d).state = "CLOSED" /\ ~ToldOfReset(d)
    <3> HIDE DEF c
    <3> DEFINE f == process_CLOSE(c)
    <3>1. /\ EndOk(After(f), v, y.max, y.nxt, TRUE) /\ f.out = {}
          /\ After(f).state = "CLOSED" /\ ~ToldOfReset(f)
      BY <1>1, <1>2, CloseEarly
    <3> HIDE DEF f
    <3> QED BY <1>2, <3>1 DEF f
  <2> QED BY <1>2, <2>1, ServerLeaves DEF v
<1>3. ASSUME c.state = "LISTEN", d = process_ABORT(c)
      PROVE  ServerGoes(x, y, d, y.sent, y.closed, {})
  <2>1. /\ EndOk(After(d), v, y.max, y.nxt, y.closed) /\ After(d).state = "CLOSED"
        /\ d.out = {} /\ ~ToldOfReset(d)
    <3> HIDE DEF c
    <3> QED BY <1>1, <1>3, AbortEarly
  <2> QED BY <1>1, <1>3, <2>1, ServerLeaves DEF v
<1>4. ASSUME c.state = "SYN_RCVD", d = process_ABORT(c)
      PROVE  ServerGoes(x, y, d, y.sent, y.closed, {})
  <2>1. /\ EndOk(After(d), v, y.max, y.nxt, y.closed) /\ After(d).state = "CLOSED"
        /\ (\A r \in d.out : Reset(r)) /\ ~ToldOfReset(d)
    <3> HIDE DEF c
    <3> QED BY <1>1, <1>4, AbortReceived
  <2> QED BY <1>1, <1>4, <2>1, ServerLeaves DEF v
<1> QED
  BY <1>2, <1>3, <1>4

\* The timers of connection setup, when nothing is on its way.
LEMMA ServerTimer ==
    ASSUME NEW x, NEW y, PairOk(x, y), y.conn.state = "SYN_RCVD", x.net = {}, y.net = {},
           NEW d,
           d \in {process_TIMEOUT_CONN_ESTAB([y.conn EXCEPT !.connEstabTimer = FALSE]),
                  process_TIMEOUT_SYN_REXMIT(y.conn)},
           Fits(y, x, d, y.sent)
    PROVE  ServerGoes(x, y, d, y.sent, y.closed, {})
<1> DEFINE v == At(y.sent, y.iss, x)
           c == y.conn
<1>1. /\ v \in View /\ y.closed \in BOOLEAN /\ c \in Connection(v.sent, v.peerSent)
      /\ EndOk(c, v, y.max, y.nxt, y.closed) /\ v.iss = y.iss /\ v.peerIss = x.iss
  BY LinkedSeen DEF Linked
<1>2. c.state \in Setting /\ c.state = "SYN_RCVD"
  BY DEF Setting
<1>3. ~c.active
  BY <1>2, SeenByBoth DEF SetupOk
<1> HIDE DEF v
<1>4. CASE d = process_TIMEOUT_CONN_ESTAB([c EXCEPT !.connEstabTimer = FALSE])
  <2>1. /\ EndOk(After(d), v, y.max, y.nxt, y.closed) /\ d.out = {} /\ ~ToldOfReset(d)
        /\ After(d).state = "LISTEN" /\ ~After(d).active
    <3> HIDE DEF c
    <3> DEFINE f == process_TIMEOUT_CONN_ESTAB([c EXCEPT !.connEstabTimer = FALSE])
    <3>0. /\ v \in View /\ y.closed \in BOOLEAN /\ c \in Connection(v.sent, v.peerSent)
          /\ EndOk(c, v, y.max, y.nxt, y.closed) /\ c.state \in Setting
          /\ c.state = "SYN_RCVD" => ~c.active
      BY <1>1, <1>2, <1>3
    <3>1. /\ EndOk(After(f), v, y.max, y.nxt, y.closed) /\ f.out = {} /\ ~ToldOfReset(f)
          /\ After(f).state = (IF c.state = "SYN_SENT" THEN "CLOSED" ELSE "LISTEN")
          /\ c.state = "SYN_RCVD" => ~After(f).active
      BY <3>0, ConnEstabEnd
    <3>2. d = f
      BY <1>4
    <3> HIDE DEF f
    <3> QED BY <1>2, <3>1, <3>2
  <2> QED BY <1>2, <2>1, ServerListens DEF v
<1>5. CASE d = process_TIMEOUT_SYN_REXMIT(c)
  <2>1. /\ EndOk(After(d), v, y.max, y.nxt, y.closed) /\ ~ToldOfReset(d)
        /\ \/ After(d).state = "CLOSED" /\ d.out = {}
           \/ /\ After(d).state = "SYN_RCVD" /\ After(d).active = c.active
              /\ d.out = {SynAck(y.iss, x.iss)}
    <3> HIDE DEF c
    <3> DEFINE f == process_TIMEOUT_SYN_REXMIT(c)
    <3>0. /\ v \in View /\ y.closed \in BOOLEAN /\ c \in Connection(v.sent, v.peerSent)
          /\ EndOk(c, v, y.max, y.nxt, y.closed) /\ c.state \in Setting
      BY <1>1, <1>2
    <3>1. /\ EndOk(After(f), v, y.max, y.nxt, y.closed) /\ ~ToldOfReset(f)
          /\ \/ After(f).state = "CLOSED" /\ f.out = {}
             \/ /\ After(f).state = c.state /\ After(f).active = c.active
                /\ f.out = IF c.state = "SYN_SENT" THEN {Syn(v.iss)}
                           ELSE {SynAck(v.iss, v.peerIss)}
      BY ONLY <3>0, SynRexmitEnd
    <3>2. d = f
      BY <1>5
    <3> HIDE DEF f
    <3> QED BY <1>1, <1>2, <3>1, <3>2
  <2>2. CASE After(d).state = "CLOSED" /\ d.out = {}
    BY <1>1, <1>2, <2>1, <2>2, ServerLeaves DEF v
  <2>3. CASE After(d).state = "SYN_RCVD"
    <3>1. After(d).active = c.active /\ \A r \in d.out : r = SynAck(y.iss, x.iss)
      BY <2>1, <2>3
    <3> QED BY <1>1, <1>2, <2>1, <2>3, <3>1, ServerWaits DEF v
  <2> QED BY <2>1, <2>2, <2>3
<1> QED
  BY <1>4, <1>5

\* A segment comes to the server while it waits for the ACK of its SYN+ACK.
LEMMA ServerReceived ==
    ASSUME NEW x, NEW y, PairOk(x, y), y.conn.state = "SYN_RCVD",
           NEW s \in x.net, NEW win \in Windows,
           NEW d, d = process_RCV_SEGMENT(y.conn, s, win), Fits(y, x, d, y.sent)
    PROVE  ServerGoes(x, y, d, y.sent, y.closed, {s})
<1> DEFINE v == At(y.sent, y.iss, x)
           c == y.conn
<1>1. /\ v \in View /\ y.closed \in BOOLEAN /\ c \in Connection(v.sent, v.peerSent)
      /\ EndOk(c, v, y.max, y.nxt, y.closed)
      /\ v.iss = y.iss /\ v.sent = y.sent /\ v.peerSent = x.sent /\ v.peerIss = x.iss
      /\ v.peerMax = x.max /\ v.peerNxt = x.nxt
  BY LinkedSeen DEF Linked
<1>2. /\ SetupOk(x, y) /\ InFlight(x, y, Syn(x.iss))
      /\ s \in Segment(0 .. v.peerSent)
  BY <1>1, SeenByBoth DEF Typed
<1>3. ~c.active /\ x.conn.state # "INIT" /\ (Syn(x.iss) \in x.net => s = Syn(x.iss))
  BY <1>2, Apart DEF SetupOk, Gone
<1> HIDE DEF v
<1>4. CASE s = Syn(x.iss)
  <2> DEFINE f == process_RCV_SEGMENT(c, Syn(v.peerIss), win)
  <2>1. /\ EndOk(After(f), v, y.max, y.nxt, y.closed)
        /\ \/ /\ After(f).state = "SYN_RCVD" /\ ~ToldOfReset(f)
              /\ After(f).active = c.active
              /\ \A r \in f.out : Piece(r, v.sent, v.iss, y.max, v.peerIss, y.nxt)
           \/ After(f).state = "CLOSED" /\ f.out = {}
    <3>1. c.state = "SYN_RCVD"
      OBVIOUS
    <3> HIDE DEF c
    <3> QED BY <1>1, <3>1, SynRcvdSyn
  <2>2. d = f
    BY <1>1, <1>4
  <2> HIDE DEF f
  <2>3. CASE /\ After(d).state = "SYN_RCVD" /\ ~ToldOfReset(d)
             /\ After(d).active = c.active
             /\ \A r \in d.out : Piece(r, v.sent, v.iss, y.max, v.peerIss, y.nxt)
    <3>1. \A r \in d.out : Piece(r, y.sent, y.iss, y.max, x.iss, y.nxt)
      BY <1>1, <2>3
    <3> QED BY <1>1, <2>1, <2>2, <2>3, <3>1, ServerWaits DEF v
  <2>4. CASE After(d).state = "CLOSED" /\ d.out = {}
    BY <1>1, <1>4, <2>1, <2>2, <2>4, ServerLeaves DEF v
  <2> QED BY <2>1, <2>2, <2>3, <2>4
<1>5. CASE Reset(s)
  <2> DEFINE f == process_RCV_SEGMENT(c, s, win)
  <2>1. /\ EndOk(After(f), v, y.max, y.nxt, y.closed)
        /\ After(f).state \in {"LISTEN", "SYN_RCVD"}
        /\ After(f).active = c.active /\ ~ToldOfReset(f) /\ f.out = {}
    <3>1. c.state = "SYN_RCVD"
      OBVIOUS
    <3> HIDE DEF c
    <3> QED BY <1>1, <1>3, <1>5, <3>1, SynRcvdReset
  <2>2. d = f
    OBVIOUS
  <2> HIDE DEF f
  <2>3. x.conn.state = "SYN_SENT" => y.net = {}
    <3>1. s # Syn(x.iss)
      BY <1>5, Apart
    <3> QED BY <1>2, <3>1 DEF SetupOk
  <2>4. CASE After(d).state = "LISTEN"
    BY <1>3, <2>1, <2>2, <2>3, <2>4, ServerListens DEF v
  <2>5. CASE After(d).state = "SYN_RCVD"
    BY <2>1, <2>2, <2>5, ServerWaits DEF v
  <2> QED BY <2>1, <2>2, <2>4, <2>5
<1>6. CASE Theirs(s, v)
  <2> DEFINE f == process_RCV_SEGMENT(c, s, win)
  <2>1. /\ ~ToldOfReset(f)
        /\ \/ /\ EndOk(After(f), v, y.max, y.nxt, y.closed) /\ After(f).state = "SYN_RCVD"
              /\ After(f).active = c.active
              /\ \A r \in f.out : Piece(r, v.sent, v.iss, y.max, v.peerIss, y.nxt)
           \/ Stepped(f, v, y.max, y.nxt, Top(f, v), Rcv(f, v), y.closed)
    <3>1. c.state = "SYN_RCVD"
      OBVIOUS
    <3> HIDE DEF c
    <3> QED BY <1>1, <1>2, <1>6, <3>1, SynRcvdAck
  <2>2. d = f
    OBVIOUS
  <2> HIDE DEF f
  <2>3. CASE /\ EndOk(After(d), v, y.max, y.nxt, y.closed) /\ After(d).state = "SYN_RCVD"
             /\ After(d).active = c.active
             /\ \A r \in d.out : Piece(r, v.sent, v.iss, y.max, v.peerIss, y.nxt)
    <3>1. \A r \in d.out : Piece(r, y.sent, y.iss, y.max, x.iss, y.nxt)
      BY <1>1, <2>3
    <3> QED BY <1>1, <2>1, <2>2, <2>3, <3>1, ServerWaits DEF v
  <2>4. CASE Stepped(d, v, y.max, y.nxt, Top(d, v), Rcv(d, v), y.closed)
    <3>1. s # Syn(x.iss)
      BY <1>6, Apart DEF Theirs
    <3>2. x.conn.state \in Synchronized \cup {"CLOSED"} /\ Syn(x.iss) \notin x.net
      BY <1>2, <1>3, <3>1 DEF SetupOk
    <3> DEFINE top == Top(d, v)
               rcv == Rcv(d, v)
    <3>3. Stepped(d, At(y.sent, y.iss, x), y.max, y.nxt, top, rcv, y.closed)
      BY <2>4 DEF v
    <3> HIDE DEF top, rcv
    <3>4. ServerStep(x, y, d, y.sent, top, rcv, y.closed)
      BY <2>1, <2>2, <3>2, <3>3 DEF ServerStep
    <3> QED BY <1>1, <3>4, ServerSync
  <2> QED BY <2>1, <2>2, <2>3, <2>4
<1>7. s = Syn(x.iss) \/ Reset(s) \/ Theirs(s, v)
  BY <1>1, <1>2 DEF InFlight, Theirs
<1> QED
  BY <1>4, <1>5, <1>6, <1>7

\* A segment comes to the server.
LEMMA ServerSegment ==
    ASSUME NEW x, NEW y, PairOk(x, y), Window(y.conn, y.conn.state),
           NEW s \in x.net, NEW win \in Windows,
           NEW d, d = process_RCV_SEGMENT(y.conn, s, win), Fits(y, x, d, y.sent)
    PROVE  ServerGoes(x, y, d, y.sent, y.closed, {s})
<1> DEFINE v == At(y.sent, y.iss, x)
           c == y.conn
<1>1. /\ v \in View /\ y.closed \in BOOLEAN /\ c \in Connection(v.sent, v.peerSent)
      /\ EndOk(c, v, y.max, y.nxt, y.closed)
      /\ v.iss = y.iss /\ v.sent = y.sent /\ v.peerSent = x.sent /\ v.peerIss = x.iss
      /\ v.peerMax = x.max /\ v.peerNxt = x.nxt
  BY LinkedSeen DEF Linked
<1>2. /\ SetupOk(x, y) /\ InFlight(x, y, Syn(x.iss))
      /\ s \in Segment(0 .. v.peerSent)
  BY <1>1, SeenByBoth DEF Typed
<1>3. d = process_RCV_SEGMENT(c, s, win)
  OBVIOUS
<1> HIDE DEF v
<1>4. CASE c.state \in Synchronized
  <2>1. Goes(y, x, d, y.sent, y.closed, {s})
    BY <1>4, SyncSegmentGoes DEF Linked
  <2> QED BY <2>1 DEF Goes
<1>5. CASE c.state \in {"INIT", "CLOSED"}
  <2>1. /\ EndOk(After(d), v, y.max, y.nxt, y.closed) /\ After(d).state = c.state
        /\ After(d).ind = c.ind
        /\ c.state = "INIT" => After(d).active = c.active
        /\ \A r \in d.out : Reset(r)
    <3> HIDE DEF c
    <3> DEFINE f == process_RCV_SEGMENT(c, s, win)
    <3>1. /\ EndOk(After(f), v, y.max, y.nxt, y.closed) /\ After(f).state = c.state
          /\ After(f).ind = c.ind
          /\ c.state = "INIT" => After(f).active = c.active
          /\ \A r \in f.out : Reset(r)
      BY <1>1, <1>2, <1>5, NobodyThere
    <3>2. d = f
      BY <1>3
    <3> HIDE DEF f
    <3> QED BY <3>1, <3>2
  <2>2. /\ c.state \in Gone /\ c.state # "CLOSED" => After(d).active = c.active
        /\ ToldOfReset(d) => Says(c.ind, "CONNECTION_RESET")
    BY <1>5, <2>1 DEF Gone, ToldOfReset
  <2>3. c.state \in Gone
    BY <1>5 DEF Gone
  <2> QED BY <2>1, <2>2, <2>3, ServerNobody DEF v
<1>6. CASE c.state = "LISTEN" /\ s = Syn(x.iss)
  <2> DEFINE i == NextIss(c)
             w == At(y.sent, i, x)
  <2>1. i \in SeqNo
    <3>1. c.iss \in SeqNo /\ IssStep \in SeqNo
      BY <1>1, ConnectionTypes, SeqConstants
    <3> QED BY <3>1, PlusType DEF NextIss
  <2>2. /\ w.sent = v.sent /\ w.iss = i /\ w.peerSent = v.peerSent
        /\ w.peerIss = v.peerIss /\ w.peerMax = v.peerMax /\ w.peerNxt = v.peerNxt
    BY DEF At, v
  <2>3. w \in View
    BY <1>1, <2>1 DEF View, At, v
  <2> HIDE DEF w
  <2>4. Answers(c, d, w, y.max, y.nxt, y.closed)
    <3>1. /\ v \in View /\ y.closed \in BOOLEAN /\ c \in Connection(v.sent, v.peerSent)
          /\ EndOk(c, v, y.max, y.nxt, y.closed) /\ c.state = "LISTEN"
          /\ w \in View /\ w.sent = v.sent /\ w.iss = NextIss(c) /\ w.peerSent = v.peerSent
          /\ w.peerIss = v.peerIss /\ w.peerMax = v.peerMax /\ w.peerNxt = v.peerNxt
          /\ d = process_RCV_SEGMENT(c, Syn(v.peerIss), win)
      BY <1>1, <1>3, <1>6, <2>2, <2>3
    <3> HIDE DEF c, i
    <3> QED BY <3>1, ListenSyn
  <2> HIDE DEF i
  <2>6. /\ EndOk(After(d), w, y.max, y.nxt, y.closed) /\ After(d).state = "SYN_RCVD"
        /\ After(d).active = c.active
        /\ ~ToldOfReset(d) /\ d.out = {SynAck(i, x.iss)}
        /\ Syn(x.iss) \in x.net /\ {s} = {Syn(x.iss)} /\ c.state = "LISTEN"
    BY <1>1, <1>6, <2>2, <2>4 DEF Answers
  <2> QED BY <2>1, <2>6, ServerAnswers DEF w
<1>7. CASE c.state = "LISTEN" /\ s # Syn(x.iss)
  <2>1. Reset(s) \/ Theirs(s, v)
    BY <1>1, <1>2, <1>7 DEF InFlight, Theirs
  <2> DEFINE f == process_RCV_SEGMENT(c, s, win)
  <2>2. /\ EndOk(After(f), v, y.max, y.nxt, y.closed) /\ After(f).state = "LISTEN"
        /\ After(f).active = c.active /\ ~ToldOfReset(f)
        /\ \A r \in f.out : Reset(r)
    <3>1. /\ v \in View /\ y.closed \in BOOLEAN /\ c \in Connection(v.sent, v.peerSent)
          /\ EndOk(c, v, y.max, y.nxt, y.closed) /\ c.state = "LISTEN"
          /\ s \in Segment(0 .. v.peerSent) /\ (Reset(s) \/ Theirs(s, v))
      BY <1>1, <1>2, <1>7, <2>1
    <3> HIDE DEF c
    <3> QED BY <3>1, ListenOther
  <2>3. d = f
    OBVIOUS
  <2> HIDE DEF f
  <2>4. c.state \in Gone /\ After(d).state = c.state
    BY <1>7, <2>2, <2>3 DEF Gone
  <2> QED BY <2>2, <2>3, <2>4, ServerNobody DEF v
<1>8. CASE c.state = "SYN_RCVD"
  BY <1>8, ServerReceived
<1> QED
  BY <1>2, <1>4, <1>5, <1>6, <1>7, <1>8 DEF SetupOk

-----------------------------------------------------------------------------
(* The invariant of the pair in the states of the model *)

\* x is the side of end e.
IsSide(x, e) ==
    /\ x.conn = conn[e] /\ x.sent = numSent[e] /\ x.closed = hasClosed[e]
    /\ x.net = net[Peer(e)]

\* x is the client c, y is its server.
IsPair(c, x, y) ==
    /\ Opens[c] = "ACTIVE" /\ Opens[Peer(c)] = "PASSIVE"
    /\ IsSide(x, c) /\ IsSide(y, Peer(c))
    /\ PairOk(x, y)

\* The inductive invariant, with what IInv says of each end alone.
Paired ==
    /\ hasClosed \in [End -> BOOLEAN]
    /\ \E c \in End : \E x, y : IsPair(c, x, y)

\* A step leads to such a pair again, and each end has received at least as much.
PairMoves(c, x, y) ==
    \E x2, y2 : IsPair(c, x2, y2)' /\ x.nxt <= x2.nxt /\ y.nxt <= y2.nxt

\* End e handles an event: its application has then sent n items and closed or not.
Event(e, results, taken, n, closed) ==
    /\ Handle(e, results, taken)
    /\ numSent' = [numSent EXCEPT ![e] = n]
    /\ closed \in BOOLEAN /\ hasClosed' = [hasClosed EXCEPT ![e] = closed]

\* What an end is seen to be after an event, and what of the peer.
LEMMA Handled ==
    ASSUME IInv, IInv', hasClosed \in [End -> BOOLEAN],
           NEW e \in End, NEW a, NEW b, IsSide(a, e), IsSide(b, Peer(e)),
           NEW results, NEW taken, NEW n, NEW closed, Event(e, results, taken, n, closed)
    PROVE  \E d \in results :
              /\ Fits(a, b, d, n)
              /\ IsSide(Without(b, taken), Peer(e))'
              /\ \A i, max, nxt : IsSide(Became(a, d, n, i, max, nxt, closed), e)'
<1> DEFINE p == Peer(e)
<1>0. p \in End /\ p # e /\ Peer(p) = e
  BY Ends
<1>1. PICK d \in results :
        /\ conn' = [conn EXCEPT ![e] = removeConnection([d EXCEPT !.out = {}])]
        /\ net' = [net EXCEPT ![e] = @ \ taken, ![p] = @ \cup d.out]
  BY DEF Event, Handle
<1>2. /\ conn \in [End -> Connection(Most, Most)] /\ numSent \in [End -> Nat]
      /\ net \in [End -> SUBSET Segment(0 .. Most)]
  BY DEF IInv
<1>3. /\ conn'[e] = After(d) /\ conn'[p] = conn[p]
      /\ net'[e] = net[e] \ taken /\ net'[p] = net[p] \cup d.out
      /\ numSent'[e] = n /\ numSent'[p] = numSent[p]
      /\ hasClosed'[e] = closed /\ hasClosed'[p] = hasClosed[p]
  <2> DEFINE r == After(d)
             y == net[p] \cup d.out
             z == net[e] \ taken
  <2>1. conn' = [conn EXCEPT ![e] = r] /\ net' = [net EXCEPT ![e] = z, ![p] = y]
    BY <1>0, <1>1, <1>2 DEF After
  <2> HIDE DEF r, y, z, p
  <2>2. conn'[e] = r /\ conn'[p] = conn[p] /\ net'[e] = z /\ net'[p] = y
    BY <1>0, <1>2, <2>1
  <2>3. /\ numSent'[e] = n /\ numSent'[p] = numSent[p]
        /\ hasClosed'[e] = closed /\ hasClosed'[p] = hasClosed[p]
    BY <1>0, <1>2 DEF Event
  <2> QED BY <2>2, <2>3 DEF r, y, z
<1> HIDE DEF p
<1>4. /\ After(d) \in Connection(n, numSent[p]) /\ conn[p] \in Connection(numSent[p], n)
      /\ net[p] \cup d.out \subseteq Segment(0 .. n)
      /\ n \in Nat /\ n <= MaxSend[e]
  <2>1. /\ numSent' \in [End -> Nat] /\ numSent'[e] <= MaxSend[e]
        /\ Good(conn'[e], numSent'[e], numSent'[p])
        /\ Good(conn'[p], numSent'[p], numSent'[e])
        /\ net'[p] \subseteq Segment(0 .. numSent'[e])
    BY <1>0 DEF IInv, p
  <2> QED BY <1>3, <2>1 DEF Good
<1>5. n \in Number
  BY <1>4, SentIsNumber
<1>6. Fits(a, b, d, n)
  BY <1>4, <1>5 DEF Fits, IsSide, p
<1>7. IsSide(Without(b, taken), p)'
  <2> DEFINE w == Without(b, taken)
  <2>1. w.conn = b.conn /\ w.sent = b.sent /\ w.closed = b.closed /\ w.net = b.net \ taken
    BY DEF Without
  <2>2. w.conn = conn'[p] /\ w.sent = numSent'[p] /\ w.closed = hasClosed'[p] /\ w.net = net'[e]
    <3> HIDE DEF w
    <3> QED BY <1>0, <1>3, <2>1 DEF IsSide, p
  <2> QED BY <1>0, <2>2 DEF IsSide
<1>8. ASSUME NEW i, NEW max, NEW nxt
      PROVE  IsSide(Became(a, d, n, i, max, nxt, closed), e)'
  <2> DEFINE w == Became(a, d, n, i, max, nxt, closed)
  <2>1. w.conn = After(d) /\ w.sent = n /\ w.closed = closed /\ w.net = a.net \cup d.out
    BY DEF Became
  <2>2. w.conn = conn'[e] /\ w.sent = numSent'[e] /\ w.closed = hasClosed'[e] /\ w.net = net'[p]
    <3> HIDE DEF w
    <3> QED BY <1>3, <2>1 DEF IsSide, p
  <2> QED BY <2>2 DEF IsSide, p
<1> QED
  BY <1>6, <1>7, <1>8 DEF p

\* The client, and the server, handle an event.
LEMMA HandledByClient ==
    ASSUME IInv, IInv', hasClosed \in [End -> BOOLEAN],
           NEW c \in End, NEW x, NEW y, IsPair(c, x, y),
           NEW results, NEW taken, NEW n, NEW closed, Event(c, results, taken, n, closed),
           \A d \in results : Fits(x, y, d, n) => ClientGoes(x, y, d, n, closed, taken)
    PROVE  PairMoves(c, x, y)
<1>0. Opens[c] = "ACTIVE" /\ Opens[Peer(c)] = "PASSIVE" /\ IsSide(x, c) /\ IsSide(y, Peer(c))
  BY DEF IsPair
<1>1. PICK d \in results :
              /\ Fits(x, y, d, n)
              /\ IsSide(Without(y, taken), Peer(c))'
              /\ \A i, max, nxt : IsSide(Became(x, d, n, i, max, nxt, closed), c)'
  BY <1>0, Handled
<1>2. ClientGoes(x, y, d, n, closed, taken)
  BY <1>1
<1>3. PICK i, max, nxt : /\ PairOk(Became(x, d, n, i, max, nxt, closed), Without(y, taken))
                         /\ x.nxt <= nxt
  BY <1>2 DEF ClientGoes
<1> DEFINE x2 == Became(x, d, n, i, max, nxt, closed)
           y2 == Without(y, taken)
<1>4. x2.nxt = nxt /\ y2.nxt = y.nxt
  BY DEF Became, Without
<1>5. y.nxt <= y.nxt
  <2>1. PairOk(x, y)
    BY DEF IsPair
  <2>2. y.nxt \in Nat
    BY <2>1, SeenByBoth
  <2> QED BY <2>2
<1>6. IsPair(c, x2, y2)'
  BY <1>0, <1>1, <1>3 DEF IsPair
<1> HIDE DEF x2, y2
<1> QED
  BY <1>3, <1>4, <1>5, <1>6 DEF PairMoves

\* See HandledByClient.
LEMMA HandledByServer ==
    ASSUME IInv, IInv', hasClosed \in [End -> BOOLEAN],
           NEW c \in End, NEW x, NEW y, IsPair(c, x, y),
           NEW e \in End, e = Peer(c),
           NEW results, NEW taken, NEW n, NEW closed, Event(e, results, taken, n, closed),
           \A d \in results : Fits(y, x, d, n) => ServerGoes(x, y, d, n, closed, taken)
    PROVE  PairMoves(c, x, y)
<1>0. /\ Opens[c] = "ACTIVE" /\ Opens[e] = "PASSIVE" /\ IsSide(x, c) /\ IsSide(y, e)
      /\ Peer(e) = c
  BY Ends DEF IsPair
<1>1. PICK d \in results :
              /\ Fits(y, x, d, n)
              /\ IsSide(Without(x, taken), Peer(e))'
              /\ \A i, max, nxt : IsSide(Became(y, d, n, i, max, nxt, closed), e)'
  BY <1>0, Handled
<1>2. ServerGoes(x, y, d, n, closed, taken)
  BY <1>1
<1>3. PICK i, max, nxt : /\ PairOk(Without(x, taken), Became(y, d, n, i, max, nxt, closed))
                         /\ y.nxt <= nxt
  BY <1>2 DEF ServerGoes
<1> DEFINE y2 == Became(y, d, n, i, max, nxt, closed)
           x2 == Without(x, taken)
<1>4. y2.nxt = nxt /\ x2.nxt = x.nxt
  BY DEF Became, Without
<1>5. x.nxt <= x.nxt
  <2>1. PairOk(x, y)
    BY DEF IsPair
  <2>2. x.nxt \in Nat
    BY <2>1, SeenByBoth
  <2> QED BY <2>2
<1>6. IsPair(c, x2, y2)'
  BY <1>0, <1>1, <1>3 DEF IsPair
<1> HIDE DEF x2, y2
<1> QED
  BY <1>3, <1>4, <1>5, <1>6 DEF PairMoves

\* What the invariants say of an end that handles an event.
LEMMA EndFacts ==
    ASSUME IInv, NEW e \in End, NEW a, NEW b, IsSide(a, e), IsSide(b, Peer(e)), Linked(a, b)
    PROVE  /\ a.conn = conn[e] /\ a.sent = numSent[e] /\ a.closed = hasClosed[e]
           /\ b.net = net[e]
           /\ Window(a.conn, a.conn.state)
           /\ Setup(a.conn) => a.conn.state \in Setting
           /\ a.conn.rexmitTimer \/ a.conn.the2MSLTimer > 0 => a.conn.state \in Synchronized
           /\ a.conn.state \in Beginning \cup Synchronized \cup {"CLOSED"}
           /\ numSent = [numSent EXCEPT ![e] = a.sent]
           /\ hasClosed \in [End -> BOOLEAN] =>
                 hasClosed = [hasClosed EXCEPT ![e] = a.closed]
           /\ a.closed \in BOOLEAN
<1>1. /\ a.conn = conn[e] /\ a.sent = numSent[e] /\ a.closed = hasClosed[e]
      /\ b.net = net[e]
  BY Ends DEF IsSide
<1>2. /\ Good(conn[e], numSent[e], numSent[Peer(e)]) /\ numSent \in [End -> Nat]
  BY DEF IInv
<1> DEFINE v == At(a.sent, a.iss, b)
<1>3. /\ a.closed \in BOOLEAN /\ a.conn \in Connection(v.sent, v.peerSent)
      /\ EndOk(a.conn, v, a.max, a.nxt, a.closed)
  BY LinkedSeen
<1> HIDE DEF v
<1>4. a.conn.state \in Beginning \cup Synchronized \cup {"CLOSED"} /\ a.conn.the2MSLTimer \in Ticks
  BY <1>3, ConnectionTypes, States
<1>5. a.conn.rexmitTimer \/ a.conn.the2MSLTimer > 0 => a.conn.state \in Synchronized
  BY <1>3, <1>4 DEF EndOk, Blank
<1>6. /\ Window(a.conn, a.conn.state)
      /\ Setup(a.conn) => a.conn.state \in Setting
  BY <1>1, <1>2, <1>3 DEF Good, EndOk
<1> QED
  BY <1>1, <1>2, <1>3, <1>4, <1>5, <1>6

\* Events of the client.
LEMMA ClientMoves ==
    ASSUME OrderlySetup, IInv, IInv', hasClosed \in [End -> BOOLEAN],
           NEW c \in End, NEW x, NEW y, IsPair(c, x, y),
           \/ Open(c) \/ Send(c) \/ Close(c) \/ Abort(c) \/ SegmentArrives(c) \/ Timeout(c)
    PROVE  PairMoves(c, x, y)
<1>0. /\ PairOk(x, y) /\ Linked(x, y) /\ IsSide(x, c) /\ IsSide(y, Peer(c))
      /\ Opens[c] = "ACTIVE"
  BY DEF IsPair, Linked
<1> DEFINE k == x.conn
<1>1. /\ k = conn[c] /\ x.sent = numSent[c] /\ x.closed = hasClosed[c] /\ y.net = net[c]
      /\ Window(k, k.state) /\ (Setup(k) => k.state \in Setting)
      /\ (k.rexmitTimer \/ k.the2MSLTimer > 0 => k.state \in Synchronized)
      /\ numSent = [numSent EXCEPT ![c] = x.sent]
      /\ hasClosed = [hasClosed EXCEPT ![c] = x.closed] /\ x.closed \in BOOLEAN
  BY <1>0, EndFacts
<1>2. /\ k.state \in {"INIT", "SYN_SENT", "CLOSED"} \cup Synchronized
  BY <1>0, SeenByBoth DEF SetupOk
<1>3. ASSUME NEW d, NEW n, NEW closed, Goes(x, y, d, n, closed, {})
      PROVE  ClientGoes(x, y, d, n, closed, {})
  BY <1>0, <1>3 DEF Goes
<1>4. ASSUME NEW d, Handle(c, {d}, {}), UNCHANGED <<numSent, hasClosed>>,
             Fits(x, y, d, x.sent) => ClientGoes(x, y, d, x.sent, x.closed, {})
      PROVE  PairMoves(c, x, y)
  <2> DEFINE R == {d}
             T == {}
             n == x.sent
             t == x.closed
  <2>1. Event(c, R, T, n, t) /\ \A f \in R : Fits(x, y, f, n) => ClientGoes(x, y, f, n, t, T)
    BY <1>1, <1>4 DEF Event
  <2> HIDE DEF R, T, n, t, k
  <2> QED BY <2>1, HandledByClient
<1>5. CASE Open(c)
  <2>1. /\ k.state = "INIT" /\ Handle(c, {process_OPEN_ACTIVE(k)}, {})
        /\ UNCHANGED <<numSent, hasClosed>>
    BY <1>0, <1>1, <1>5 DEF Open
  <2> DEFINE d == process_OPEN_ACTIVE(k)
  <2>2. Fits(x, y, d, x.sent) => ClientGoes(x, y, d, x.sent, x.closed, {})
    BY <1>0, <2>1, ClientOpen
  <2> HIDE DEF d
  <2> QED BY <1>4, <2>1, <2>2 DEF d
<1>6. CASE Send(c)
  <2> DEFINE n == x.sent + 1
             R == {process_SEND(k, n, win) : win \in Windows}
  <2>1. /\ k.state \in {"SYN_SENT", "ESTABLISHED", "CLOSE_WAIT"} /\ ~x.closed
        /\ Handle(c, R, {}) /\ numSent' = [numSent EXCEPT ![c] = n]
        /\ UNCHANGED hasClosed
    <3>1. /\ SendIn[c] \subseteq {"SYN_SENT", "SYN_RCVD", "ESTABLISHED", "CLOSE_WAIT"}
          /\ "SYN_RCVD" \notin SendIn[c]
      BY PairAssumption DEF OrderlySetup
    <3>2. k.state \in SendIn[c] /\ ~x.closed /\ UNCHANGED hasClosed
      BY <1>1, <1>6 DEF Send
    <3>3. Handle(c, R, {}) /\ numSent' = [numSent EXCEPT ![c] = n]
      BY <1>1, <1>6 DEF Send
    <3> QED BY <3>1, <3>2, <3>3
  <2>2. ASSUME NEW d \in R, Fits(x, y, d, n) PROVE ClientGoes(x, y, d, n, x.closed, {})
    <3>1. PICK win \in Windows : d = process_SEND(k, x.sent + 1, win)
      OBVIOUS
    <3>2. CASE k.state = "SYN_SENT"
      BY <1>0, <2>1, <2>2, <3>1, <3>2, ClientSend
    <3>3. CASE k.state \in {"ESTABLISHED", "CLOSE_WAIT"}
      BY <1>0, <1>1, <1>3, <2>1, <2>2, <3>1, <3>3, SyncSendGoes
    <3> QED BY <2>1, <3>2, <3>3
  <2> DEFINE T == {}
             t == x.closed
  <2>3. hasClosed' = [hasClosed EXCEPT ![c] = t] /\ t \in BOOLEAN
    <3> HIDE DEF n, R
    <3> QED BY <1>1, <2>1
  <2>4. Event(c, R, T, n, t) /\ \A f \in R : Fits(x, y, f, n) => ClientGoes(x, y, f, n, t, T)
    BY <2>1, <2>2, <2>3 DEF Event
  <2> HIDE DEF n, R, T, t, k
  <2> QED BY <2>4, HandledByClient
<1>7. CASE Close(c)
  <2> DEFINE d == process_CLOSE(k)
  <2>1. /\ k.state \in {"SYN_SENT", "ESTABLISHED", "CLOSE_WAIT"} /\ ~x.closed
        /\ Handle(c, {d}, {}) /\ hasClosed' = [hasClosed EXCEPT ![c] = TRUE]
        /\ UNCHANGED numSent
    <3>1. /\ CloseIn[c] \subseteq {"LISTEN", "SYN_SENT", "SYN_RCVD", "ESTABLISHED", "CLOSE_WAIT"}
          /\ "SYN_RCVD" \notin CloseIn[c]
      BY PairAssumption DEF OrderlySetup
    <3>2. k.state \in CloseIn[c] /\ k.state # "LISTEN"
      BY <1>1, <1>2, <1>7 DEF Close, Synchronized
    <3> QED BY <1>1, <1>7, <3>1, <3>2 DEF Close
  <2>2. Fits(x, y, d, x.sent) => ClientGoes(x, y, d, x.sent, TRUE, {})
    <3>1. CASE k.state = "SYN_SENT"
      BY <1>0, <3>1, ClientEnds
    <3>2. CASE k.state \in {"ESTABLISHED", "CLOSE_WAIT"}
      BY <1>0, <1>3, <2>1, <3>2, SyncCloseGoes
    <3> QED BY <2>1, <3>1, <3>2
  <2> DEFINE t == TRUE
             n == x.sent
             R == {d}
             T == {}
  <2>3. Event(c, R, T, n, t) /\ \A f \in R : Fits(x, y, f, n) => ClientGoes(x, y, f, n, t, T)
    BY <1>1, <2>1, <2>2 DEF Event
  <2> HIDE DEF d, k, t, n, R, T
  <2> QED BY <2>3, HandledByClient
<1>8. CASE Abort(c)
  <2> DEFINE d == process_ABORT(k)
  <2>1. /\ k.state \in {"SYN_SENT"} \cup Synchronized
        /\ Handle(c, {d}, {}) /\ UNCHANGED <<numSent, hasClosed>>
    <3>1. AbortIn[c] \subseteq State \ {"INIT", "CLOSED"}
      BY PairAssumption
    <3> QED BY <1>1, <1>2, <1>8, <3>1 DEF Abort
  <2>2. Fits(x, y, d, x.sent) => ClientGoes(x, y, d, x.sent, x.closed, {})
    <3>1. CASE k.state = "SYN_SENT"
      BY <1>0, <3>1, ClientEnds
    <3>2. CASE k.state \in Synchronized
      BY <1>0, <1>1, <1>3, <3>2, SyncAbortGoes
    <3> QED BY <2>1, <3>1, <3>2
  <2> HIDE DEF d
  <2> QED BY <1>4, <2>1, <2>2
<1>9. CASE SegmentArrives(c)
  <2>0. k = conn[c]
    BY <1>1
  <2>1. PICK s \in net[c] :
          Handle(c, {process_RCV_SEGMENT(conn[c], s, win) : win \in Windows}, {s})
    BY <1>9 DEF SegmentArrives
  <2> DEFINE R == {process_RCV_SEGMENT(conn[c], s, win) : win \in Windows}
  <2>2. ASSUME NEW d \in R, Fits(x, y, d, x.sent)
        PROVE  ClientGoes(x, y, d, x.sent, x.closed, {s})
    <3>1. PICK win \in Windows : d = process_RCV_SEGMENT(k, s, win)
      BY <2>0
    <3> QED BY <1>0, <1>1, <2>2, <3>1, ClientSegment
  <2>3. UNCHANGED <<numSent, hasClosed>> /\ Handle(c, R, {s})
    BY <1>9, <2>1 DEF SegmentArrives
  <2> DEFINE T == {s}
             n == x.sent
             t == x.closed
  <2>4. Event(c, R, T, n, t) /\ \A f \in R : Fits(x, y, f, n) => ClientGoes(x, y, f, n, t, T)
    <3> HIDE DEF R
    <3> QED BY <1>1, <2>2, <2>3 DEF Event
  <2> HIDE DEF k, t, n, R, T
  <2> QED BY <2>4, HandledByClient
<1>10. CASE ConnEstabTimeout(c)
  <2> DEFINE d == process_TIMEOUT_CONN_ESTAB([k EXCEPT !.connEstabTimer = FALSE])
  <2>1. /\ k.connEstabTimer /\ y.net = {}
        /\ Handle(c, {d}, {}) /\ UNCHANGED <<numSent, hasClosed>>
    BY <1>1, <1>10 DEF ConnEstabTimeout, ConnEstabDue, MayFire, OrderlySetup
  <2>2. k.state = "SYN_SENT"
    BY <1>1, <1>2, <2>1 DEF Setup, Setting, Synchronized
  <2>3. Fits(x, y, d, x.sent) => ClientGoes(x, y, d, x.sent, x.closed, {})
    BY <1>0, <2>1, <2>2, ClientTimer
  <2> HIDE DEF d
  <2> QED BY <1>4, <2>1, <2>3
<1>11. CASE SynRexmitTimeout(c)
  <2> DEFINE d == process_TIMEOUT_SYN_REXMIT(k)
  <2>1. /\ k.synRexmitTimer /\ y.net = {}
        /\ Handle(c, {d}, {}) /\ UNCHANGED <<numSent, hasClosed>>
    BY <1>1, <1>11 DEF SynRexmitTimeout, SynRexmitDue, MayFire, OrderlySetup
  <2>2. k.state = "SYN_SENT"
    BY <1>1, <1>2, <2>1 DEF Setup, Setting, Synchronized
  <2>3. Fits(x, y, d, x.sent) => ClientGoes(x, y, d, x.sent, x.closed, {})
    BY <1>0, <2>1, <2>2, ClientTimer
  <2> HIDE DEF d
  <2> QED BY <1>4, <2>1, <2>3
<1>12. CASE RexmitTimeout(c)
  <2> DEFINE d == processRexmitTimer(k)
  <2>1. k.rexmitTimer /\ Handle(c, {d}, {}) /\ UNCHANGED <<numSent, hasClosed>>
    BY <1>1, <1>12 DEF RexmitTimeout, RexmitDue
  <2>2. Fits(x, y, d, x.sent) => ClientGoes(x, y, d, x.sent, x.closed, {})
    BY <1>0, <1>1, <1>3, <2>1, SyncTimerGoes
  <2> HIDE DEF d
  <2> QED BY <1>4, <2>1, <2>2
<1>13. CASE TwoMslTimeout(c)
  <2> DEFINE d == IF k.the2MSLTimer > 1 THEN [k EXCEPT !.the2MSLTimer = @ - 1]
                                        ELSE process_TIMEOUT_2MSL(k)
  <2>1. k.the2MSLTimer > 0 /\ Handle(c, {d}, {}) /\ UNCHANGED <<numSent, hasClosed>>
    BY <1>1, <1>13 DEF TwoMslTimeout, TwoMslDue
  <2>2. Fits(x, y, d, x.sent) => ClientGoes(x, y, d, x.sent, x.closed, {})
    BY <1>0, <1>1, <1>3, <2>1, SyncTimerGoes
  <2> HIDE DEF d
  <2> QED BY <1>4, <2>1, <2>2
<1> QED
  BY <1>5, <1>6, <1>7, <1>8, <1>9, <1>10, <1>11, <1>12, <1>13 DEF Timeout

\* Events of the server.
LEMMA ServerMoves ==
    ASSUME OrderlySetup, IInv, IInv', hasClosed \in [End -> BOOLEAN],
           NEW c \in End, NEW x, NEW y, IsPair(c, x, y), NEW e \in End, e = Peer(c),
           \/ Open(e) \/ Send(e) \/ Close(e) \/ Abort(e) \/ SegmentArrives(e) \/ Timeout(e)
    PROVE  PairMoves(c, x, y)
<1>0. /\ PairOk(x, y) /\ Linked(y, x) /\ IsSide(x, Peer(e)) /\ IsSide(y, e)
      /\ Opens[e] = "PASSIVE"
  BY Ends DEF IsPair, Linked
<1> DEFINE k == y.conn
<1>1. /\ k = conn[e] /\ y.sent = numSent[e] /\ y.closed = hasClosed[e] /\ x.net = net[e]
      /\ Window(k, k.state) /\ (Setup(k) => k.state \in Setting)
      /\ (k.rexmitTimer \/ k.the2MSLTimer > 0 => k.state \in Synchronized)
      /\ numSent = [numSent EXCEPT ![e] = y.sent]
      /\ hasClosed = [hasClosed EXCEPT ![e] = y.closed] /\ y.closed \in BOOLEAN
  BY <1>0, EndFacts
<1>2. /\ k.state \in {"INIT", "LISTEN", "SYN_RCVD", "CLOSED"} \cup Synchronized
  BY <1>0, SeenByBoth DEF SetupOk
<1>3. ASSUME NEW d, NEW n, NEW closed, Goes(y, x, d, n, closed, {})
      PROVE  ServerGoes(x, y, d, n, closed, {})
  BY <1>0, <1>3 DEF Goes
<1>4. ASSUME NEW d, Handle(e, {d}, {}), UNCHANGED <<numSent, hasClosed>>,
             Fits(y, x, d, y.sent) => ServerGoes(x, y, d, y.sent, y.closed, {})
      PROVE  PairMoves(c, x, y)
  <2> DEFINE R == {d}
             T == {}
             n == y.sent
             t == y.closed
  <2>1. Event(e, R, T, n, t) /\ \A f \in R : Fits(y, x, f, n) => ServerGoes(x, y, f, n, t, T)
    BY <1>1, <1>4 DEF Event
  <2> HIDE DEF R, T, n, t, k
  <2> QED BY <2>1, HandledByServer
<1>5. CASE Open(e)
  <2>1. /\ k.state = "INIT" /\ Handle(e, {process_OPEN_PASSIVE(k)}, {})
        /\ UNCHANGED <<numSent, hasClosed>>
    BY <1>0, <1>1, <1>5 DEF Open
  <2> DEFINE d == process_OPEN_PASSIVE(k)
  <2>2. Fits(y, x, d, y.sent) => ServerGoes(x, y, d, y.sent, y.closed, {})
    BY <1>0, <2>1, ServerOpen
  <2> HIDE DEF d
  <2> QED BY <1>4, <2>1, <2>2 DEF d
<1>6. CASE Send(e)
  <2> DEFINE n == y.sent + 1
             R == {process_SEND(k, n, win) : win \in Windows}
  <2>1. /\ k.state \in {"ESTABLISHED", "CLOSE_WAIT"} /\ ~y.closed
        /\ Handle(e, R, {}) /\ numSent' = [numSent EXCEPT ![e] = n]
        /\ UNCHANGED hasClosed
    <3>1. /\ SendIn[e] \subseteq {"SYN_SENT", "SYN_RCVD", "ESTABLISHED", "CLOSE_WAIT"}
          /\ "SYN_RCVD" \notin SendIn[e]
      BY PairAssumption DEF OrderlySetup
    <3>2. /\ k.state \in SendIn[e] /\ ~y.closed /\ UNCHANGED hasClosed
          /\ k.state # "SYN_SENT"
      BY <1>1, <1>2, <1>6 DEF Send, Synchronized
    <3>3. Handle(e, R, {}) /\ numSent' = [numSent EXCEPT ![e] = n]
      BY <1>1, <1>6 DEF Send
    <3> QED BY <3>1, <3>2, <3>3
  <2>2. ASSUME NEW d \in R, Fits(y, x, d, n) PROVE ServerGoes(x, y, d, n, y.closed, {})
    <3>1. PICK win \in Windows : d = process_SEND(k, y.sent + 1, win)
      OBVIOUS
    <3> QED BY <1>0, <1>1, <1>3, <2>1, <2>2, <3>1, SyncSendGoes
  <2> DEFINE T == {}
             t == y.closed
  <2>3. hasClosed' = [hasClosed EXCEPT ![e] = t] /\ t \in BOOLEAN
    <3> HIDE DEF n, R
    <3> QED BY <1>1, <2>1
  <2>4. Event(e, R, T, n, t) /\ \A f \in R : Fits(y, x, f, n) => ServerGoes(x, y, f, n, t, T)
    BY <2>1, <2>2, <2>3 DEF Event
  <2> HIDE DEF n, R, T, t, k
  <2> QED BY <2>4, HandledByServer
<1>7. CASE Close(e)
  <2> DEFINE d == process_CLOSE(k)
  <2>1. /\ k.state \in {"LISTEN", "ESTABLISHED", "CLOSE_WAIT"} /\ ~y.closed
        /\ Handle(e, {d}, {}) /\ hasClosed' = [hasClosed EXCEPT ![e] = TRUE]
        /\ UNCHANGED numSent
    <3>1. /\ CloseIn[e] \subseteq {"LISTEN", "SYN_SENT", "SYN_RCVD", "ESTABLISHED", "CLOSE_WAIT"}
          /\ "SYN_RCVD" \notin CloseIn[e]
      BY PairAssumption DEF OrderlySetup
    <3>2. k.state \in CloseIn[e] /\ k.state # "SYN_SENT"
      BY <1>1, <1>2, <1>7 DEF Close, Synchronized
    <3> QED BY <1>1, <1>7, <3>1, <3>2 DEF Close
  <2>2. Fits(y, x, d, y.sent) => ServerGoes(x, y, d, y.sent, TRUE, {})
    <3>1. CASE k.state = "LISTEN"
      BY <1>0, <3>1, ServerEnds
    <3>2. CASE k.state \in {"ESTABLISHED", "CLOSE_WAIT"}
      BY <1>0, <1>3, <2>1, <3>2, SyncCloseGoes
    <3> QED BY <2>1, <3>1, <3>2
  <2> DEFINE t == TRUE
             n == y.sent
             R == {d}
             T == {}
  <2>3. Event(e, R, T, n, t) /\ \A f \in R : Fits(y, x, f, n) => ServerGoes(x, y, f, n, t, T)
    BY <1>1, <2>1, <2>2 DEF Event
  <2> HIDE DEF d, k, t, n, R, T
  <2> QED BY <2>3, HandledByServer
<1>8. CASE Abort(e)
  <2> DEFINE d == process_ABORT(k)
  <2>1. /\ k.state \in {"LISTEN", "SYN_RCVD"} \cup Synchronized
        /\ Handle(e, {d}, {}) /\ UNCHANGED <<numSent, hasClosed>>
    <3>1. AbortIn[e] \subseteq State \ {"INIT", "CLOSED"}
      BY PairAssumption
    <3> QED BY <1>1, <1>2, <1>8, <3>1 DEF Abort
  <2>2. Fits(y, x, d, y.sent) => ServerGoes(x, y, d, y.sent, y.closed, {})
    <3>1. CASE k.state \in {"LISTEN", "SYN_RCVD"}
      BY <1>0, <3>1, ServerEnds
    <3>2. CASE k.state \in Synchronized
      BY <1>0, <1>1, <1>3, <3>2, SyncAbortGoes
    <3> QED BY <2>1, <3>1, <3>2
  <2> HIDE DEF d
  <2> QED BY <1>4, <2>1, <2>2
<1>9. CASE SegmentArrives(e)
  <2>0. k = conn[e]
    BY <1>1
  <2>1. PICK s \in net[e] :
          Handle(e, {process_RCV_SEGMENT(conn[e], s, win) : win \in Windows}, {s})
    BY <1>9 DEF SegmentArrives
  <2> DEFINE R == {process_RCV_SEGMENT(conn[e], s, win) : win \in Windows}
  <2>2. ASSUME NEW d \in R, Fits(y, x, d, y.sent)
        PROVE  ServerGoes(x, y, d, y.sent, y.closed, {s})
    <3>1. PICK win \in Windows : d = process_RCV_SEGMENT(k, s, win)
      BY <2>0
    <3> QED BY <1>0, <1>1, <2>2, <3>1, ServerSegment
  <2>3. UNCHANGED <<numSent, hasClosed>> /\ Handle(e, R, {s})
    BY <1>9, <2>1 DEF SegmentArrives
  <2> DEFINE T == {s}
             n == y.sent
             t == y.closed
  <2>4. Event(e, R, T, n, t) /\ \A f \in R : Fits(y, x, f, n) => ServerGoes(x, y, f, n, t, T)
    <3> HIDE DEF R
    <3> QED BY <1>1, <2>2, <2>3 DEF Event
  <2> HIDE DEF k, t, n, R, T
  <2> QED BY <2>4, HandledByServer
<1>10. CASE ConnEstabTimeout(e)
  <2> DEFINE d == process_TIMEOUT_CONN_ESTAB([k EXCEPT !.connEstabTimer = FALSE])
  <2>1. /\ k.connEstabTimer /\ x.net = {} /\ y.net = {}
        /\ Handle(e, {d}, {}) /\ UNCHANGED <<numSent, hasClosed>>
    BY <1>0, <1>1, <1>10, Ends DEF ConnEstabTimeout, ConnEstabDue, MayFire, IsSide, OrderlySetup
  <2>2. k.state = "SYN_RCVD"
    BY <1>1, <1>2, <2>1 DEF Setup, Setting, Synchronized
  <2>3. Fits(y, x, d, y.sent) => ServerGoes(x, y, d, y.sent, y.closed, {})
    BY <1>0, <2>1, <2>2, ServerTimer
  <2> HIDE DEF d
  <2> QED BY <1>4, <2>1, <2>3
<1>11. CASE SynRexmitTimeout(e)
  <2> DEFINE d == process_TIMEOUT_SYN_REXMIT(k)
  <2>1. /\ k.synRexmitTimer /\ x.net = {} /\ y.net = {}
        /\ Handle(e, {d}, {}) /\ UNCHANGED <<numSent, hasClosed>>
    BY <1>0, <1>1, <1>11, Ends DEF SynRexmitTimeout, SynRexmitDue, MayFire, IsSide, OrderlySetup
  <2>2. k.state = "SYN_RCVD"
    BY <1>1, <1>2, <2>1 DEF Setup, Setting, Synchronized
  <2>3. Fits(y, x, d, y.sent) => ServerGoes(x, y, d, y.sent, y.closed, {})
    BY <1>0, <2>1, <2>2, ServerTimer
  <2> HIDE DEF d
  <2> QED BY <1>4, <2>1, <2>3
<1>12. CASE RexmitTimeout(e)
  <2> DEFINE d == processRexmitTimer(k)
  <2>1. k.rexmitTimer /\ Handle(e, {d}, {}) /\ UNCHANGED <<numSent, hasClosed>>
    BY <1>1, <1>12 DEF RexmitTimeout, RexmitDue
  <2>2. Fits(y, x, d, y.sent) => ServerGoes(x, y, d, y.sent, y.closed, {})
    BY <1>0, <1>1, <1>3, <2>1, SyncTimerGoes
  <2> HIDE DEF d
  <2> QED BY <1>4, <2>1, <2>2
<1>13. CASE TwoMslTimeout(e)
  <2> DEFINE d == IF k.the2MSLTimer > 1 THEN [k EXCEPT !.the2MSLTimer = @ - 1]
                                        ELSE process_TIMEOUT_2MSL(k)
  <2>1. k.the2MSLTimer > 0 /\ Handle(e, {d}, {}) /\ UNCHANGED <<numSent, hasClosed>>
    BY <1>1, <1>13 DEF TwoMslTimeout, TwoMslDue
  <2>2. Fits(y, x, d, y.sent) => ServerGoes(x, y, d, y.sent, y.closed, {})
    BY <1>0, <1>1, <1>3, <2>1, SyncTimerGoes
  <2> HIDE DEF d
  <2> QED BY <1>4, <2>1, <2>2
<1> QED
  BY <1>5, <1>6, <1>7, <1>8, <1>9, <1>10, <1>11, <1>12, <1>13 DEF Timeout

\* A side that has not been opened, whose peer has not been opened either.
LEMMA FreshSide ==
    ASSUME NEW a, NEW b, NEW e \in End, IsSide(a, e), IsSide(b, Peer(e)), Init,
           a.iss = InitialIss[e], a.max = 1, a.nxt = 1,
           b.iss = InitialIss[Peer(e)], b.max = 1, b.nxt = 1
    PROVE  /\ Typed(a, b) /\ SideOk(a, b) /\ \A first : InFlight(a, b, first)
           /\ a.conn.state = "INIT" /\ ~a.conn.active /\ a.net = {} /\ a.conn.ind = <<>>
<1> DEFINE c == NewConnection(InitialIss[e])
           v == ViewOf(a, b)
<1>1. /\ a.conn = c /\ a.sent = 0 /\ a.closed = FALSE /\ a.net = {} /\ b.sent = 0
      /\ InitialIss[e] \in SeqNo /\ 0 \in Number /\ 0 \in Nat
  BY Ends, HalfFacts, PairAssumption DEF Init, IsSide, Number
<1>2. c \in Connection(0, 0)
  BY <1>1, NewIsConnection
<1>3. /\ c.state = "INIT" /\ ~c.active /\ ~c.failed /\ c.out = {} /\ c.ind = <<>> /\ c.toApp = <<>>
      /\ ~c.send_fin /\ ~c.fin_ack_rcvd /\ ~c.rexmitTimer /\ c.the2MSLTimer = 0 /\ ~c.fin_rcvd
  BY DEF NewConnection
<1>4. v.sent = 0 /\ v.peerSent = 0 /\ v.peerMax = 1 /\ v.peerNxt = 1
  BY <1>1 DEF ViewOf, At
<1> HIDE DEF c, v
<1>5. Typed(a, b)
  BY <1>1, <1>2 DEF Typed
<1>6. Told2(c, v, 1)
  <2>1. Delivered(1, 0) = <<>>
    <3>1. Delivered(1, 0) = [i \in 1 .. 0 |-> i]
      BY DEF Delivered
    <3>2. [i \in 1 .. 0 |-> i] = <<>>
      OBVIOUS
    <3> QED BY <3>1, <3>2
  <2>2. Closing(<<>>) /\ \A w : ~Says(<<>>, w)
    BY DEF Closing, Says
  <2> QED BY <1>3, <1>4, <2>1, <2>2 DEF Told2
<1>7. Blank(c)
  BY <1>3 DEF Blank, Says
<1>8. EndOk(c, v, 1, 1, FALSE)
  <2>1. Counts(v, 1, 1, FALSE)
    BY <1>4 DEF Counts
  <2>2. c.state \notin Synchronized \cup Setting
    BY <1>3 DEF Synchronized, Setting
  <2> QED BY <1>3, <1>4, <1>6, <1>7, <2>1, <2>2 DEF EndOk
<1>9. SideOk(a, b)
  BY <1>1, <1>8 DEF SideOk, v
<1> QED
  BY <1>1, <1>3, <1>5, <1>9 DEF InFlight

\* At the beginning nothing has been sent.
THEOREM InitPaired ==
    ASSUME OrderlySetup
    PROVE  Init => Paired
<1> SUFFICES ASSUME Init PROVE Paired
  OBVIOUS
<1>1. PICK c \in End : Opens[c] = "ACTIVE" /\ Opens[Peer(c)] = "PASSIVE"
  BY DEF OrderlySetup
<1> DEFINE Fresh(e) == [conn |-> conn[e], sent |-> numSent[e], closed |-> hasClosed[e],
                        net |-> net[Peer(e)], iss |-> InitialIss[e], max |-> 1, nxt |-> 1]
           x == Fresh(c)
           y == Fresh(Peer(c))
<1>2. /\ IsSide(x, c) /\ x.iss = InitialIss[c] /\ x.max = 1 /\ x.nxt = 1
      /\ IsSide(y, Peer(c)) /\ y.iss = InitialIss[Peer(c)] /\ y.max = 1 /\ y.nxt = 1
  BY DEF IsSide
<1>3. Peer(c) \in End /\ Peer(Peer(c)) = c
  BY Ends
<1> HIDE DEF x, y
<1>4. /\ Typed(x, y) /\ SideOk(x, y) /\ InFlight(x, y, Syn(x.iss))
      /\ x.conn.state = "INIT" /\ x.net = {} /\ x.conn.ind = <<>>
  BY <1>2, <1>3, FreshSide
<1>5. /\ Typed(y, x) /\ SideOk(y, x) /\ InFlight(y, x, SynAck(y.iss, x.iss))
      /\ y.conn.state = "INIT" /\ ~y.conn.active /\ y.net = {} /\ y.conn.ind = <<>>
  BY <1>2, <1>3, FreshSide
<1>6. SetupOk(x, y)
  <2>1. /\ "INIT" \in Gone /\ "INIT" \notin Synchronized
        /\ ~Says(<<>>, "CONNECTION_RESET")
    BY DEF Gone, Synchronized, Says
  <2> QED BY <1>2, <1>4, <1>5, <2>1 DEF SetupOk, NothingYet
<1>7. hasClosed \in [End -> BOOLEAN]
  BY DEF Init
<1> QED
  BY <1>1, <1>2, <1>4, <1>5, <1>6, <1>7 DEF Paired, IsPair, PairOk, Both

\* Segments are lost.
LEMMA LostMoves ==
    ASSUME IInv, NEW c \in End, NEW x, NEW y, IsPair(c, x, y),
           NEW e \in End, SegmentLost(e)
    PROVE  PairMoves(c, x, y)
<1> DEFINE p == Peer(c)
<1>0. p \in End /\ p # c /\ Peer(p) = c
  BY Ends
<1>1. PICK s \in net[e] : net' = [net EXCEPT ![e] = @ \ {s}]
  BY DEF SegmentLost
<1>s. PICK S : S = net[p] \ net'[p]
  OBVIOUS
<1>t. PICK T : T = net[c] \ net'[c]
  OBVIOUS
<1> DEFINE x2 == Without(x, S)
           y2 == Without(y, T)
<1>2. net'[p] \subseteq net[p] /\ net'[c] \subseteq net[c]
  <2>1. net \in [End -> SUBSET Segment(0 .. Most)]
    BY DEF IInv
  <2> DEFINE U == Segment(0 .. Most)
  <2> HIDE DEF U, p
  <2> QED BY <1>0, <1>1, <2>1
<1>3. PairOk(x2, y2) /\ PairOk(x, y)
  BY SegmentsLost DEF IsPair
<1>4. /\ x2.conn = x.conn /\ x2.sent = x.sent /\ x2.closed = x.closed
      /\ x2.net = x.net \ S /\ x2.nxt = x.nxt
      /\ y2.conn = y.conn /\ y2.sent = y.sent /\ y2.closed = y.closed
      /\ y2.net = y.net \ T /\ y2.nxt = y.nxt
  BY DEF Without
<1>5. x.net \ S = net'[p] /\ y.net \ T = net'[c]
  BY <1>0, <1>2, <1>s, <1>t DEF IsPair, IsSide
<1>6. x.nxt <= x.nxt /\ y.nxt <= y.nxt
  <2>1. x.nxt \in Nat /\ y.nxt \in Nat
    BY <1>3, SeenByBoth
  <2> QED BY <2>1
<1>7. UNCHANGED <<conn, numSent, hasClosed>>
  BY DEF SegmentLost
<1> HIDE DEF x2, y2
<1>8. IsPair(c, x2, y2)'
  BY <1>0, <1>3, <1>4, <1>5, <1>7 DEF IsPair, IsSide
<1> QED
  BY <1>4, <1>6, <1>8 DEF PairMoves

\* Every step leads from a pair to a pair.
LEMMA NextMoves ==
    ASSUME OrderlySetup, IInv, IInv', [Next]_vars, hasClosed \in [End -> BOOLEAN],
           NEW c \in End, NEW x, NEW y, IsPair(c, x, y)
    PROVE  PairMoves(c, x, y)
<1>1. CASE UNCHANGED vars
  <2>1. IsPair(c, x, y)'
    BY <1>1 DEF vars, IsPair, IsSide
  <2>2. x.nxt <= x.nxt /\ y.nxt <= y.nxt
    <3>1. x.nxt \in Nat /\ y.nxt \in Nat
      BY SeenByBoth DEF IsPair
    <3> QED BY <3>1
  <2> QED BY <2>1, <2>2 DEF PairMoves
<1>2. CASE Next
  <2>1. PICK e \in End : \/ Open(e) \/ Send(e) \/ Close(e) \/ Abort(e)
                         \/ SegmentArrives(e) \/ SegmentLost(e) \/ Timeout(e)
    BY <1>2 DEF Next
  <2>2. e = c \/ e = Peer(c)
    BY Ends
  <2>3. CASE SegmentLost(e)
    BY <2>3, LostMoves
  <2>4. CASE ~SegmentLost(e)
    BY <2>1, <2>2, <2>4, ClientMoves, ServerMoves
  <2> QED BY <2>3, <2>4
<1> QED
  BY <1>1, <1>2

\* Every command, every segment, every loss and every timeout keeps the pair right.
THEOREM StepPaired ==
    ASSUME OrderlySetup
    PROVE  IInv /\ Paired /\ [Next]_vars => Paired'
<1> SUFFICES ASSUME IInv, Paired, [Next]_vars PROVE Paired'
  OBVIOUS
<1>1. IInv'
  BY StepGood
<1>2. PICK c \in End : \E x, y : IsPair(c, x, y)
  BY DEF Paired
<1>3. PICK x, y : IsPair(c, x, y)
  BY <1>2
<1>4. PairMoves(c, x, y)
  BY <1>1, <1>3, NextMoves DEF Paired
<1>5. hasClosed' \in [End -> BOOLEAN]
  <2>1. hasClosed \in [End -> BOOLEAN]
    BY DEF Paired
  <2>2. \/ UNCHANGED hasClosed \/ \E e \in End : hasClosed' = [hasClosed EXCEPT ![e] = TRUE]
    BY DEF Next, vars, Open, Send, Close, Abort, SegmentArrives, SegmentLost, Timeout,
           ConnEstabTimeout, SynRexmitTimeout, RexmitTimeout, TwoMslTimeout
  <2> QED BY <2>1, <2>2
<1> QED
  BY <1>4, <1>5 DEF PairMoves, Paired

\* The invariant of the two ends, the network between them and their applications.
THEOREM PairedInvariance ==
    ASSUME OrderlySetup
    PROVE  Spec => [](IInv /\ Paired)
<1>1. Init => IInv /\ Paired
  BY InitGood, InitPaired
<1>2. (IInv /\ Paired) /\ [Next]_vars => (IInv /\ Paired)'
  BY StepGood, StepPaired
<1> QED
  BY <1>1, <1>2, PTL DEF Spec

-----------------------------------------------------------------------------
(* What the pair means for the properties *)

\* Each end is the client or the server.
LEMMA EachEnd ==
    ASSUME IInv, Paired, NEW e \in End
    PROVE  \E a, b : Linked(a, b) /\ IsSide(a, e) /\ IsSide(b, Peer(e))
<1>1. PICK c \in End : \E x, y : IsPair(c, x, y)
  BY DEF Paired
<1>2. PICK x, y : IsPair(c, x, y)
  BY <1>1
<1>3. e = c \/ (e = Peer(c) /\ Peer(e) = c)
  BY Ends
<1> QED
  BY <1>2, <1>3 DEF IsPair, Linked

\* What is known of the connection of an end, v is its view.
LEMMA EndKnown ==
    ASSUME IInv, Paired, NEW e \in End
    PROVE  \E a, b, v :
              /\ v \in View /\ v.sent = numSent[e] /\ v.peerSent = numSent[Peer(e)]
              /\ conn[e] \in Connection(v.sent, v.peerSent)
              /\ EndOk(conn[e], v, a.max, a.nxt, hasClosed[e])
              /\ a.max \in Nat /\ a.nxt \in Nat /\ b.max \in Nat /\ b.nxt \in Nat
              /\ v.peerNxt = b.nxt /\ v.peerMax = b.max
              /\ conn[Peer(e)].toApp = Delivered(b.nxt, v.sent)
              /\ b.max <= v.peerSent + 2
              /\ b.max = v.peerSent + 2 => hasClosed[Peer(e)]
<1>1. PICK a, b : Linked(a, b) /\ IsSide(a, e) /\ IsSide(b, Peer(e))
  BY EachEnd
<1>2. Linked(b, a)
  BY <1>1 DEF Linked
<1> DEFINE v == At(a.sent, a.iss, b)
           w == At(b.sent, b.iss, a)
<1>3. /\ v \in View /\ v.sent = a.sent /\ v.peerSent = b.sent
      /\ v.peerMax = b.max /\ v.peerNxt = b.nxt
      /\ a.conn \in Connection(v.sent, v.peerSent)
      /\ EndOk(a.conn, v, a.max, a.nxt, a.closed)
  BY <1>1, LinkedSeen
<1>4. /\ w.sent = b.sent /\ w.peerSent = a.sent
      /\ EndOk(b.conn, w, b.max, b.nxt, b.closed)
  BY <1>2, LinkedSeen
<1> HIDE DEF v, w
<1>5. /\ a.max \in Nat /\ a.nxt \in Nat /\ b.max \in Nat /\ b.nxt \in Nat
      /\ b.conn.toApp = Delivered(b.nxt, a.sent)
      /\ b.max <= b.sent + 2 /\ (b.max = b.sent + 2 => b.closed)
  BY <1>3, <1>4 DEF EndOk, Counts, Told2
<1>6. /\ a.conn = conn[e] /\ a.sent = numSent[e] /\ a.closed = hasClosed[e]
      /\ b.conn = conn[Peer(e)] /\ b.sent = numSent[Peer(e)] /\ b.closed = hasClosed[Peer(e)]
  BY <1>1 DEF IsSide
<1> QED
  BY <1>3, <1>5, <1>6

\* The offsets of an established connection.
LEMMA LiveFlow ==
    ASSUME NEW c, NEW v, NEW max, NEW nxt, NEW closed, EndOk(c, v, max, nxt, closed),
           c.state \in Synchronized
    PROVE  /\ SendSide(c, v) /\ RecvSide(c, v) /\ Control(c, v)
           /\ Una(c, v) <= v.peerNxt /\ Rcv(c, v) = nxt /\ Top(c, v) = max
BY SyncFlow DEF Flow

\* NoAssertionFails: neither ends, nor do their queues, come to a failed assertion.
THEOREM NoneFails ==
    ASSUME OrderlySetup
    PROVE  Spec => []NoAssertionFails
<1>1. IInv /\ Paired => NoAssertionFails
  <2> SUFFICES ASSUME IInv, Paired, NEW e \in End PROVE ~conn[e].failed
    BY DEF NoAssertionFails, Running
  <2> QED BY EndKnown DEF EndOk
<1> QED
  BY <1>1, PairedInvariance, PTL

\* RexmitTimerExact: the REXMIT timer of an established connection runs exactly
\* when something it has sent is not acknowledged.
THEOREM TimerRunsForUnacknowledged ==
    ASSUME OrderlySetup
    PROVE  Spec => []RexmitTimerExact
<1>1. IInv /\ Paired => RexmitTimerExact
  <2> SUFFICES ASSUME IInv, Paired, NEW e \in End, conn[e].state \in Synchronized
               PROVE  conn[e].rexmitTimer <=> conn[e].snd_una # conn[e].snd_max
    BY DEF RexmitTimerExact
  <2> QED BY EndKnown, LiveFlow DEF Control, TimerExact
<1> QED
  BY <1>1, PairedInvariance, PTL

\* TimersMatchState: the timers of connection setup run in SYN_SENT and SYN_RCVD
\* only, the 2MSL timer exactly in TIME_WAIT.
THEOREM TimersOnlyWhereExpected ==
    ASSUME OrderlySetup
    PROVE  Spec => []TimersMatchState
<1>1. IInv /\ Paired => \A e \in End : conn[e].the2MSLTimer > 0 <=> conn[e].state = "TIME_WAIT"
  <2> SUFFICES ASSUME IInv, Paired, NEW e \in End
               PROVE  conn[e].the2MSLTimer > 0 <=> conn[e].state = "TIME_WAIT"
    OBVIOUS
  <2> DEFINE c == conn[e]
  <2>1. PICK a, b, v : c \in Connection(v.sent, v.peerSent)
                       /\ EndOk(c, v, a.max, a.nxt, hasClosed[e])
    BY EndKnown
  <2>2. c.state \in Beginning \cup Synchronized \cup {"CLOSED"}
    BY <2>1, ConnectionTypes, States
  <2> HIDE DEF c
  <2>3. CASE c.state \in Synchronized
    BY <2>1, <2>3, LiveFlow DEF Control, c
  <2>4. CASE c.state \in Beginning \cup {"CLOSED"}
    <3>1. c.the2MSLTimer = 0
      BY <2>1, <2>4 DEF EndOk, Blank
    <3>2. c.state # "TIME_WAIT"
      BY <2>4 DEF Beginning
    <3> QED BY <3>1, <3>2 DEF c
  <2> QED BY <2>2, <2>3, <2>4
<1>2. Spec => []SetupTimersMatchState
  BY TimersExpected, PTL
<1> QED
  BY <1>1, <1>2, PairedInvariance, PTL DEF TimersMatchState

\* IndicationsWellFormed: CLOSED is the last indication, PEER_CLOSED comes after
\* ESTABLISHED.
THEOREM IndicationsRight ==
    ASSUME OrderlySetup
    PROVE  Spec => []IndicationsWellFormed
<1> DEFINE Last == \A e \in End : LET i == conn[e].ind
                                  IN  \A n \in DOMAIN i : i[n] = "CLOSED" => n = Len(i)
<1>1. IInv /\ Paired => Last
  <2> SUFFICES ASSUME IInv, Paired, NEW e \in End
               PROVE  LET i == conn[e].ind
                      IN  \A n \in DOMAIN i : i[n] = "CLOSED" => n = Len(i)
    OBVIOUS
  <2> DEFINE i == conn[e].ind
  <2>1. Closing(i) /\ i \in Seq(Indication)
    BY EndKnown, ConnectionTypes DEF EndOk, Told2
  <2> HIDE DEF i
  <2>2. DOMAIN i = 1 .. Len(i)
    BY <2>1
  <2>3. \A n \in DOMAIN i : i[n] = "CLOSED" => n = Len(i)
    BY <2>1, <2>2 DEF Closing
  <2> QED BY <2>3 DEF i
<1>2. PeerClosedOnlyWhenOpen /\ Last => IndicationsWellFormed
  BY DEF IndicationsWellFormed
<1> HIDE DEF Last
<1> QED
  BY <1>1, <1>2, PairedInvariance, PeerClosedAfterEstablished, PTL

\* FinAfterAllData: the state that is entered with the peer's FIN is entered after
\* all of the peer's items have been delivered.
THEOREM FinIsLast ==
    ASSUME OrderlySetup
    PROVE  Spec => []FinAfterAllData
<1>1. IInv /\ Paired => FinAfterAllData
  <2> SUFFICES ASSUME IInv, Paired, NEW e \in End, conn[e].state \in FinConsumed
               PROVE  hasClosed[Peer(e)] /\ Len(conn[e].toApp) = numSent[Peer(e)]
    BY DEF FinAfterAllData
  <2> DEFINE c == conn[e]
             M == numSent[Peer(e)]
  <2>1. PICK a, b, v :
          /\ v \in View /\ v.peerSent = M
          /\ EndOk(c, v, a.max, a.nxt, hasClosed[e])
          /\ b.max \in Nat /\ v.peerMax = b.max /\ b.max <= v.peerSent + 2
          /\ b.max = v.peerSent + 2 => hasClosed[Peer(e)]
    BY EndKnown
  <2>2. c.state \in Synchronized
    BY DEF FinConsumed, Synchronized
  <2>3. RecvSide(c, v) /\ Control(c, v)
    BY <2>1, <2>2, LiveFlow
  <2>4. Rcv(c, v) = M + 2 /\ M \in Nat
    BY <2>1, <2>3, ViewTypes DEF Control
  <2> HIDE DEF c, M
  <2>5. hasClosed[Peer(e)]
    BY <2>1, <2>3, <2>4 DEF RecvSide
  <2>6. c.toApp = [i \in 1 .. M |-> i]
    BY <2>1, <2>3, <2>4 DEF RecvSide, Delivered
  <2>7. Len(c.toApp) = M
    BY <2>4, <2>6
  <2> QED BY <2>5, <2>7 DEF c, M
<1> QED
  BY <1>1, PairedInvariance, PTL

\* NothingLost: an item that has left the send queue of an established connection
\* has been delivered.
THEOREM NoItemLost ==
    ASSUME OrderlySetup
    PROVE  Spec => []NothingLost
<1>1. IInv /\ Paired => NothingLost
  <2> SUFFICES ASSUME IInv, Paired, NEW e \in End, conn[e].state \in Synchronized
               PROVE  numSent[e] <= Len(conn[Peer(e)].toApp) + Len(conn[e].sendQueue)
    BY DEF NothingLost
  <2> DEFINE c == conn[e]
             N == numSent[e]
  <2>1. PICK a, b, v :
          /\ v \in View /\ v.sent = N
          /\ EndOk(c, v, a.max, a.nxt, hasClosed[e])
          /\ b.nxt \in Nat /\ v.peerNxt = b.nxt
          /\ c \in Connection(v.sent, v.peerSent)
          /\ conn[Peer(e)].toApp = Delivered(b.nxt, v.sent)
    BY EndKnown
  <2>2. SendSide(c, v) /\ Una(c, v) <= v.peerNxt /\ N \in Nat
    BY <2>1, LiveFlow, ViewTypes
  <2> DEFINE u == Una(c, v)
             g == Beg(c, v)
             k == N + 1 - g
             r == b.nxt
             m == IF r = N + 2 THEN N ELSE r - 1
  <2>3. /\ u \in Nat /\ r \in Nat /\ 1 <= u /\ u <= r /\ u <= N + 2
        /\ g = IF u = N + 2 THEN N + 1 ELSE u
        /\ c.sendQueue = [i \in 1 .. k |-> g + i - 1]
        /\ conn[Peer(e)].toApp = [i \in 1 .. m |-> i]
    <3>1. Una(c, v) \in Nat /\ Top(c, v) \in Nat /\ Nxt(c, v) \in Nat
      BY <2>1, ConnectionTypes, ViewTypes, OffsetType DEF Una, Top, Nxt
    <3> QED BY <2>1, <2>2, <3>1 DEF SendSide, Delivered
  <2> HIDE DEF u, g, r, N, c
  <2>4. k \in Nat /\ m \in Nat /\ N <= m + k
    BY <2>2, <2>3
  <2> HIDE DEF k, m
  <2>5. Len(c.sendQueue) = k /\ Len(conn[Peer(e)].toApp) = m
    BY <2>3, <2>4
  <2> QED BY <2>4, <2>5 DEF c, N
<1> QED
  BY <1>1, PairedInvariance, PTL

\* The order of the sequence variables of one established connection.
LEMMA LiveOrder ==
    ASSUME NEW v \in View, NEW c \in Connection(v.sent, v.peerSent), SendSide(c, v)
    PROVE  /\ seqLE(c.snd_una, c.snd_nxt) /\ seqLE(c.snd_nxt, c.snd_max)
           /\ seqLE(c.begin, c.snd_una)
           /\ seqLE(c.snd_max, Plus(BufferEndSeq(c), 1))
<1> DEFINE N == v.sent
           o == v.iss
           a == c.snd_una
           x == c.snd_nxt
           t == c.snd_max
           b == c.begin
           L == Len(c.sendQueue)
           f == Plus(b, L)
           g == Plus(f, 1)
<1>1. /\ N \in Nat /\ N + 2 <= Half /\ Half \in Nat /\ o \in SeqNo
      /\ a \in SeqNo /\ x \in SeqNo /\ t \in SeqNo /\ b \in SeqNo
  BY ViewTypes, ConnectionTypes
<1>2. /\ Minus(a, o) \in Nat /\ Minus(x, o) \in Nat /\ Minus(t, o) \in Nat /\ Minus(b, o) \in Nat
  BY <1>1, OffsetType
<1>3. /\ 1 <= Minus(a, o) /\ Minus(a, o) <= Minus(x, o) /\ Minus(x, o) <= Minus(t, o)
      /\ Minus(t, o) <= N + 2
      /\ Minus(b, o) = IF Minus(a, o) = N + 2 THEN N + 1 ELSE Minus(a, o)
      /\ c.sendQueue = [i \in 1 .. N + 1 - Minus(b, o) |-> Minus(b, o) + i - 1]
  BY DEF SendSide, Una, Nxt, Top, Beg
<1>4. BufferEndSeq(c) = f
  BY DEF BufferEndSeq
<1> HIDE DEF a, x, t, b, o, N, L
<1>5. L = N + 1 - Minus(b, o) /\ L \in Nat /\ 1 <= Minus(b, o)
  <2> DEFINE q == Minus(b, o)
             k == N + 1 - q
  <2>1. q \in Nat /\ k \in Nat /\ 1 <= q
    BY <1>1, <1>2, <1>3
  <2>2. c.sendQueue = [i \in 1 .. k |-> q + i - 1]
    BY <1>3
  <2> HIDE DEF q, k
  <2>3. Len(c.sendQueue) = k
    BY <2>1, <2>2
  <2> QED BY <2>1, <2>3 DEF L, k, q
<1>6. f \in SeqNo /\ Minus(f, o) = N + 1
  <2>1. Minus(b, o) + L < SeqMod /\ Minus(b, o) + L = N + 1
    BY <1>1, <1>2, <1>5, HalfFacts
  <2> QED BY <1>1, <1>5, <2>1, OffsetPlus
<1> HIDE DEF f
<1>7. g \in SeqNo /\ Minus(g, o) = N + 2
  <2>1. Minus(f, o) + 1 < SeqMod /\ 1 \in Nat /\ N + 1 + 1 = N + 2
    BY <1>1, <1>6, HalfFacts
  <2> QED BY <1>1, <1>6, <2>1, OffsetPlus
<1> HIDE DEF g
<1>8. ASSUME NEW p \in SeqNo, NEW q \in SeqNo,
             Minus(p, o) \in Nat, Minus(q, o) \in Nat, 1 <= Minus(p, o),
             Minus(p, o) <= Minus(q, o), Minus(q, o) <= N + 2
      PROVE  seqLE(p, q)
  <2>1. /\ Minus(p, o) - Minus(q, o) < Half /\ Minus(q, o) - Minus(p, o) < Half
    BY <1>1, <1>8
  <2> QED BY <1>1, <1>8, <2>1, Offsets
<1>9. seqLE(a, x) /\ seqLE(x, t)
  <2>1. 1 <= Minus(x, o) /\ Minus(x, o) <= N + 2
    BY <1>1, <1>2, <1>3
  <2> QED BY <1>1, <1>2, <1>3, <1>8, <2>1
<1>10. seqLE(b, a)
  <2>1. Minus(b, o) <= Minus(a, o) /\ Minus(a, o) <= N + 2
    BY <1>1, <1>2, <1>3
  <2> QED BY <1>1, <1>2, <1>5, <1>8, <2>1
<1>11. seqLE(t, g)
  <2>1. 1 <= Minus(t, o) /\ Minus(g, o) <= N + 2 /\ Minus(t, o) <= Minus(g, o) /\ Minus(g, o) \in Nat
    BY <1>1, <1>2, <1>3, <1>7
  <2> QED BY <1>1, <1>2, <1>7, <1>8, <2>1
<1> QED
  BY <1>4, <1>9, <1>10, <1>11 DEF a, x, t, b, g, f

\* SequenceOrder: the sequence variables of an established connection stay in
\* order, across the wrap of sequence numbers.
THEOREM SequenceInOrder ==
    ASSUME OrderlySetup
    PROVE  Spec => []SequenceOrder
<1>1. IInv /\ Paired => SequenceOrder
  <2> SUFFICES ASSUME IInv, Paired, NEW e \in End, conn[e].state \in Synchronized
               PROVE  LET c == conn[e]
                      IN  /\ seqLE(c.snd_una, c.snd_nxt) /\ seqLE(c.snd_nxt, c.snd_max)
                          /\ seqLE(c.begin, c.snd_una)
                          /\ seqLE(c.snd_max, Plus(BufferEndSeq(c), 1))
    BY DEF SequenceOrder
  <2>1. PICK a, b, v : /\ v \in View /\ conn[e] \in Connection(v.sent, v.peerSent)
                       /\ EndOk(conn[e], v, a.max, a.nxt, hasClosed[e])
    BY EndKnown
  <2>2. SendSide(conn[e], v)
    BY <2>1, LiveFlow
  <2> QED BY <2>1, <2>2, LiveOrder
<1> QED
  BY <1>1, PairedInvariance, PTL

\* ResetHasCause: an application is told of a reset only if the other end has no
\* established connection.
THEOREM ResetOnlyWithCause ==
    ASSUME OrderlySetup
    PROVE  Spec => []ResetHasCause
<1>1. IInv /\ Paired => ResetHasCause
  <2> SUFFICES ASSUME IInv, Paired, NEW e \in End, Told(e, "CONNECTION_RESET")
               PROVE  conn[Peer(e)].state \notin Synchronized
    BY DEF ResetHasCause
  <2>1. PICK c \in End : \E x, y : IsPair(c, x, y)
    BY DEF Paired
  <2>2. PICK x, y : IsPair(c, x, y)
    BY <2>1
  <2>3. /\ x.conn = conn[c] /\ y.conn = conn[Peer(c)] /\ SetupOk(x, y)
    BY <2>2, SeenByBoth DEF IsPair, IsSide
  <2>4. Says(conn[e].ind, "CONNECTION_RESET")
    <3> DEFINE i == conn[e].ind
    <3>1. i \in Seq(Indication)
      BY EndKnown, ConnectionTypes
    <3>2. \E n \in DOMAIN i : i[n] = "CONNECTION_RESET"
      BY DEF Told
    <3> HIDE DEF i
    <3>3. DOMAIN i = 1 .. Len(i)
      BY <3>1
    <3> QED BY <3>2, <3>3 DEF Says, i
  <2>5. (Gone \cup {"SYN_SENT", "CLOSED"}) \cap Synchronized = {}
    BY DEF Gone, Synchronized
  <2>6. CASE e = c
    BY <2>3, <2>4, <2>5, <2>6 DEF SetupOk
  <2>7. CASE e = Peer(c)
    <3>1. Peer(e) = c
      BY <2>7, Ends
    <3> QED BY <2>3, <2>4, <2>5, <2>7, <3>1 DEF SetupOk
  <2> QED BY <2>6, <2>7, Ends
<1> QED
  BY <1>1, PairedInvariance, PTL

-----------------------------------------------------------------------------
(* The reliable stream: what an application was told, it stays told *)

\* d says what c says.
Quiet(c, d) == "ind" \in DOMAIN c => "ind" \in DOMAIN d /\ d.ind = c.ind

\* d says what c says, and perhaps more.
Recalls(c, d) ==
    "ind" \in DOMAIN c /\ c.ind \in Seq(Indication) =>
        /\ "ind" \in DOMAIN d /\ d.ind \in Seq(Indication)
        /\ \A x : Says(c.ind, x) => Says(d.ind, x)

\* Saying nothing more is recalling.
LEMMA QuietRecalls ==
    ASSUME NEW c, NEW d, Quiet(c, d)
    PROVE  Recalls(c, d)
BY DEF Quiet, Recalls

\* Quiet is transitive.
LEMMA QuietTwice ==
    ASSUME NEW c, NEW d, NEW e, Quiet(c, d), Quiet(d, e)
    PROVE  Quiet(c, e)
BY DEF Quiet

\* So is Recalls.
LEMMA RecallsTwice ==
    ASSUME NEW c, NEW d, NEW e, Recalls(c, d), Recalls(d, e)
    PROVE  Recalls(c, e)
BY DEF Recalls

\* What sends a segment or sets a timer says nothing.
LEMMA QuietSends ==
    ASSUME NEW c
    PROVE  /\ Quiet(c, c) /\ Quiet(c, sendSyn(c)) /\ Quiet(c, sendSynAck(c))
           /\ Quiet(c, sendAck(c)) /\ Quiet(c, sendFin(c))
           /\ \A s : Quiet(c, Emit(c, s)) /\ Quiet(c, sendRst(c, s))
           /\ Quiet(c, selectInitialSeqNum(c)) /\ Quiet(c, startRexmitTimer(c))
           /\ Quiet(c, startSynRexmitTimer(c)) /\ Quiet(c, start2MSLTimer(c))
           /\ Quiet(c, cancelSetupTimers(c)) /\ Quiet(c, Outstanding(c))
           /\ \A a : Quiet(c, discardUpTo(c, a)) /\ Quiet(c, sendSegments(c, a))
           /\ \A s : Quiet(c, insertBytesFromSegment(c, s))
<1>1. /\ Quiet(c, c) /\ Quiet(c, cancelSetupTimers(c)) /\ Quiet(c, Outstanding(c))
      /\ Quiet(c, startRexmitTimer(c)) /\ Quiet(c, startSynRexmitTimer(c))
      /\ Quiet(c, start2MSLTimer(c))
  BY DEF Quiet, cancelSetupTimers, Outstanding, startRexmitTimer, startSynRexmitTimer,
         start2MSLTimer
<1>2. \A s : Quiet(c, Emit(c, s))
  BY DEF Quiet, Emit
<1>3. /\ Quiet(c, sendSyn(c)) /\ Quiet(c, sendSynAck(c))
      /\ Quiet(c, sendAck(c)) /\ Quiet(c, sendFin(c)) /\ \A s : Quiet(c, sendRst(c, s))
  BY DEF Quiet, Emit, sendSyn, sendSynAck, sendAck, sendFin, sendRst
<1>4. Quiet(c, selectInitialSeqNum(c)) /\ \A a : Quiet(c, discardUpTo(c, a))
  BY DEF Quiet, selectInitialSeqNum, discardUpTo
<1>5. \A a : Quiet(c, sendSegments(c, a))
  BY DEF Quiet, sendSegments
<1>6. \A s : Quiet(c, insertBytesFromSegment(c, s))
  BY DEF Quiet, insertBytesFromSegment
<1> QED
  BY <1>1, <1>2, <1>3, <1>4, <1>5, <1>6

\* Sending from the queue says nothing.
LEMMA QuietData ==
    ASSUME NEW c, NEW win
    PROVE  /\ Quiet(c, sendData(c, win)) /\ Quiet(c, retransmitOneSegment(c, win))
           /\ Quiet(c, receivedDataAck(c, win)) /\ Quiet(c, receivedDuplicateAck(c, win))
           /\ Quiet(c, ackOfSyn(c, win))
<1>1. ASSUME NEW b, NEW w PROVE Quiet(b, sendDataFromNxt(b, w))
  <2> DEFINE g == sendSegments(b, BytesToSend(b, w))
  <2>1. Quiet(b, g) /\ Quiet(g, Outstanding(g)) /\ Quiet(b, b)
    BY QuietSends
  <2> HIDE DEF g
  <2>2. Quiet(b, Outstanding(g))
    BY <2>1, QuietTwice
  <2> QED BY <2>1, <2>2 DEF sendDataFromNxt, g
<1>2. ASSUME NEW b, NEW w PROVE Quiet(b, sendData(b, w))
  <2> DEFINE g == IF b.afterRto THEN b ELSE [b EXCEPT !.snd_nxt = b.snd_max]
  <2>1. Quiet(b, g)
    BY DEF Quiet
  <2> HIDE DEF g
  <2>2. Quiet(b, sendDataFromNxt(g, w))
    BY <1>1, <2>1, QuietTwice
  <2> QED BY <2>2 DEF sendData, g
<1>3. ASSUME NEW b, NEW w PROVE Quiet(b, retransmitOneSegment(b, w))
  <2> DEFINE c1 == [b EXCEPT !.snd_nxt = b.snd_una]
             c2 == sendSegments(c1, 1)
             end == BufferEndSeq(b)
             c3 == [c1 EXCEPT !.snd_nxt = end]
             c4 == sendFin(c3)
  <2>1. Quiet(b, c1) /\ Quiet(c1, c2) /\ Quiet(c1, c3) /\ Quiet(c3, c4)
    BY QuietSends DEF Quiet
  <2>2. /\ \A a : Quiet(c2, [c2 EXCEPT !.snd_nxt = a])
        /\ \A a : Quiet(c4, [c4 EXCEPT !.snd_nxt = a, !.snd_max = a])
        /\ Quiet(b, [b EXCEPT !.failed = TRUE])
    BY DEF Quiet
  <2>3. Quiet(b, c2) /\ Quiet(b, c4)
    BY <2>1, QuietTwice
  <2>4. /\ \A a : Quiet(b, [c2 EXCEPT !.snd_nxt = a])
        /\ \A a : Quiet(b, [c4 EXCEPT !.snd_nxt = a, !.snd_max = a])
    BY <2>2, <2>3, QuietTwice
  <2>5. \/ retransmitOneSegment(b, w) = c2
        \/ \E a : retransmitOneSegment(b, w) = [c2 EXCEPT !.snd_nxt = a]
        \/ \E a : retransmitOneSegment(b, w) = [c4 EXCEPT !.snd_nxt = a, !.snd_max = a]
        \/ retransmitOneSegment(b, w) = [b EXCEPT !.failed = TRUE]
    <3>1. \/ retransmitOneSegment(b, w) = c2
          \/ retransmitOneSegment(b, w) = [c2 EXCEPT !.snd_nxt = seqMax(b.snd_nxt, @)]
          \/ retransmitOneSegment(b, w) =
                [c4 EXCEPT !.snd_nxt = Plus(end, 1), !.snd_max = Plus(end, 1)]
          \/ retransmitOneSegment(b, w) = [b EXCEPT !.failed = TRUE]
      BY DEF retransmitOneSegment
    <3> QED BY <3>1
  <2> HIDE DEF c1, c2, c3, c4
  <2> QED BY <2>2, <2>3, <2>4, <2>5
<1>4. Quiet(c, receivedDataAck(c, win))
  <2> DEFINE g == IF c.snd_una = c.snd_max THEN [c EXCEPT !.rexmitTimer = FALSE]
                                           ELSE startRexmitTimer(c)
             h == sendData(g, win)
  <2>1. Quiet(c, g) /\ Quiet(g, h)
    BY <1>2, QuietSends DEF Quiet
  <2> HIDE DEF g
  <2>2. Quiet(h, [h EXCEPT !.dupacks = 0])
    BY DEF Quiet
  <2>3. receivedDataAck(c, win) = [h EXCEPT !.dupacks = 0]
    BY DEF receivedDataAck, g
  <2> HIDE DEF h
  <2> QED BY <2>1, <2>2, <2>3, QuietTwice
<1>5. Quiet(c, receivedDuplicateAck(c, win))
  <2> DEFINE c1 == [c EXCEPT !.dupacks = IF @ > DUPTHRESH THEN @ ELSE @ + 1]
             g == IF c1.dupacks = DUPTHRESH THEN retransmitOneSegment(c1, FALSE) ELSE c1
  <2>1. Quiet(c, c1)
    BY DEF Quiet
  <2>2. receivedDuplicateAck(c, win) =
          IF c1.dupacks < DUPTHRESH THEN c1 ELSE sendData(g, win)
    BY DEF receivedDuplicateAck
  <2> HIDE DEF c1
  <2>3. Quiet(c1, g)
    BY <1>3, QuietSends
  <2> HIDE DEF g
  <2>4. Quiet(c1, sendData(g, win))
    BY <1>2, <2>3, QuietTwice
  <2> QED BY <2>1, <2>2, <2>4, QuietTwice
<1>6. Quiet(c, ackOfSyn(c, win))
  <2> DEFINE g == sendData(c, win)
  <2>1. Quiet(c, g) /\ Quiet(g, sendAck(g))
    BY <1>2, QuietSends
  <2>2. ackOfSyn(c, win) = IF g.out = c.out THEN sendAck(g) ELSE g
    BY DEF ackOfSyn
  <2> HIDE DEF g
  <2> QED BY <2>1, <2>2, QuietTwice
<1> QED
  BY <1>2, <1>3, <1>4, <1>5, <1>6

\* What was told stays told when more is.
LEMMA TellsRecalls ==
    ASSUME NEW c, NEW x \in Indication
    PROVE  Recalls(c, sendIndicationToApp(c, x))
<1> SUFFICES ASSUME "ind" \in DOMAIN c, c.ind \in Seq(Indication)
             PROVE  LET d == sendIndicationToApp(c, x)
                    IN  /\ "ind" \in DOMAIN d /\ d.ind \in Seq(Indication)
                        /\ \A y : Says(c.ind, y) => Says(d.ind, y)
  BY DEF Recalls
<1> DEFINE j == Append(c.ind, x)
<1>1. j \in Seq(Indication) /\ \A y : Says(c.ind, y) => Says(j, y)
  BY Saying
<1>2. "ind" \in DOMAIN sendIndicationToApp(c, x) /\ sendIndicationToApp(c, x).ind = j
  BY DEF sendIndicationToApp
<1> QED BY <1>1, <1>2

\* A transition may tell the application something.
LEMMA TransitionRecalls ==
    ASSUME NEW c, NEW event
    PROVE  Recalls(c, performStateTransition(c, event))
<1>1. \A b : \A x \in Indication : Recalls(b, sendIndicationToApp(b, x))
  BY TellsRecalls
<1>2. ASSUME NEW b, NEW old PROVE Recalls(b, stateEntered(b, old, event))
  <2>1. /\ Recalls(b, b) /\ Recalls(b, cancelSetupTimers(b))
    BY QuietSends, QuietRecalls
  <2>2. Recalls(b, cancelSetupTimers(sendIndicationToApp(b, "PEER_CLOSED")))
    <3> DEFINE g == sendIndicationToApp(b, "PEER_CLOSED")
    <3>1. Recalls(b, g)
      BY <1>1 DEF Indication
    <3>2. Recalls(g, cancelSetupTimers(g))
      BY QuietSends, QuietRecalls
    <3> HIDE DEF g
    <3>3. Recalls(b, cancelSetupTimers(g))
      BY <3>1, <3>2, RecallsTwice
    <3> QED BY <3>3 DEF g
  <2>3. Recalls(b, sendIndicationToApp(b, "CLOSED"))
    BY <1>1 DEF Indication
  <2>4. LET c1 == [cancelSetupTimers(b) EXCEPT !.the2MSLTimer = 0, !.rexmitTimer = FALSE]
        IN  Recalls(b, c1) /\ Recalls(b, sendIndicationToApp(c1, "CLOSED"))
    <3> DEFINE c0 == cancelSetupTimers(b)
               c1 == [c0 EXCEPT !.the2MSLTimer = 0, !.rexmitTimer = FALSE]
    <3>1. Quiet(c0, c1)
      BY DEF Quiet
    <3>2. Recalls(b, c1)
      BY <2>1, <3>1, QuietRecalls, RecallsTwice
    <3>3. Recalls(c1, sendIndicationToApp(c1, "CLOSED"))
      BY <1>1 DEF Indication
    <3>4. Recalls(b, sendIndicationToApp(c1, "CLOSED"))
      BY <3>2, <3>3, RecallsTwice
    <3> QED BY <3>2, <3>4
  <2>5. \/ stateEntered(b, old, event) = cancelSetupTimers(b)
        \/ stateEntered(b, old, event) =
              cancelSetupTimers(sendIndicationToApp(b, "PEER_CLOSED"))
        \/ stateEntered(b, old, event) = sendIndicationToApp(b, "CLOSED")
        \/ stateEntered(b, old, event) =
              LET c1 == [cancelSetupTimers(b) EXCEPT !.the2MSLTimer = 0, !.rexmitTimer = FALSE]
              IN  IF old # "TIME_WAIT" /\ event # "ABORT"
                  THEN sendIndicationToApp(c1, "CLOSED") ELSE c1
        \/ stateEntered(b, old, event) = b
    BY DEF stateEntered
  <2> QED BY <2>1, <2>2, <2>3, <2>4, <2>5
<1>3. CASE c.failed \/ NextState(c, event) = c.state
  <2>1. performStateTransition(c, event) = c
    BY <1>3 DEF performStateTransition, enterState
  <2> QED BY <2>1, QuietSends, QuietRecalls
<1>4. CASE ~(c.failed \/ NextState(c, event) = c.state)
  <2> DEFINE b == [c EXCEPT !.state = NextState(c, event)]
  <2>1. performStateTransition(c, event) = stateEntered(b, c.state, event)
    BY <1>4 DEF performStateTransition, enterState
  <2>2. Recalls(c, b)
    <3>1. Quiet(c, b)
      BY DEF Quiet
    <3> QED BY <3>1, QuietRecalls
  <2> HIDE DEF b
  <2>3. Recalls(b, stateEntered(b, c.state, event))
    BY <1>2
  <2> QED BY <2>1, <2>2, <2>3, RecallsTwice
<1> QED
  BY <1>3, <1>4

\* A handler that ends with a transition.
LEMMA ThenRecalls ==
    ASSUME NEW c, NEW d, Recalls(c, d), NEW event
    PROVE  Recalls(c, performStateTransition(d, event))
BY TransitionRecalls, RecallsTwice

\* The commands of the application and the timers.
LEMMA CommandsRecall ==
    ASSUME NEW c
    PROVE  /\ Recalls(c, process_OPEN_ACTIVE(c)) /\ Recalls(c, process_OPEN_PASSIVE(c))
           /\ \A item, win : Recalls(c, process_SEND(c, item, win))
           /\ Recalls(c, process_CLOSE(c)) /\ Recalls(c, process_ABORT(c))
           /\ Recalls(c, process_TIMEOUT_CONN_ESTAB(c)) /\ Recalls(c, process_TIMEOUT_2MSL(c))
           /\ Recalls(c, process_TIMEOUT_SYN_REXMIT(c)) /\ Recalls(c, processRexmitTimer(c))
<1>0. Recalls(c, c)
  BY QuietSends, QuietRecalls
<1>1. Recalls(c, process_OPEN_ACTIVE(c))
  <2> DEFINE b1 == selectInitialSeqNum(c)
             b2 == sendSyn(b1)
             b3 == startSynRexmitTimer(b2)
             b4 == [b3 EXCEPT !.active = TRUE, !.connEstabTimer = TRUE]
  <2>1. Quiet(c, b1) /\ Quiet(b1, b2) /\ Quiet(b2, b3)
    BY QuietSends
  <2> HIDE DEF b3
  <2>2. Quiet(b3, b4)
    BY DEF Quiet
  <2>3. process_OPEN_ACTIVE(c) = performStateTransition(b4, "OPEN_ACTIVE")
    BY DEF process_OPEN_ACTIVE, b3
  <2> HIDE DEF b1, b2, b4
  <2>4. Recalls(c, b4)
    BY <2>1, <2>2, QuietTwice, QuietRecalls
  <2> QED BY <2>3, <2>4, ThenRecalls
<1>2. Recalls(c, process_OPEN_PASSIVE(c))
  BY TransitionRecalls DEF process_OPEN_PASSIVE
<1>3. ASSUME NEW item, NEW win PROVE Recalls(c, process_SEND(c, item, win))
  <2> DEFINE c1 == [c EXCEPT !.sendQueue = Append(@, item)]
             c2 == [c EXCEPT !.failed = TRUE]
  <2>1. Quiet(c, c1) /\ Quiet(c, c2)
    BY DEF Quiet
  <2>2. process_SEND(c, item, win) \in {c1, sendData(c1, win), c2}
    BY DEF process_SEND
  <2> HIDE DEF c1, c2
  <2>3. Quiet(c, sendData(c1, win))
    BY <2>1, QuietData, QuietTwice
  <2> QED BY <2>1, <2>2, <2>3, QuietRecalls
<1>4. Recalls(c, process_CLOSE(c))
  <2> DEFINE end == BufferEndSeq(c)
             c1 == [c EXCEPT !.send_fin = TRUE, !.snd_fin_seq = end]
             b1 == [c1 EXCEPT !.snd_nxt = c.snd_max]
             b2 == sendFin(b1)
             c2 == startRexmitTimer(b2)
             c3 == [c2 EXCEPT !.snd_nxt = Plus(end, 1), !.snd_max = Plus(end, 1)]
             c4 == [c EXCEPT !.failed = TRUE]
  <2>1. Quiet(c, c1) /\ Quiet(c, c4)
    BY DEF Quiet
  <2>2. process_CLOSE(c) \in {performStateTransition(c, "CLOSE"),
                              performStateTransition(c3, "CLOSE"), c1, c4}
    BY DEF process_CLOSE
  <2> HIDE DEF c1, c4
  <2>3. Quiet(c1, b1)
    BY DEF Quiet
  <2>4. Quiet(b1, b2) /\ Quiet(b2, c2)
    BY QuietSends
  <2> HIDE DEF b1, b2, c2
  <2>5. Quiet(c2, c3)
    BY DEF Quiet
  <2> HIDE DEF c3
  <2>6. Recalls(c, c3)
    BY <2>1, <2>3, <2>4, <2>5, QuietTwice, QuietRecalls
  <2>7. /\ Recalls(c, performStateTransition(c, "CLOSE"))
        /\ Recalls(c, performStateTransition(c3, "CLOSE"))
    BY <1>0, <2>6, ThenRecalls
  <2> QED BY <2>1, <2>2, <2>7, QuietRecalls
<1>5. Recalls(c, process_ABORT(c))
  <2>1. Recalls(c, sendRst(c, c.snd_nxt))
    BY QuietSends, QuietRecalls
  <2>2. process_ABORT(c) \in {performStateTransition(sendRst(c, c.snd_nxt), "ABORT"),
                              performStateTransition(c, "ABORT")}
    BY DEF process_ABORT
  <2> QED BY <1>0, <2>1, <2>2, ThenRecalls
<1>6. Recalls(c, process_TIMEOUT_CONN_ESTAB(c))
  <2> DEFINE c2 == [c EXCEPT !.failed = TRUE]
  <2>0. Quiet(c, c2)
    BY DEF Quiet
  <2>1. Recalls(c, sendIndicationToApp(c, "TIMED_OUT"))
    BY TellsRecalls DEF Indication
  <2>2. process_TIMEOUT_CONN_ESTAB(c) \in
           {performStateTransition(sendIndicationToApp(c, "TIMED_OUT"), "TIMEOUT_CONN_ESTAB"),
            performStateTransition(c, "TIMEOUT_CONN_ESTAB"), c2}
    BY DEF process_TIMEOUT_CONN_ESTAB
  <2> HIDE DEF c2
  <2> QED BY <1>0, <2>0, <2>1, <2>2, QuietRecalls, ThenRecalls
<1>7. Recalls(c, process_TIMEOUT_2MSL(c))
  <2> DEFINE c1 == [c EXCEPT !.the2MSLTimer = 0]
             c2 == [c EXCEPT !.failed = TRUE]
  <2>1. Quiet(c, c1) /\ Quiet(c, c2)
    BY DEF Quiet
  <2>2. process_TIMEOUT_2MSL(c) \in {performStateTransition(c1, "TIMEOUT_2MSL"), c2}
    BY DEF process_TIMEOUT_2MSL
  <2> HIDE DEF c1, c2
  <2> QED BY <2>1, <2>2, QuietRecalls, ThenRecalls
<1>8. Recalls(c, process_TIMEOUT_SYN_REXMIT(c))
  <2> DEFINE c1 == [c EXCEPT !.syn_rexmit_count = @ + 1]
             c2 == [c EXCEPT !.failed = TRUE]
  <2>1. Quiet(c, c1) /\ Quiet(c, c2)
    BY DEF Quiet
  <2>2. process_TIMEOUT_SYN_REXMIT(c) \in
           {performStateTransition(c1, "ABORT"), sendSyn(c1), sendSynAck(c1), c2}
    BY DEF process_TIMEOUT_SYN_REXMIT
  <2> HIDE DEF c1, c2
  <2>3. Quiet(c, sendSyn(c1)) /\ Quiet(c, sendSynAck(c1))
    BY <2>1, QuietSends, QuietTwice
  <2> QED BY <2>1, <2>2, <2>3, QuietRecalls, ThenRecalls
<1>9. Recalls(c, processRexmitTimer(c))
  <2> DEFINE c1 == [c EXCEPT !.rexmit_count = @ + 1]
             c2 == [c1 EXCEPT !.afterRto = TRUE]
             c3 == sendIndicationToApp(c1, "TIMED_OUT")
  <2>1. Quiet(c, c1)
    BY DEF Quiet
  <2>2. processRexmitTimer(c) \in {performStateTransition(c3, "ABORT"),
                                   retransmitOneSegment(c2, TRUE)}
    BY DEF processRexmitTimer
  <2> HIDE DEF c1
  <2>3. Quiet(c1, c2)
    BY DEF Quiet
  <2>4. Recalls(c1, c3)
    BY TellsRecalls DEF Indication
  <2> HIDE DEF c2, c3
  <2>5. Recalls(c, retransmitOneSegment(c2, TRUE))
    BY <2>1, <2>3, QuietData, QuietTwice, QuietRecalls
  <2>6. Recalls(c, c3)
    BY <2>1, <2>4, QuietRecalls, RecallsTwice
  <2> QED BY <2>2, <2>5, <2>6, ThenRecalls
<1> QED
  BY <1>1, <1>2, <1>3, <1>4, <1>5, <1>6, <1>7, <1>8, <1>9

\* Step five of the processing of a segment says nothing, nor does the text.
LEMMA QuietAck ==
    ASSUME NEW c, NEW s, NEW win
    PROVE  /\ Quiet(c, processAck(c, s, win))
           /\ \A c0 : Quiet(c, processText(c, s, win, c0))
<1>1. Quiet(c, processAckInEstabEtc(c, s, win))
  <2> DEFINE c1 == [c EXCEPT !.snd_una = s.ackNo, !.snd_nxt = seqMax(@, s.ackNo),
                             !.fin_ack_rcvd = @ \/ AcksFin(c, s)]
             a == IF AcksFin(c, s) THEN c.snd_fin_seq ELSE s.ackNo
             c2 == discardUpTo(c1, a)
             c3 == [c EXCEPT !.dupacks = 0]
  <2>1. Quiet(c, c1) /\ Quiet(c, c3)
    BY DEF Quiet
  <2>2. processAckInEstabEtc(c, s, win) \in
           {receivedDuplicateAck(c, win), c3, receivedDataAck(c2, win), c2}
    BY DEF processAckInEstabEtc
  <2> HIDE DEF c1, c3, a
  <2>3. Quiet(c1, c2)
    BY QuietSends
  <2> HIDE DEF c2
  <2>4. Quiet(c, c2)
    BY <2>1, <2>3, QuietTwice
  <2>5. Quiet(c, receivedDuplicateAck(c, win)) /\ Quiet(c, receivedDataAck(c2, win))
    BY <2>4, QuietData, QuietTwice
  <2> QED BY <2>1, <2>2, <2>4, <2>5
<1>2. Quiet(c, processAck(c, s, win))
  <2> DEFINE d == processAckInEstabEtc(c, s, win)
             g == sendAck(c)
             h == [g EXCEPT !.the2MSLTimer = MSL2]
  <2>1. processAck(c, s, win) \in {h, timeWaitAfterClosing(d)}
    BY DEF processAck
  <2> HIDE DEF d, g
  <2>2. Quiet(c, g) /\ Quiet(g, h) /\ Quiet(c, d)
    BY <1>1, QuietSends DEF Quiet, g, d
  <2> HIDE DEF h
  <2>3. timeWaitAfterClosing(d) \in {d, start2MSLTimer(d)}
    BY DEF timeWaitAfterClosing
  <2>4. Quiet(c, start2MSLTimer(d)) /\ Quiet(c, h)
    BY <2>2, QuietSends, QuietTwice
  <2> QED BY <2>1, <2>2, <2>3, <2>4
<1>3. ASSUME NEW c0 PROVE Quiet(c, processText(c, s, win, c0))
  <2> DEFINE c1 == insertBytesFromSegment(c, s)
             c2 == IF seqGreater(c.snd_una, c0.snd_una) THEN receivedDataAck(c1, win) ELSE c1
  <2>1. processText(c, s, win, c0) \in {sendAck(c2), c2, c}
    BY DEF processText
  <2>2. Quiet(c, c1)
    BY QuietSends
  <2> HIDE DEF c1
  <2>3. Quiet(c, c2)
    BY <2>2, QuietData, QuietTwice
  <2> HIDE DEF c2
  <2>4. Quiet(c, sendAck(c2)) /\ Quiet(c, c)
    BY <2>3, QuietSends, QuietTwice
  <2> QED BY <2>1, <2>3, <2>4
<1> QED
  BY <1>2, <1>3

\* What follows the text tells of the peer's FIN.
LEMMA AfterTextRecalls ==
    ASSUME NEW c, NEW s, NEW c0
    PROVE  Recalls(c, processAfterText(c, s, c0))
<1> DEFINE fin == FinInSequence(c, s, c0.rcv_nxt)
           g == processFin(c, s, c0.rcv_nxt)
           h == ackNewText(g, fin, c0)
<1>1. Quiet(c, g)
  <2> DEFINE c1 == [c EXCEPT !.rcv_nxt = Plus(@, 1)]
             c2 == [c1 EXCEPT !.the2MSLTimer = MSL2]
             c3 == [c EXCEPT !.fin_rcvd = TRUE, !.rcv_fin_seq = Plus(s.seqNo, PayloadLength(s))]
  <2>1. g \in {start2MSLTimer(c1), c2, c1, c3, c}
    BY DEF processFin
  <2>2. Quiet(c, c1) /\ Quiet(c, c3) /\ Quiet(c, c)
    BY DEF Quiet
  <2> HIDE DEF c1, c3
  <2>3. Quiet(c1, c2) /\ Quiet(c1, start2MSLTimer(c1))
    BY QuietSends DEF Quiet
  <2> HIDE DEF c2, g
  <2>4. Quiet(c, c2) /\ Quiet(c, start2MSLTimer(c1))
    BY <2>2, <2>3, QuietTwice
  <2> QED BY <2>1, <2>2, <2>4
<1>2. Quiet(g, h)
  <2>1. h \in {g, sendAck(g)}
    BY DEF ackNewText, receiveSeqChanged
  <2> HIDE DEF h, g
  <2> QED BY <2>1, QuietSends
<1>3. processAfterText(c, s, c0) = performStateTransition(h, SegmentEvent(h, fin, c0))
  BY DEF processAfterText, concludeSegment
<1> HIDE DEF g, h, fin
<1> QED
  BY <1>1, <1>2, <1>3, QuietTwice, QuietRecalls, ThenRecalls

\* A segment in an established connection or in SYN_RCVD.
LEMMA EstabRecalls ==
    ASSUME NEW c, NEW s, NEW win
    PROVE  Recalls(c, processSegment1stThru8th(c, s, win))
<1>0. Recalls(c, c)
  BY QuietSends, QuietRecalls
<1>1. ASSUME NEW b PROVE Recalls(b, processAckTextFin(b, s, win))
  <2> DEFINE g == sendAck(b)
             h == [g EXCEPT !.dupacks = 0]
             a == processAck(b, s, win)
             t == processText(a, s, win, b)
  <2>1. processAckTextFin(b, s, win) \in
           {h, performStateTransition(a, "RCV_ACK"), processAfterText(t, s, b)}
    BY DEF processAckTextFin
  <2>2. Quiet(b, g) /\ Quiet(b, a)
    BY QuietSends, QuietAck
  <2> HIDE DEF g, a
  <2>3. Quiet(g, h)
    BY DEF Quiet
  <2>t. Quiet(a, t)
    BY QuietAck
  <2> HIDE DEF h, t
  <2>4. Recalls(b, h) /\ Recalls(b, a) /\ Recalls(b, t)
    BY <2>2, <2>3, <2>t, QuietTwice, QuietRecalls
  <2>5. Recalls(b, processAfterText(t, s, b))
    BY <2>4, AfterTextRecalls, RecallsTwice
  <2> QED BY <2>1, <2>4, <2>5, ThenRecalls
<1>2. Recalls(c, processRst(c))
  <2> DEFINE f == discardUpTo(c, BufferEndSeq(c))
  <2>1. processRst(c) \in
           {performStateTransition(sendIndicationToApp(f, "CONNECTION_REFUSED"), "RCV_RST"),
            performStateTransition(f, "RCV_RST"),
            performStateTransition(sendIndicationToApp(c, "CONNECTION_RESET"), "RCV_RST"),
            performStateTransition(c, "RCV_RST")}
    BY DEF processRst
  <2>2. Recalls(c, f)
    BY QuietSends, QuietRecalls
  <2> HIDE DEF f
  <2>3. /\ Recalls(f, sendIndicationToApp(f, "CONNECTION_REFUSED"))
        /\ Recalls(c, sendIndicationToApp(c, "CONNECTION_RESET"))
    BY TellsRecalls DEF Indication
  <2>4. Recalls(c, sendIndicationToApp(f, "CONNECTION_REFUSED"))
    BY <2>2, <2>3, RecallsTwice
  <2> QED BY <1>0, <2>1, <2>2, <2>3, <2>4, ThenRecalls
<1> DEFINE r == sendIndicationToApp(c, "CONNECTION_RESET")
           o == sendIndicationToApp(c, "ESTABLISHED")
<1>3. Recalls(c, r) /\ Recalls(c, o)
  BY TellsRecalls DEF Indication
<1>4. processSegment1stThru8th(c, s, win) \in
         {c, sendAck(c), processRst(c), performStateTransition(r, "RCV_UNEXP_SYN"),
          sendRst(c, s.ackNo), processAckTextFin(o, s, win), processAckTextFin(c, s, win)}
  BY DEF processSegment1stThru8th
<1> HIDE DEF r, o
<1>5. Recalls(c, sendAck(c)) /\ Recalls(c, sendRst(c, s.ackNo))
  BY QuietSends, QuietRecalls
<1>6. Recalls(c, processAckTextFin(o, s, win)) /\ Recalls(c, processAckTextFin(c, s, win))
  BY <1>1, <1>3, RecallsTwice
<1> QED
  BY <1>0, <1>2, <1>3, <1>4, <1>5, <1>6, ThenRecalls

\* A segment, in whatever state it arrives.
LEMMA SegmentRecalls ==
    ASSUME NEW c, NEW s, NEW win
    PROVE  Recalls(c, process_RCV_SEGMENT(c, s, win))
<1>0. Recalls(c, c)
  BY QuietSends, QuietRecalls
<1>1. Recalls(c, segmentArrivalWhileClosed(c, s))
  <2>1. \E r : segmentArrivalWhileClosed(c, s) \in {c, sendRst(c, s.ackNo), Emit(c, r)}
    BY DEF segmentArrivalWhileClosed
  <2> QED BY <2>1, QuietSends, QuietRecalls
<1>2. Recalls(c, processSegmentInListen(c, s))
  <2> DEFINE b0 == [c EXCEPT !.rcv_nxt = Plus(s.seqNo, 1), !.receiveQueue = {}]
             b1 == selectInitialSeqNum(b0)
             b2 == sendSynAck(b1)
             b3 == startSynRexmitTimer(b2)
             b4 == [b3 EXCEPT !.connEstabTimer = TRUE]
  <2>1. processSegmentInListen(c, s) \in
           {c, sendRst(c, s.ackNo), performStateTransition(b4, "RCV_SYN")}
    BY DEF processSegmentInListen
  <2>2. Quiet(c, b0)
    BY DEF Quiet
  <2> HIDE DEF b0
  <2>3. Quiet(b0, b1) /\ Quiet(b1, b2) /\ Quiet(b2, b3)
    BY QuietSends
  <2> HIDE DEF b1, b2, b3
  <2>4. Quiet(b3, b4)
    BY DEF Quiet
  <2> HIDE DEF b4
  <2>5. Recalls(c, b4) /\ Recalls(c, sendRst(c, s.ackNo))
    BY <2>2, <2>3, <2>4, QuietSends, QuietTwice, QuietRecalls
  <2> QED BY <1>0, <2>1, <2>5, ThenRecalls
<1>3. Recalls(c, processSegmentInSynSent(c, s, win))
  <2> DEFINE c1 == [c EXCEPT !.rcv_nxt = Plus(s.seqNo, 1), !.receiveQueue = {}]
             b1 == [c1 EXCEPT !.snd_una = s.ackNo]
             c2 == discardUpTo(b1, s.ackNo)
             c3 == ackOfSyn(c2, win)
             c4 == sendIndicationToApp(c3, "ESTABLISHED")
             r == sendIndicationToApp(c, "CONNECTION_RESET")
             d1 == sendSynAck(c1)
             d2 == startSynRexmitTimer(d1)
  <2>1. processSegmentInSynSent(c, s, win) \in
           {c, sendRst(c, s.ackNo), performStateTransition(r, "RCV_RST"),
            performStateTransition(c4, "RCV_SYN_ACK"), performStateTransition(d2, "RCV_SYN")}
    BY DEF processSegmentInSynSent
  <2>2. Quiet(c, c1)
    BY DEF Quiet
  <2> HIDE DEF c1
  <2>3. Quiet(c1, b1) /\ Quiet(c1, d1)
    BY QuietSends DEF Quiet
  <2> HIDE DEF b1, d1
  <2>4. Quiet(b1, c2) /\ Quiet(d1, d2)
    BY QuietSends
  <2> HIDE DEF c2, d2
  <2>5. Quiet(c2, c3)
    BY QuietData
  <2>6. Recalls(c3, c4) /\ Recalls(c, r)
    BY TellsRecalls DEF Indication
  <2> HIDE DEF c3, c4, r
  <2>7. Recalls(c, c3) /\ Recalls(c, d2) /\ Recalls(c, sendRst(c, s.ackNo))
    BY <2>2, <2>3, <2>4, <2>5, QuietSends, QuietTwice, QuietRecalls
  <2>8. Recalls(c, c4)
    BY <2>6, <2>7, RecallsTwice
  <2> QED BY <1>0, <2>1, <2>6, <2>7, <2>8, ThenRecalls
<1>4. process_RCV_SEGMENT(c, s, win) \in
         {segmentArrivalWhileClosed(c, s), processSegmentInListen(c, s),
          processSegmentInSynSent(c, s, win), processSegment1stThru8th(c, s, win)}
  BY DEF process_RCV_SEGMENT
<1> QED
  BY <1>1, <1>2, <1>3, <1>4, EstabRecalls

\* d has given the application what c has, and has not told it more of the peer.
Silent(c, d) ==
    {"ind", "toApp", "state"} \subseteq DOMAIN c /\ c.ind \in Seq(Indication) =>
        /\ {"ind", "toApp", "state"} \subseteq DOMAIN d /\ d.ind \in Seq(Indication)
        /\ d.toApp = c.toApp
        /\ Says(d.ind, "PEER_CLOSED") => Says(c.ind, "PEER_CLOSED")

\* The same while nothing at all is told.
Unheard(c, d) ==
    {"ind", "toApp", "state"} \subseteq DOMAIN c =>
        {"ind", "toApp", "state"} \subseteq DOMAIN d /\ d.ind = c.ind /\ d.toApp = c.toApp

\* Both are transitive.
LEMMA SilentTwice ==
    ASSUME NEW c, NEW d, NEW e
    PROVE  /\ Unheard(c, d) /\ Unheard(d, e) => Unheard(c, e)
           /\ Silent(c, d) /\ Silent(d, e) => Silent(c, e)
           /\ Unheard(c, d) => Silent(c, d)
           /\ Unheard(c, c)
<1>1. Unheard(c, d) /\ Unheard(d, e) => Unheard(c, e)
  BY DEF Unheard
<1>2. Silent(c, d) /\ Silent(d, e) => Silent(c, e)
  BY DEF Silent
<1>3. Unheard(c, d) => Silent(c, d)
  BY DEF Unheard, Silent
<1>4. Unheard(c, c)
  BY DEF Unheard
<1> QED
  BY <1>1, <1>2, <1>3, <1>4

\* SEND gives nothing to the application that sends.
LEMMA SendSilent ==
    ASSUME NEW c, NEW item, NEW win
    PROVE  Silent(c, process_SEND(c, item, win))
<1>1. ASSUME NEW b PROVE Unheard(b, sendData(b, win))
  <2> DEFINE g == IF b.afterRto THEN b ELSE [b EXCEPT !.snd_nxt = b.snd_max]
             h == sendSegments(g, BytesToSend(g, win))
             o == Outstanding(h)
  <2>1. sendData(b, win) \in {g, o}
    BY DEF sendData, sendDataFromNxt
  <2>2. Unheard(b, g)
    BY DEF Unheard
  <2> HIDE DEF g
  <2>3. \A k : Unheard(g, sendSegments(g, k))
    BY DEF Unheard, sendSegments
  <2>4. Unheard(g, h)
    BY <2>3
  <2> HIDE DEF h
  <2>5. Unheard(h, o)
    BY DEF Unheard, Outstanding
  <2> HIDE DEF o
  <2> QED BY <2>1, <2>2, <2>4, <2>5, SilentTwice
<1> DEFINE c1 == [c EXCEPT !.sendQueue = Append(@, item)]
           c2 == [c EXCEPT !.failed = TRUE]
<1>2. Unheard(c, c1) /\ Unheard(c, c2)
  BY DEF Unheard
<1>3. process_SEND(c, item, win) \in {c1, sendData(c1, win), c2}
  BY DEF process_SEND
<1> HIDE DEF c1, c2
<1> QED
  BY <1>1, <1>2, <1>3, SilentTwice

\* CLOSE tells the application at most that its own connection is closed.
LEMMA CloseSilent ==
    ASSUME NEW c
    PROVE  Silent(c, process_CLOSE(c))
<1>1. ASSUME NEW b PROVE Silent(b, sendIndicationToApp(b, "CLOSED"))
  <2> SUFFICES ASSUME {"ind", "toApp", "state"} \subseteq DOMAIN b, b.ind \in Seq(Indication)
               PROVE  LET d == sendIndicationToApp(b, "CLOSED")
                      IN  /\ {"ind", "toApp", "state"} \subseteq DOMAIN d /\ d.ind \in Seq(Indication)
                          /\ d.toApp = b.toApp
                          /\ Says(d.ind, "PEER_CLOSED") => Says(b.ind, "PEER_CLOSED")
    BY DEF Silent
  <2> DEFINE j == Append(b.ind, "CLOSED")
  <2>1. "CLOSED" \in Indication /\ "CLOSED" # "PEER_CLOSED"
    BY DEF Indication
  <2>2. j \in Seq(Indication)
    BY <2>1, Saying
  <2>3. Says(j, "PEER_CLOSED") <=> Says(b.ind, "PEER_CLOSED") \/ "CLOSED" = "PEER_CLOSED"
    BY <2>1, SaysAppend
  <2>4. /\ {"ind", "toApp", "state"} \subseteq DOMAIN sendIndicationToApp(b, "CLOSED")
        /\ sendIndicationToApp(b, "CLOSED").ind = j
        /\ sendIndicationToApp(b, "CLOSED").toApp = b.toApp
    BY DEF sendIndicationToApp
  <2> QED BY <2>1, <2>2, <2>3, <2>4
<1>2. ASSUME NEW b PROVE Silent(b, performStateTransition(b, "CLOSE"))
  <2> SUFFICES ASSUME "state" \in DOMAIN b PROVE Silent(b, performStateTransition(b, "CLOSE"))
    BY DEF Silent
  <2> DEFINE d == [b EXCEPT !.state = NextState(b, "CLOSE")]
             d1 == cancelSetupTimers(d)
             d2 == [d1 EXCEPT !.the2MSLTimer = 0, !.rexmitTimer = FALSE]
             d3 == sendIndicationToApp(d2, "CLOSED")
  <2>1. NextState(b, "CLOSE") \in {"CLOSED", "FIN_WAIT_1", "LAST_ACK", b.state}
    BY DEF NextState
  <2>2. CASE b.failed \/ NextState(b, "CLOSE") = b.state
    <3>1. performStateTransition(b, "CLOSE") = b
      BY <2>2 DEF performStateTransition, enterState
    <3> QED BY <3>1, SilentTwice
  <2>3. CASE ~(b.failed \/ NextState(b, "CLOSE") = b.state)
    <3>1. performStateTransition(b, "CLOSE") = stateEntered(d, b.state, "CLOSE")
      BY <2>3 DEF performStateTransition, enterState
    <3>2. Unheard(b, d)
      BY DEF Unheard
    <3>3. stateEntered(d, b.state, "CLOSE") \in {d1, d2, d3, d}
      <4>1. d.state = NextState(b, "CLOSE")
        OBVIOUS
      <4> QED BY <2>1, <2>3, <4>1 DEF stateEntered
    <3> HIDE DEF d
    <3>4. Unheard(d, d1)
      BY DEF Unheard, cancelSetupTimers
    <3> HIDE DEF d1
    <3>5. Unheard(d1, d2)
      BY DEF Unheard
    <3> HIDE DEF d2
    <3>6. Silent(d2, d3)
      BY <1>1
    <3> HIDE DEF d3
    <3> QED BY <3>1, <3>2, <3>3, <3>4, <3>5, <3>6, SilentTwice
  <2> QED BY <2>2, <2>3
<1> DEFINE end == BufferEndSeq(c)
           c1 == [c EXCEPT !.send_fin = TRUE, !.snd_fin_seq = end]
           b1 == [c1 EXCEPT !.snd_nxt = c.snd_max]
           b2 == sendFin(b1)
           c2 == startRexmitTimer(b2)
           c3 == [c2 EXCEPT !.snd_nxt = Plus(end, 1), !.snd_max = Plus(end, 1)]
           c4 == [c EXCEPT !.failed = TRUE]
<1>3. Unheard(c, c1) /\ Unheard(c, c4)
  BY DEF Unheard
<1>4. process_CLOSE(c) \in {performStateTransition(c, "CLOSE"),
                            performStateTransition(c3, "CLOSE"), c1, c4}
  BY DEF process_CLOSE
<1> HIDE DEF c1, c4
<1>5. Unheard(c1, b1)
  BY DEF Unheard
<1> HIDE DEF b1
<1>6. Unheard(b1, b2)
  BY DEF Unheard, sendFin, Emit
<1> HIDE DEF b2
<1>7. Unheard(b2, c2)
  BY DEF Unheard, startRexmitTimer
<1> HIDE DEF c2
<1>8. Unheard(c2, c3)
  BY DEF Unheard
<1> HIDE DEF c3
<1>9. Unheard(c, c3)
  BY <1>3, <1>5, <1>6, <1>7, <1>8, SilentTwice
<1> QED
  BY <1>2, <1>3, <1>4, <1>9, SilentTwice

\* What one end has received of the stream of the other.
SideHas(a, b) ==
    /\ a.nxt \in Nat /\ 1 <= a.nxt /\ b.sent \in Nat /\ a.nxt <= b.sent + 2
    /\ a.conn.toApp = Delivered(a.nxt, b.sent)
    /\ a.conn.ind \in Seq(Indication)
    /\ Says(a.conn.ind, "PEER_CLOSED") => a.nxt = b.sent + 2
    /\ a.nxt = b.sent + 2 => b.closed
    /\ {"ind", "toApp", "state"} \subseteq DOMAIN a.conn

\* That is so for both ends of a pair.
LEMMA PairHas ==
    ASSUME NEW a, NEW b, Linked(a, b)
    PROVE  SideHas(a, b)
<1> DEFINE v == At(a.sent, a.iss, b)
           w == At(b.sent, b.iss, a)
<1>1. /\ v \in View /\ v.peerSent = b.sent /\ v.peerMax = b.max
      /\ a.conn \in Connection(v.sent, v.peerSent)
      /\ EndOk(a.conn, v, a.max, a.nxt, a.closed)
  BY LinkedSeen
<1>2. Linked(b, a)
  BY DEF Linked
<1>3. /\ w.sent = b.sent /\ EndOk(b.conn, w, b.max, b.nxt, b.closed)
  BY <1>2, LinkedSeen
<1> HIDE DEF v, w
<1>4. b.max = b.sent + 2 => b.closed
  BY <1>3 DEF EndOk, Counts
<1>5. b.sent \in Nat
  BY <1>1, ViewTypes
<1>6. /\ a.nxt \in Nat /\ 1 <= a.nxt /\ a.nxt <= b.max /\ b.max <= b.sent + 2
      /\ a.conn.toApp = Delivered(a.nxt, b.sent)
      /\ Says(a.conn.ind, "PEER_CLOSED") => a.nxt = b.sent + 2
      /\ b.max \in Nat
  BY <1>1, <1>3 DEF EndOk, Counts, Told2
<1>7. a.conn.ind \in Seq(Indication) /\ {"ind", "toApp", "state"} \subseteq DOMAIN a.conn
  BY <1>1 DEF Connection
<1> QED
  BY <1>4, <1>5, <1>6, <1>7 DEF SideHas

\* The k items after the first p.
Following(p, k) == [i \in 1 .. k |-> p + i]

\* Of n items, a receiver that goes from offset r to offset t has had p and gets k more.
Receives(n, r, t, p, k) ==
    /\ n \in Nat /\ r \in Nat /\ t \in Nat /\ 1 <= r /\ r <= t /\ t <= n + 2
    /\ p = Len(Delivered(r, n)) /\ k = Len(Delivered(t, n)) - p

\* The items between two places in the stream, counted from the first of them.
LEMMA Delivering ==
    ASSUME NEW n, NEW r, NEW t, NEW p, NEW k, Receives(n, r, t, p, k)
    PROVE  /\ p \in Nat /\ k \in 0 .. n /\ p + k <= n
           /\ Delivered(t, n) = Delivered(r, n) \o Following(p, k)
           /\ t = n + 2 => p + k = n
<1> DEFINE m == IF r = n + 2 THEN n ELSE r - 1
           l == IF t = n + 2 THEN n ELSE t - 1
           q == l - m
<1> USE DEF Receives
<1>1. m \in Nat /\ l \in Nat /\ m <= l /\ l <= n /\ q \in 0 .. n /\ q \in Nat /\ m + q = l
  OBVIOUS
<1>2. Delivered(r, n) = [i \in 1 .. m |-> i] /\ Delivered(t, n) = [i \in 1 .. l |-> i]
  BY DEF Delivered
<1>3. t = n + 2 => l = n
  OBVIOUS
<1>4. r = t => q = 0
  BY <1>1
<1> HIDE DEF m, l, q
<1>5. Len([i \in 1 .. m |-> i]) = m /\ Len([i \in 1 .. l |-> i]) = l
  BY <1>1
<1>6. q = l - m
  BY DEF q
<1>7. [i \in 1 .. l |-> i] = [i \in 1 .. m |-> i] \o [i \in 1 .. q |-> m + i]
  <2> DEFINE f == [i \in 1 .. m |-> i]
             g == [i \in 1 .. q |-> m + i]
  <2>1. f \in Seq(Nat) /\ g \in Seq(Nat) /\ Len(f) = m /\ Len(g) = q
    BY <1>1
  <2>2. /\ f \o g \in Seq(Nat) /\ Len(f \o g) = m + q
        /\ \A i \in 1 .. m + q : (f \o g)[i] = IF i <= m THEN f[i] ELSE g[i - m]
    BY <1>1, <2>1, ConcatProperties
  <2>3. \A i \in 1 .. m + q : (f \o g)[i] = i
    <3> TAKE i \in 1 .. m + q
    <3>1. CASE i <= m
      <4>1. i \in 1 .. m
        BY <1>1, <3>1
      <4> QED BY <2>2, <3>1, <4>1
    <3>2. CASE ~(i <= m)
      <4>1. i - m \in 1 .. q
        BY <1>1, <3>2
      <4>2. g[i - m] = m + (i - m)
        BY <4>1
      <4> QED BY <1>1, <2>2, <3>2, <4>2
    <3> QED BY <3>1, <3>2
  <2>4. f \o g = [i \in 1 .. m + q |-> (f \o g)[i]]
    BY <1>1, <2>2
  <2> HIDE DEF f, g
  <2>5. f \o g = [i \in 1 .. m + q |-> i]
    BY <2>3, <2>4
  <2> QED BY <1>1, <2>5 DEF f, g
<1> QED
  BY <1>1, <1>2, <1>3, <1>4, <1>5, <1>6, <1>7 DEF Following

\* What the two ends have before and after a step.
LEMMA Advances ==
    ASSUME OrderlySetup, IInv, IInv', Paired, [Next]_vars, NEW e \in End
    PROVE  \E a, b, a2, b2 :
              /\ SideHas(a, b) /\ IsSide(a, e) /\ IsSide(b, Peer(e))
              /\ SideHas(a2, b2) /\ IsSide(a2, e)' /\ IsSide(b2, Peer(e))'
              /\ a.nxt <= a2.nxt
<1>1. PICK c \in End : \E x, y : IsPair(c, x, y)
  BY DEF Paired
<1>2. PICK x, y : IsPair(c, x, y)
  BY <1>1
<1>3. hasClosed \in [End -> BOOLEAN]
  BY DEF Paired
<1>4. PICK x2, y2 : IsPair(c, x2, y2)' /\ x.nxt <= x2.nxt /\ y.nxt <= y2.nxt
  BY <1>2, <1>3, NextMoves DEF PairMoves
<1>5. /\ IsSide(x, c) /\ IsSide(y, Peer(c)) /\ PairOk(x, y)
      /\ IsSide(x2, c)' /\ IsSide(y2, Peer(c))' /\ PairOk(x2, y2)
  BY <1>2, <1>4 DEF IsPair
<1>6. SideHas(x, y) /\ SideHas(y, x) /\ SideHas(x2, y2) /\ SideHas(y2, x2)
  BY <1>5, PairHas DEF Linked
<1>7. CASE e = c
  BY <1>4, <1>5, <1>6, <1>7
<1>8. CASE e = Peer(c)
  <2>1. Peer(e) = c
    BY <1>8, Ends
  <2> QED BY <1>4, <1>5, <1>6, <1>8, <2>1
<1>9. e = c \/ e = Peer(c)
  BY Ends DEF End, Peer
<1> QED
  BY <1>7, <1>8, <1>9

\* Taking leave of the segments of a handler, and removing a closed connection,
\* leave alone what the application has and knows.
LEMMA AfterSilent ==
    ASSUME NEW d
    PROVE  Recalls(d, After(d)) /\ Silent(d, After(d))
<1> DEFINE b == [d EXCEPT !.out = {}]
           r == [NewConnection(0) EXCEPT !.state = "CLOSED", !.toApp = b.toApp, !.ind = b.ind]
<1>1. After(d) \in {b, r}
  BY DEF After, removeConnection
<1>2. /\ {"ind", "toApp", "state"} \subseteq DOMAIN r
      /\ r.ind = b.ind /\ r.toApp = b.toApp
  BY DEF NewConnection
<1>3. Quiet(d, b) /\ Unheard(d, b)
  BY DEF Quiet, Unheard
<1> HIDE DEF b, r
<1>4. Quiet(b, r) /\ Unheard(b, r)
  BY <1>2 DEF Quiet, Unheard
<1> QED
  BY <1>1, <1>3, <1>4, QuietTwice, QuietRecalls, SilentTwice

\* What end e and its peer have after e has handled an event.
LEMMA HandledHeard ==
    ASSUME IInv, NEW e \in End, NEW results, NEW taken, Handle(e, results, taken)
    PROVE  /\ conn'[Peer(e)] = conn[Peer(e)]
           /\ (\A d \in results : Recalls(conn[e], d)) => Recalls(conn[e], conn'[e])
           /\ (\A d \in results : Silent(conn[e], d)) => Silent(conn[e], conn'[e])
<1>1. PICK d \in results : conn' = [conn EXCEPT ![e] = After(d)]
  BY DEF Handle, After
<1>2. conn'[e] = After(d) /\ conn'[Peer(e)] = conn[Peer(e)]
  BY <1>1, Ends DEF IInv
<1> QED
  BY <1>2, AfterSilent, RecallsTwice, SilentTwice

\* A command that sends or ends the stream of e adds nothing to what e receives.
LEMMA SilentKeeps ==
    ASSUME OrderlySetup, IInv, IInv', Paired, [Next]_vars, NEW e \in End,
           Silent(conn[e], conn'[e]), Recalls(conn[e], conn'[e]), conn'[Peer(e)] = conn[Peer(e)]
    PROVE  /\ [z \in End |-> conn[z].toApp]' = [z \in End |-> conn[z].toApp]
           /\ [z \in End |-> Told(z, "PEER_CLOSED")]' = [z \in End |-> Told(z, "PEER_CLOSED")]
<1>1. PICK a, b, a2, b2 :
              /\ SideHas(a, b) /\ IsSide(a, e)
              /\ SideHas(a2, b2) /\ IsSide(a2, e)'
  BY Advances
<1>2. a.conn = conn[e] /\ a2.conn = conn'[e]
  BY <1>1 DEF IsSide
<1>3. /\ a2.conn.toApp = a.conn.toApp
      /\ Says(a2.conn.ind, "PEER_CLOSED") <=> Says(a.conn.ind, "PEER_CLOSED")
  <2>1. {"ind", "toApp", "state"} \subseteq DOMAIN a.conn /\ a.conn.ind \in Seq(Indication)
    BY <1>1 DEF SideHas
  <2> QED BY <1>2, <2>1 DEF Silent, Recalls
<1>4. conn[e].ind \in Seq(Indication) /\ conn'[e].ind \in Seq(Indication)
  BY <1>1, <1>2 DEF SideHas
<1>5. Told(e, "PEER_CLOSED")' <=> Told(e, "PEER_CLOSED")
  <2>1. DOMAIN conn[e].ind = 1 .. Len(conn[e].ind) /\ DOMAIN conn'[e].ind = 1 .. Len(conn'[e].ind)
    BY <1>4
  <2>2. Told(e, "PEER_CLOSED") <=> Says(conn[e].ind, "PEER_CLOSED")
    BY <2>1 DEF Told, Says
  <2>3. Told(e, "PEER_CLOSED")' <=> Says(conn'[e].ind, "PEER_CLOSED")
    BY <2>1 DEF Told, Says
  <2> QED BY <1>2, <1>3, <2>2, <2>3
<1>6. conn'[e].toApp = conn[e].toApp
  BY <1>2, <1>3
<1>7. \A z \in End : z = e \/ z = Peer(e)
  BY Ends DEF End, Peer
<1>8. \A z \in End : conn'[z].toApp = conn[z].toApp
  BY <1>6, <1>7
<1>9. \A z \in End : Told(z, "PEER_CLOSED")' = Told(z, "PEER_CLOSED")
  BY <1>5, <1>7 DEF Told
<1> QED
  BY <1>8, <1>9

\* An event of e that is no command of a stream delivers to its application.
LEMMA EventDelivers ==
    ASSUME OrderlySetup, IInv, IInv', Paired, [Next]_vars, NEW e \in End,
           Recalls(conn[e], conn'[e]), conn'[Peer(e)] = conn[Peer(e)],
           numSent' = numSent, hasClosed' = hasClosed
    PROVE  [Stream!Next]_(Stream!vars)
<1> DEFINE D == [z \in End |-> conn[z].toApp]
           F == [z \in End |-> Told(z, "PEER_CLOSED")]
           n == numSent[Peer(e)]
<1>1. PICK a, b, a2, b2 :
              /\ SideHas(a, b) /\ IsSide(a, e) /\ IsSide(b, Peer(e))
              /\ SideHas(a2, b2) /\ IsSide(a2, e)' /\ IsSide(b2, Peer(e))'
              /\ a.nxt <= a2.nxt
  BY Advances
<1>2. /\ a.conn = conn[e] /\ a2.conn = conn'[e] /\ b.sent = n /\ b2.sent = n
      /\ b.closed = hasClosed[Peer(e)] /\ b2.closed = hasClosed[Peer(e)]
  BY <1>1 DEF IsSide
<1> DEFINE r == a.nxt
           t == a2.nxt
           p == Len(Delivered(r, n))
           k == Len(Delivered(t, n)) - p
<1>3. /\ n \in Nat /\ r \in Nat /\ t \in Nat /\ 1 <= r /\ r <= t /\ t <= n + 2
      /\ conn[e].toApp = Delivered(r, n) /\ conn'[e].toApp = Delivered(t, n)
      /\ conn[e].ind \in Seq(Indication) /\ conn'[e].ind \in Seq(Indication)
      /\ Says(conn[e].ind, "PEER_CLOSED") => r = n + 2
      /\ Says(conn'[e].ind, "PEER_CLOSED") => t = n + 2
      /\ t = n + 2 => hasClosed[Peer(e)]
      /\ "ind" \in DOMAIN conn[e]
  BY <1>1, <1>2 DEF SideHas
<1> HIDE DEF n, r, t
<1>d. p = Len(conn[e].toApp)
  BY <1>3
<1>4. /\ k \in 0 .. n /\ p + k <= n
      /\ t = n + 2 => p + k = n
      /\ conn'[e].toApp = conn[e].toApp \o Following(p, k)
  <2>1. n \in Nat /\ r \in Nat /\ t \in Nat /\ 1 <= r /\ r <= t /\ t <= n + 2
    BY <1>3
  <2>2. p = Len(Delivered(r, n)) /\ k = Len(Delivered(t, n)) - p
    OBVIOUS
  <2> HIDE DEF p, k
  <2>3. /\ k \in 0 .. n /\ p + k <= n
        /\ Delivered(t, n) = Delivered(r, n) \o Following(p, k)
        /\ t = n + 2 => p + k = n
    <3>1. Receives(n, r, t, p, k)
      BY ONLY <2>1, <2>2 DEF Receives
    <3> QED BY ONLY <3>1, Delivering
  <2> QED BY <1>3, <2>3
<1> HIDE DEF p, k
<1>5. /\ Told(e, "PEER_CLOSED") <=> Says(conn[e].ind, "PEER_CLOSED")
      /\ Told(e, "PEER_CLOSED")' <=> Says(conn'[e].ind, "PEER_CLOSED")
  <2>1. DOMAIN conn[e].ind = 1 .. Len(conn[e].ind) /\ DOMAIN conn'[e].ind = 1 .. Len(conn'[e].ind)
    BY <1>3
  <2>2. Told(e, "PEER_CLOSED") <=> Says(conn[e].ind, "PEER_CLOSED")
    BY <2>1 DEF Told, Says
  <2>3. Told(e, "PEER_CLOSED")' <=> Says(conn'[e].ind, "PEER_CLOSED")
    BY <2>1 DEF Told, Says
  <2> QED BY <2>2, <2>3
<1>6. Says(conn[e].ind, "PEER_CLOSED") => Says(conn'[e].ind, "PEER_CLOSED")
  BY <1>3 DEF Recalls
<1>7. \A z \in End : z = e \/ z = Peer(e)
  BY Ends DEF End, Peer
<1>8. Peer(e) \in End /\ Peer(e) # e
  BY Ends
<1>9. CASE Told(e, "PEER_CLOSED")
  <2>1. r = t
    BY <1>3, <1>5, <1>9
  <2>2. conn'[e].toApp = conn[e].toApp
    BY <1>3, <2>1
  <2>3. D' = D
    BY <1>7, <2>2
  <2>4. Told(e, "PEER_CLOSED")' = Told(e, "PEER_CLOSED")
    BY <1>5, <1>6, <1>9 DEF Told
  <2>5. \A z \in End : Told(z, "PEER_CLOSED")' = Told(z, "PEER_CLOSED")
    BY <1>7, <2>4 DEF Told
  <2>6. F' = F
    BY <2>5
  <2> QED BY <2>3, <2>6 DEF Stream!vars
<1>10. CASE ~Told(e, "PEER_CLOSED")
  <2>1. PICK ends \in BOOLEAN : ends = Told(e, "PEER_CLOSED")'
    BY DEF Told
  <2>2. ends => hasClosed[Peer(e)] /\ p + k = n
    BY <1>3, <1>4, <1>5, <2>1, Zenon
  <2>3. p + k <= n
    BY <1>4, Zenon
  <2>4. D' = [D EXCEPT ![e] = @ \o Following(p, k)]
    <3>1. conn'[e].toApp = conn[e].toApp \o Following(p, k)
      BY <1>4, Zenon
    <3> DEFINE q == conn[e].toApp \o Following(p, k)
    <3>2. D[e] = conn[e].toApp
      OBVIOUS
    <3>3. D' = [D EXCEPT ![e] = q]
      <4> HIDE DEF q
      <4>1. conn'[e].toApp = q
        BY <3>1 DEF q
      <4> QED BY <1>7, <1>8, <4>1
    <3> HIDE DEF D
    <3> QED BY <3>2, <3>3
  <2>5. F' = [F EXCEPT ![e] = ends]
    <3>1. Told(Peer(e), "PEER_CLOSED")' = Told(Peer(e), "PEER_CLOSED")
      BY DEF Told
    <3>2. \A z \in End : Told(z, "PEER_CLOSED")' =
                            IF z = e THEN ends ELSE Told(z, "PEER_CLOSED")
      BY <1>7, <1>8, <2>1, <3>1 DEF Told
    <3> QED BY <3>2
  <2>6. p = Len(D[e]) /\ F[e] = Told(e, "PEER_CLOSED")
    BY <1>d
  <2>7. Stream!Deliver(e, k, ends)
    <3> HIDE DEF D, F
    <3>1. /\ Len(D[e]) + k <= numSent[Peer(e)]
          /\ ~F[e]
          /\ ends => hasClosed[Peer(e)] /\ Len(D[e]) + k = numSent[Peer(e)]
          /\ D' = [D EXCEPT ![e] = @ \o Following(Len(D[e]), k)]
          /\ F' = [F EXCEPT ![e] = ends]
          /\ UNCHANGED <<numSent, hasClosed>>
      BY <1>10, <2>2, <2>3, <2>4, <2>5, <2>6 DEF n
    <3> QED BY <3>1 DEF Stream!Deliver, D, F, Following
  <2>8. k \in 0 .. numSent[Peer(e)]
    BY <1>4 DEF n
  <2> HIDE DEF D, F
  <2> QED BY <2>7, <2>8 DEF Stream!Next
<1> QED
  BY <1>9, <1>10

\* A step that changes neither connection changes nothing the applications see.
LEMMA NothingSeen ==
    ASSUME conn' = conn, numSent' = numSent, hasClosed' = hasClosed
    PROVE  [Stream!Next]_(Stream!vars)
<1>1. \A z \in End : /\ conn'[z].toApp = conn[z].toApp
                     /\ Told(z, "PEER_CLOSED")' = Told(z, "PEER_CLOSED")
  BY DEF Told
<1> QED
  BY <1>1 DEF Stream!vars

\* Every step of the two ends is a step of the stream, or changes nothing of it.
LEMMA StreamStep ==
    ASSUME OrderlySetup, IInv, IInv', Paired, [Next]_vars
    PROVE  [Stream!Next]_(Stream!vars)
<1>1. CASE UNCHANGED vars
  BY <1>1, NothingSeen DEF vars
<1>2. ASSUME NEW e \in End, SegmentLost(e)
      PROVE  [Stream!Next]_(Stream!vars)
  BY <1>2, NothingSeen DEF SegmentLost
<1>3. ASSUME NEW e \in End, Send(e)
      PROVE  [Stream!Next]_(Stream!vars)
  <2> DEFINE results == {process_SEND(conn[e], numSent[e] + 1, win) : win \in Windows}
  <2>1. /\ Handle(e, results, {}) /\ ~hasClosed[e]
        /\ numSent' = [numSent EXCEPT ![e] = @ + 1] /\ hasClosed' = hasClosed
    BY <1>3 DEF Send
  <2>2. \A d \in results : Silent(conn[e], d) /\ Recalls(conn[e], d)
    BY SendSilent, CommandsRecall
  <2> HIDE DEF results
  <2>3. /\ conn'[Peer(e)] = conn[Peer(e)]
        /\ Recalls(conn[e], conn'[e]) /\ Silent(conn[e], conn'[e])
    BY <2>1, <2>2, HandledHeard
  <2>4. /\ [z \in End |-> conn[z].toApp]' = [z \in End |-> conn[z].toApp]
        /\ [z \in End |-> Told(z, "PEER_CLOSED")]' = [z \in End |-> Told(z, "PEER_CLOSED")]
    BY <2>3, SilentKeeps
  <2>5. Stream!Send(e)
    BY <2>1, <2>4 DEF Stream!Send
  <2> QED BY <2>5 DEF Stream!Next
<1>4. ASSUME NEW e \in End, Close(e)
      PROVE  [Stream!Next]_(Stream!vars)
  <2>1. /\ Handle(e, {process_CLOSE(conn[e])}, {})
        /\ hasClosed' = [hasClosed EXCEPT ![e] = TRUE] /\ numSent' = numSent
    BY <1>4 DEF Close
  <2>2. /\ conn'[Peer(e)] = conn[Peer(e)]
        /\ Recalls(conn[e], conn'[e]) /\ Silent(conn[e], conn'[e])
    BY <2>1, CloseSilent, CommandsRecall, HandledHeard
  <2>3. /\ [z \in End |-> conn[z].toApp]' = [z \in End |-> conn[z].toApp]
        /\ [z \in End |-> Told(z, "PEER_CLOSED")]' = [z \in End |-> Told(z, "PEER_CLOSED")]
    BY <2>2, SilentKeeps
  <2>4. Stream!Finish(e)
    BY <2>1, <2>3 DEF Stream!Finish
  <2> QED BY <2>4 DEF Stream!Next
<1>5. ASSUME NEW e \in End, NEW results, NEW taken, Handle(e, results, taken),
             \A d \in results : Recalls(conn[e], d), UNCHANGED <<numSent, hasClosed>>
      PROVE  [Stream!Next]_(Stream!vars)
  <2>1. conn'[Peer(e)] = conn[Peer(e)] /\ Recalls(conn[e], conn'[e])
    BY <1>5, HandledHeard
  <2> QED BY <1>5, <2>1, EventDelivers
<1>6. ASSUME NEW e \in End, Open(e) \/ Abort(e)
      PROVE  [Stream!Next]_(Stream!vars)
  <2>1. /\ \/ Handle(e, {IF Opens[e] = "ACTIVE" THEN process_OPEN_ACTIVE(conn[e])
                                                ELSE process_OPEN_PASSIVE(conn[e])}, {})
           \/ Handle(e, {process_ABORT(conn[e])}, {})
        /\ UNCHANGED <<numSent, hasClosed>>
    BY <1>6 DEF Open, Abort
  <2> QED BY <1>5, <2>1, CommandsRecall
<1>7. ASSUME NEW e \in End, SegmentArrives(e)
      PROVE  [Stream!Next]_(Stream!vars)
  <2>1. PICK s \in net[e] :
          Handle(e, {process_RCV_SEGMENT(conn[e], s, win) : win \in Windows}, {s})
    BY <1>7 DEF SegmentArrives
  <2>2. UNCHANGED <<numSent, hasClosed>>
    BY <1>7 DEF SegmentArrives
  <2> DEFINE results == {process_RCV_SEGMENT(conn[e], s, win) : win \in Windows}
  <2>3. \A d \in results : Recalls(conn[e], d)
    BY SegmentRecalls
  <2> HIDE DEF results
  <2>4. Handle(e, results, {s})
    BY <2>1 DEF results
  <2> QED BY <1>5, <2>2, <2>3, <2>4
<1>8. ASSUME NEW e \in End, Timeout(e)
      PROVE  [Stream!Next]_(Stream!vars)
  <2> DEFINE c == conn[e]
             c1 == [c EXCEPT !.connEstabTimer = FALSE]
             c2 == [c EXCEPT !.the2MSLTimer = @ - 1]
             r1 == process_TIMEOUT_CONN_ESTAB(c1)
             r2 == process_TIMEOUT_SYN_REXMIT(c)
             r3 == processRexmitTimer(c)
             r4 == IF c.the2MSLTimer > 1 THEN c2 ELSE process_TIMEOUT_2MSL(c)
  <2>1. /\ \E d \in {r1, r2, r3, r4} : Handle(e, {d}, {})
        /\ UNCHANGED <<numSent, hasClosed>>
    BY <1>8 DEF Timeout, ConnEstabTimeout, SynRexmitTimeout, RexmitTimeout, TwoMslTimeout
  <2>2. Quiet(c, c1) /\ Quiet(c, c2)
    BY DEF Quiet
  <2> HIDE DEF c1, c2
  <2>3. Recalls(c, r1) /\ Recalls(c, r2) /\ Recalls(c, r3) /\ Recalls(c, r4)
    BY <2>2, CommandsRecall, QuietRecalls, RecallsTwice
  <2> HIDE DEF r1, r2, r3, r4
  <2>4. PICK d \in {r1, r2, r3, r4} : Handle(e, {d}, {})
    BY <2>1
  <2>5. \A q \in {d} : Recalls(conn[e], q)
    BY <2>3, <2>4
  <2> QED BY <1>5, <2>1, <2>4, <2>5
<1> QED
  BY <1>1, <1>2, <1>3, <1>4, <1>6, <1>7, <1>8 DEF Next

\* ImplementsReliableStream: what the applications see of the connection is a
\* reliable stream in both directions.
THEOREM StreamImplemented ==
    ASSUME OrderlySetup
    PROVE  Spec => ImplementsReliableStream
<1>1. Init => Stream!Init
  BY DEF Init, Stream!Init, NewConnection, Told, End
<1>2. IInv /\ IInv' /\ Paired /\ [Next]_vars => [Stream!Next]_(Stream!vars)
  BY StreamStep
<1>3. Spec => [](IInv /\ Paired)
  BY PairedInvariance
<1> QED
  BY <1>1, <1>2, <1>3, PTL DEF Spec, ImplementsReliableStream, Stream!Spec

=============================================================================
