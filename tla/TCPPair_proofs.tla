--------------------------- MODULE TCPPair_proofs ---------------------------
(***************************************************************************)
(* What is proved about a TCP connection for every width of the sequence   *)
(* numbers, every window, every limit of the retransmissions, every        *)
(* behaviour of the applications and every loss and reordering.            *)
(*                                                                         *)
(* Every handler is an operator on the record of a connection, so the      *)
(* proof follows the calls.  Connection(n, m) is the type of a connection  *)
(* whose application has sent n items and whose peer's has sent m.  An     *)
(* operator that only sends leads to Sender(c, n, m): the state, the       *)
(* indications, the timers of setup and the receive side are those of c.   *)
(* One that takes text leads to Receiver(c, n, m).  Good is the invariant  *)
(* of one end; one lemma per handler shows that it keeps it, and the       *)
(* invariant IInv of the pair adds that what is in flight was sent.        *)
(*                                                                         *)
(* That insertBytesFromSegment finds the end of the text that is in        *)
(* sequence (its CHOOSE has a witness) rests on the receive window: all    *)
(* that waits in the receive queue is ahead of rcv_nxt and inside the      *)
(* window, which a FIN that moves rcv_nxt must not destroy.                *)
(*                                                                         *)
(* The last section prepares what relates the two ends (TCPStream_proofs). *)
(* A View says where the two streams stand; offset 0 is the SYN, offset i  *)
(* item i.  Flow places the sequence variables of one end at offsets, Mine *)
(* and Theirs the segments it sends and gets; one lemma per handler shows  *)
(* that Flow is kept and that the variables only move forward.             *)
(***************************************************************************)
EXTENDS TCPPair, Walks_proofs, FiniteSetTheorems, SequenceTheorems

-----------------------------------------------------------------------------
(* Sequence numbers *)

\* The width of the sequence numbers: the receive window fits in half of it.
LEMMA HalfFacts == Half \in Nat /\ Half >= 2 /\ SeqMod = 2 * Half /\ SeqMod \in Nat
BY HalfAssumption, ConnectionAssumption DEF SeqMod

\* Plus and Minus stay within the sequence numbers.
LEMMA PlusType ==
    ASSUME NEW a \in SeqNo, NEW i \in SeqNo
    PROVE  Plus(a, i) \in SeqNo
BY HalfFacts DEF SeqNo, Plus

\* The distance between two sequence numbers is one.
LEMMA MinusType ==
    ASSUME NEW a \in SeqNo, NEW b \in SeqNo
    PROVE  Minus(a, b) \in SeqNo
BY HalfFacts DEF SeqNo, Minus

\* The distance from a to the number i further on is i, also across the wrap.
LEMMA MinusPlus ==
    ASSUME NEW a \in SeqNo, NEW i \in SeqNo
    PROVE  Minus(Plus(a, i), a) = i
BY HalfFacts DEF SeqNo, Plus, Minus

\* What is at the distance of b from a is b.
LEMMA PlusMinus ==
    ASSUME NEW a \in SeqNo, NEW b \in SeqNo
    PROVE  Plus(a, Minus(b, a)) = b
BY HalfFacts DEF SeqNo, Plus, Minus

\* seqLE, seqLess, seqGE, seqGreater and seqMax of TCPSegment.h are right for
\* numbers that are less than half of the range apart, wherever the range wraps.
THEOREM ComparisonsRight ==
    ASSUME NEW a \in SeqNo, NEW i \in SeqNo, NEW j \in SeqNo,
           i - j < Half, j - i < Half
    PROVE  /\ seqLE(Plus(a, i), Plus(a, j)) <=> i <= j
           /\ seqLess(Plus(a, i), Plus(a, j)) <=> i < j
           /\ seqGE(Plus(a, i), Plus(a, j)) <=> i >= j
           /\ seqGreater(Plus(a, i), Plus(a, j)) <=> i > j
           /\ seqMax(Plus(a, i), Plus(a, j)) = Plus(a, IF i >= j THEN i ELSE j)
BY HalfFacts DEF SeqNo, Plus, Minus, seqLE, seqLess, seqGE, seqGreater, seqMax

\* seqMax is one of its arguments.
LEMMA SeqMaxType ==
    ASSUME NEW a \in SeqNo, NEW b \in SeqNo
    PROVE  seqMax(a, b) \in SeqNo
BY DEF seqMax

\* A number within the window of n items.
LEMMA Small == \A n \in 0 .. Half - 2 : n \in SeqNo /\ n + 1 \in SeqNo /\ n < Half - 1
BY HalfFacts DEF SeqNo

\* The constants that are added to sequence numbers.
LEMMA SeqConstants == 0 \in SeqNo /\ 1 \in SeqNo /\ IssStep \in SeqNo /\ RcvWnd \in SeqNo
BY HalfFacts, ConnectionAssumption DEF SeqNo

-----------------------------------------------------------------------------
(* Connections *)

\* The types of the queues and counters: a send queue with items among the first
\* n, a receive queue with items among the first m of the peer.
Queue(n) == {q \in Seq(1 .. n) : Len(q) <= n}
Received(m) == SUBSET (SeqNo \X (1 .. m))
Outgoing(n) == SUBSET Segment(0 .. n)
DupAcks == 0 .. DUPTHRESH + 1
Ticks == 0 .. MSL2

\* A connection whose application has sent n items and whose peer's has sent m.
Connection(n, m) ==
    [state : State, active : BOOLEAN, failed : BOOLEAN,
     iss : SeqNo, snd_una : SeqNo, snd_nxt : SeqNo, snd_max : SeqNo,
     begin : SeqNo, sendQueue : Queue(n), send_fin : BOOLEAN, snd_fin_seq : SeqNo,
     fin_ack_rcvd : BOOLEAN, afterRto : BOOLEAN, dupacks : DupAcks,
     rcv_nxt : SeqNo, receiveQueue : Received(m), fin_rcvd : BOOLEAN, rcv_fin_seq : SeqNo,
     connEstabTimer : BOOLEAN, synRexmitTimer : BOOLEAN, syn_rexmit_count : Nat,
     rexmitTimer : BOOLEAN, rexmit_count : Nat, the2MSLTimer : Ticks,
     toApp : Seq(1 .. m), ind : Seq(Indication), out : Outgoing(n)]

\* d has the state, the setup timers and the indications of c.
KeepsState(c, d) ==
    /\ d.state = c.state /\ d.active = c.active
    /\ d.connEstabTimer = c.connEstabTimer /\ d.synRexmitTimer = c.synRexmitTimer
    /\ d.ind = c.ind
    /\ d.rexmit_count \in {0, c.rexmit_count}

\* ... and its receive side.
Keeps(c, d) ==
    /\ KeepsState(c, d)
    /\ d.rcv_nxt = c.rcv_nxt /\ d.receiveQueue = c.receiveQueue

\* What handling text, and what sending, may make of c.
Receiver(c, n, m) == {d \in Connection(n, m) : KeepsState(c, d)}
Sender(c, n, m) == {d \in Connection(n, m) : Keeps(c, d)}

\* Numbers of items: fewer than half of the sequence numbers.
Number == 0 .. Half - 2

\* Doing nothing is sending nothing.
LEMMA Reflexive ==
    ASSUME NEW n, NEW m, NEW c \in Connection(n, m)
    PROVE  c \in Sender(c, n, m)
BY DEF Sender, Keeps, KeepsState

\* Two operators that only send, one after the other, only send.
LEMMA Transitive ==
    ASSUME NEW n, NEW m, NEW c, NEW d \in Sender(c, n, m), NEW e \in Sender(d, n, m)
    PROVE  e \in Sender(c, n, m)
BY DEF Sender, Keeps, KeepsState

\* The same for operators that take text.
LEMMA ReceiverTransitive ==
    ASSUME NEW n, NEW m, NEW c, NEW d \in Receiver(c, n, m), NEW e \in Receiver(d, n, m)
    PROVE  e \in Receiver(c, n, m)
BY DEF Receiver, KeepsState

\* What leaves the receive side alone is a special case.
LEMMA SenderIsReceiver ==
    ASSUME NEW n, NEW m, NEW c
    PROVE  Sender(c, n, m) \subseteq Receiver(c, n, m)
BY DEF Receiver, Sender, Keeps

\* The types of the fields.
LEMMA ConnectionTypes ==
    ASSUME NEW n, NEW m, NEW c \in Connection(n, m)
    PROVE  /\ {c.iss, c.snd_una, c.snd_nxt, c.snd_max, c.begin, c.snd_fin_seq,
               c.rcv_nxt, c.rcv_fin_seq} \subseteq SeqNo
           /\ c.state \in State /\ c.failed \in BOOLEAN /\ c.active \in BOOLEAN
           /\ c.sendQueue \in Queue(n) /\ c.receiveQueue \in Received(m)
           /\ c.out \in Outgoing(n) /\ c.ind \in Seq(Indication) /\ c.toApp \in Seq(1 .. m)
           /\ c.rexmit_count \in Nat /\ c.syn_rexmit_count \in Nat
           /\ c.dupacks \in DupAcks /\ c.the2MSLTimer \in Ticks
           /\ c.fin_ack_rcvd \in BOOLEAN /\ c.afterRto \in BOOLEAN /\ c.rexmitTimer \in BOOLEAN
           /\ c.connEstabTimer \in BOOLEAN /\ c.synRexmitTimer \in BOOLEAN
BY DEF Connection

\* The type of a segment.
LEMMA SegType ==
    ASSUME NEW n \in Nat, NEW f \in SUBSET Flag, NEW a \in SeqNo, NEW b \in SeqNo, NEW i \in 0 .. n
    PROVE  Seg(f, a, b, i) \in Segment(0 .. n)
BY DEF Seg, Segment

\* Sending a segment.
LEMMA EmitStep ==
    ASSUME NEW n, NEW m, NEW c \in Connection(n, m), NEW s \in Segment(0 .. n)
    PROVE  Emit(c, s) \in Sender(c, n, m)
<1>1. c.out \cup {s} \in Outgoing(n)
  BY DEF Connection, Outgoing
<1> DEFINE o == c.out \cup {s}
           d == [c EXCEPT !.out = o]
<1>2. Emit(c, s) = d
  BY DEF Emit
<1>3. d \in Connection(n, m)
  <2> HIDE DEF o
  <2> QED BY <1>1 DEF Connection, o
<1>4. Keeps(c, d)
  <2> HIDE DEF o
  <2> QED BY DEF Connection, Keeps, KeepsState
<1> QED
  BY <1>2, <1>3, <1>4 DEF Sender

\* Acknowledgements, resets and FINs.
LEMMA SendControl ==
    ASSUME NEW n \in Nat, NEW m, NEW c \in Connection(n, m)
    PROVE  /\ sendAck(c) \in Sender(c, n, m)
           /\ sendFin(c) \in Sender(c, n, m)
           /\ \A seq \in SeqNo : sendRst(c, seq) \in Sender(c, n, m)
<1>1. c.snd_nxt \in SeqNo /\ c.rcv_nxt \in SeqNo /\ 0 \in SeqNo /\ 0 \in 0 .. n
  BY ConnectionTypes, SeqConstants
<1>2. /\ Seg({"ACK"}, c.snd_nxt, c.rcv_nxt, 0) \in Segment(0 .. n)
      /\ Seg({"FIN", "ACK"}, c.snd_nxt, c.rcv_nxt, 0) \in Segment(0 .. n)
      /\ \A seq \in SeqNo : Seg({"RST"}, seq, 0, 0) \in Segment(0 .. n)
  BY <1>1, SegType DEF Flag
<1> QED
  BY <1>2, EmitStep DEF sendAck, sendFin, sendRst

\* An assignment to the variables of the sender.
LEMMA SetSndNxt ==
    ASSUME NEW n, NEW m, NEW c \in Connection(n, m), NEW a \in SeqNo
    PROVE  LET d == [c EXCEPT !.snd_nxt = a]
           IN  d \in Sender(c, n, m) /\ d.snd_nxt = a
BY DEF Sender, Connection, Keeps, KeepsState

\* The same with snd_max.
LEMMA SetSndNxtMax ==
    ASSUME NEW n, NEW m, NEW c \in Connection(n, m), NEW a \in SeqNo, NEW b \in SeqNo
    PROVE  [c EXCEPT !.snd_nxt = a, !.snd_max = b] \in Sender(c, n, m)
BY DEF Sender, Connection, Keeps, KeepsState

\* An ASSERT that fails stops the simulation.
LEMMA SetFailed ==
    ASSUME NEW n, NEW m, NEW c \in Connection(n, m)
    PROVE  [c EXCEPT !.failed = TRUE] \in Sender(c, n, m)
BY DEF Sender, Connection, Keeps, KeepsState

\* startRexmitTimer resets the count.
LEMMA StartRexmit ==
    ASSUME NEW n, NEW m, NEW c \in Connection(n, m)
    PROVE  startRexmitTimer(c) \in Sender(c, n, m)
BY DEF Sender, Connection, Keeps, KeepsState, startRexmitTimer

\* SYN and SYN+ACK.
LEMMA SendSyns ==
    ASSUME NEW n \in Nat, NEW m, NEW c \in Connection(n, m)
    PROVE  sendSyn(c) \in Sender(c, n, m) /\ sendSynAck(c) \in Sender(c, n, m)
<1>1. c.iss \in SeqNo /\ c.rcv_nxt \in SeqNo /\ 0 \in SeqNo /\ 0 \in 0 .. n
  BY ConnectionTypes, SeqConstants
<1>2. Plus(c.iss, 1) \in SeqNo
  BY <1>1, PlusType, SeqConstants
<1> DEFINE x == Seg({"SYN"}, c.iss, 0, 0)
           y == Seg({"SYN", "ACK"}, c.iss, c.rcv_nxt, 0)
<1>3. x \in Segment(0 .. n) /\ y \in Segment(0 .. n)
  BY <1>1, SegType DEF Flag
<1> HIDE DEF x, y
<1>4. Emit(c, x) \in Sender(c, n, m) /\ Emit(c, y) \in Sender(c, n, m)
  BY <1>3, EmitStep
<1>5. Emit(c, x) \in Connection(n, m) /\ Emit(c, y) \in Connection(n, m)
  BY <1>4 DEF Sender
<1>6. /\ sendSyn(c) \in Sender(Emit(c, x), n, m)
      /\ sendSynAck(c) \in Sender(Emit(c, y), n, m)
  BY <1>2, <1>5, SetSndNxtMax DEF sendSyn, sendSynAck, x, y
<1> QED
  BY <1>4, <1>6, Transitive

\* The elements of a sequence.
LEMMA Element ==
    ASSUME NEW S, NEW s \in Seq(S)
    PROVE  \A i \in 1 .. Len(s) : s[i] \in S
OBVIOUS

\* The end of the send queue is a sequence number: the queue is shorter than
\* half of the range.
LEMMA BufferEnd ==
    ASSUME NEW n \in Number, NEW m, NEW c \in Connection(n, m)
    PROVE  /\ BufferEndSeq(c) \in SeqNo
           /\ Len(c.sendQueue) \in 0 .. Half - 2 /\ Len(c.sendQueue) \in SeqNo
<1>1. c.begin \in SeqNo /\ c.sendQueue \in Seq(1 .. n) /\ Len(c.sendQueue) <= n
  BY ConnectionTypes DEF Queue
<1>2. Len(c.sendQueue) \in Nat
  BY <1>1
<1>3. Len(c.sendQueue) \in 0 .. Half - 2
  BY <1>1, <1>2, HalfFacts DEF Number
<1> QED
  BY <1>1, <1>3, Small, PlusType DEF BufferEndSeq

\* discardUpTo leaves a part of the send queue.
LEMMA Discard ==
    ASSUME NEW n \in Number, NEW m, NEW c \in Connection(n, m), NEW seq \in SeqNo
    PROVE  discardUpTo(c, seq) \in Sender(c, n, m)
<1> DEFINE k == Minus(seq, c.begin) + 1
           q == SubSeq(c.sendQueue, k, Len(c.sendQueue))
<1>1. c.begin \in SeqNo /\ c.sendQueue \in Seq(1 .. n) /\ Len(c.sendQueue) <= n
  BY ConnectionTypes DEF Queue
<1>2. k \in Nat /\ k >= 1
  <2>1. Minus(seq, c.begin) \in SeqNo
    BY <1>1, MinusType
  <2> QED BY <2>1, HalfFacts DEF SeqNo
<1>3. q \in Seq(1 .. n) /\ Len(q) <= Len(c.sendQueue) /\ Len(q) \in Nat
  <2> DEFINE r == c.sendQueue
  <2>1. r \in Seq(1 .. n) /\ Len(r) \in Nat
    BY <1>1
  <2> HIDE DEF r, k
  <2>2. SubSeq(r, k, Len(r)) \in Seq(1 .. n) /\ Len(SubSeq(r, k, Len(r))) <= Len(r)
    <3>0. k \in Int /\ Len(r) \in Int
      BY <1>2, <2>1
    <3>1. \A i \in k .. Len(r) : r[i] \in 1 .. n
      <4>1. \A i \in k .. Len(r) : i \in 1 .. Len(r)
        BY <1>2, <2>1
      <4> QED BY <2>1, <4>1, Element
    <3>2. /\ SubSeq(r, k, Len(r)) \in Seq(1 .. n)
          /\ Len(SubSeq(r, k, Len(r))) = IF k <= Len(r) THEN Len(r) - k + 1 ELSE 0
      BY <3>0, <3>1, SubSeqProperties
    <3> QED BY <1>2, <2>1, <3>2
  <2> QED BY <2>2 DEF r
<1>4. q \in Queue(n)
  BY <1>1, <1>3 DEF Queue, Number
<1>5. [c EXCEPT !.begin = seq, !.sendQueue = q] \in Sender(c, n, m)
  <2> HIDE DEF q
  <2> QED BY <1>4 DEF Sender, Connection, Keeps, KeepsState
<1>6. \/ discardUpTo(c, seq) = [c EXCEPT !.begin = seq, !.sendQueue = q]
      \/ discardUpTo(c, seq) = [c EXCEPT !.failed = TRUE]
  BY DEF discardUpTo
<1> QED
  BY <1>5, <1>6, SetFailed

\* The buffer has getBytesAvailable items from seq on, at their places in the queue.
LEMMA ItemsAvailable ==
    ASSUME NEW n \in Number, NEW m, NEW c \in Connection(n, m),
           NEW k \in 1 .. getBytesAvailable(c, c.snd_nxt), seqLE(c.begin, c.snd_nxt)
    PROVE  /\ k \in SeqNo
           /\ \A i \in 0 .. k - 1 :
                /\ i \in SeqNo
                /\ c.sendQueue[Minus(c.snd_nxt, c.begin) + i + 1] \in 1 .. n
<1> DEFINE b == c.begin
           x == c.snd_nxt
           L == Len(c.sendQueue)
<1>1. b \in SeqNo /\ x \in SeqNo /\ L \in 0 .. Half - 2 /\ c.sendQueue \in Seq(1 .. n)
  BY ConnectionTypes, BufferEnd DEF Queue
<1>2. /\ seqLess(x, Plus(b, L))
      /\ k \in 1 .. Minus(Plus(b, L), x)
  BY DEF getBytesAvailable, BufferEndSeq
<1>3. seqLE(b, x)
  OBVIOUS
<1> HIDE DEF b, x, L
<1>4. Minus(x, b) + Minus(Plus(b, L), x) = L /\ Minus(x, b) \in Nat /\ Minus(Plus(b, L), x) < Half
  BY <1>1, <1>2, <1>3, HalfFacts DEF SeqNo, Plus, Minus, seqLess, seqLE
<1>5. ASSUME NEW i \in 0 .. k - 1
      PROVE  Minus(x, b) + i + 1 \in 1 .. L /\ i \in SeqNo /\ k \in SeqNo
  <2> DEFINE p == Minus(x, b)
             r == Minus(Plus(b, L), x)
  <2>1. p \in Nat /\ r \in Nat /\ p + r = L /\ r < Half /\ L < Half
    <3>1. Plus(b, L) \in SeqNo /\ r \in SeqNo
      BY <1>1, PlusType, MinusType, Small
    <3> QED BY <1>1, <1>4, <3>1, HalfFacts DEF SeqNo
  <2>2. k \in 1 .. r
    BY <1>2
  <2> HIDE DEF p, r
  <2>3. p + i + 1 \in 1 .. L /\ i \in 0 .. SeqMod - 1
    BY <2>1, <2>2, <1>1, HalfFacts
  <2>4. k \in 0 .. SeqMod - 1
    BY <2>1, <2>2, <1>1, HalfFacts
  <2> QED BY <2>3, <2>4 DEF p, SeqNo
<1>6. \A i \in 0 .. k - 1 : c.sendQueue[Minus(x, b) + i + 1] \in 1 .. n
  <2> SUFFICES ASSUME NEW i \in 0 .. k - 1
               PROVE  c.sendQueue[Minus(x, b) + i + 1] \in 1 .. n
    OBVIOUS
  <2>1. Minus(x, b) + i + 1 \in 1 .. Len(c.sendQueue) /\ c.sendQueue \in Seq(1 .. n)
    BY <1>1, <1>5 DEF L
  <2> DEFINE t == Minus(x, b) + i + 1
             q == c.sendQueue
  <2> HIDE DEF t, q
  <2>2. t \in 1 .. Len(q) /\ q \in Seq(1 .. n)
    BY <2>1 DEF t, q
  <2>3. q[t] \in 1 .. n
    BY <2>2, Element
  <2> QED BY <2>3 DEF t, q
<1>7. k \in SeqNo /\ \A i \in 0 .. k - 1 : i \in SeqNo
  <2>1. 0 \in 0 .. k - 1
    BY <1>2
  <2> QED BY <1>5, <2>1
<1> QED
  BY <1>6, <1>7 DEF x, b

\* sendSegments sends items that are in the buffer.
LEMMA SendSegments ==
    ASSUME NEW n \in Number, NEW m, NEW c \in Connection(n, m),
           NEW k \in 1 .. getBytesAvailable(c, c.snd_nxt)
    PROVE  sendSegments(c, k) \in Sender(c, n, m)
<1>0. CASE ~seqLE(c.begin, c.snd_nxt)
  BY <1>0, SetFailed DEF sendSegments
<1>1. CASE seqLE(c.begin, c.snd_nxt)
  <2> DEFINE next == Plus(c.snd_nxt, k)
             fin == c.send_fin /\ next = c.snd_fin_seq
             data(i) ==
                 Seg(IF fin /\ i = k - 1 THEN {"ACK", "FIN"} ELSE {"ACK"},
                     Plus(c.snd_nxt, i), c.rcv_nxt,
                     c.sendQueue[Minus(c.snd_nxt, c.begin) + i + 1])
             a == IF fin THEN Plus(next, 1) ELSE next
             f == c.afterRto /\ ~seqGE(next, c.snd_max)
             o == c.out \cup {data(i) : i \in 0 .. k - 1}
  <2>1. sendSegments(c, k) = [c EXCEPT !.snd_nxt = a, !.afterRto = f, !.out = o]
    BY <1>1 DEF sendSegments
  <2>2. /\ c.snd_nxt \in SeqNo /\ c.rcv_nxt \in SeqNo /\ c.out \in Outgoing(n)
        /\ n \in Nat /\ 1 \in SeqNo
    BY ConnectionTypes, SeqConstants DEF Number
  <2>3. next \in SeqNo
    BY <1>1, <2>2, ItemsAvailable, PlusType
  <2>4. a \in SeqNo
    <3> HIDE DEF next, fin
    <3> QED BY <2>2, <2>3, PlusType
  <2>5. \A i \in 0 .. k - 1 : data(i) \in Segment(0 .. n)
    <3> SUFFICES ASSUME NEW i \in 0 .. k - 1 PROVE data(i) \in Segment(0 .. n)
      OBVIOUS
    <3> DEFINE fl == IF fin /\ i = k - 1 THEN {"ACK", "FIN"} ELSE {"ACK"}
               x == c.sendQueue[Minus(c.snd_nxt, c.begin) + i + 1]
               p == Plus(c.snd_nxt, i)
    <3>1. x \in 0 .. n /\ i \in SeqNo
      BY <1>1, <2>2, ItemsAvailable
    <3>2. p \in SeqNo
      BY <2>2, <3>1, PlusType
    <3>3. fl \in SUBSET Flag
      BY DEF Flag
    <3>4. data(i) = Seg(fl, p, c.rcv_nxt, x)
      OBVIOUS
    <3> HIDE DEF fl, x, p, data
    <3> QED BY <2>2, <3>1, <3>2, <3>3, <3>4, SegType
  <2>6. o \in Outgoing(n)
    <3> HIDE DEF data
    <3> QED BY <2>2, <2>5 DEF Outgoing
  <2>7. f \in BOOLEAN
    OBVIOUS
  <2> DEFINE d == [c EXCEPT !.snd_nxt = a, !.afterRto = f, !.out = o]
  <2>8. d \in Connection(n, m)
    <3> HIDE DEF a, f, o
    <3> QED BY <2>4, <2>6, <2>7 DEF Connection
  <2>9. Keeps(c, d)
    <3> HIDE DEF a, f, o
    <3> QED BY DEF Connection, Keeps, KeepsState
  <2> QED BY <2>1, <2>8, <2>9 DEF Sender
<1> QED
  BY <1>0, <1>1

\* The end of sendData: snd_max and the REXMIT timer.
LEMMA OutstandingStep ==
    ASSUME NEW n \in Number, NEW m, NEW c \in Connection(n, m)
    PROVE  Outstanding(c) \in Sender(c, n, m)
<1> DEFINE x == seqMax(c.snd_max, c.snd_nxt)
           k == IF c.rexmitTimer THEN c.rexmit_count ELSE 0
<1>1. x \in SeqNo
  BY ConnectionTypes, SeqMaxType
<1>2. k \in Nat /\ k \in {0, c.rexmit_count}
  BY ConnectionTypes
<1>3. Outstanding(c) = [c EXCEPT !.snd_max = x, !.rexmitTimer = TRUE, !.rexmit_count = k]
  BY DEF Outstanding
<1> DEFINE d == [c EXCEPT !.snd_max = x, !.rexmitTimer = TRUE, !.rexmit_count = k]
<1>4. d \in Connection(n, m)
  <2> HIDE DEF x, k
  <2> QED BY <1>1, <1>2 DEF Connection
<1>5. Keeps(c, d)
  <2>1. d.rexmit_count = k
    <3> HIDE DEF x, k
    <3> QED BY DEF Connection
  <2> HIDE DEF x, k
  <2> QED BY <1>2, <2>1 DEF Connection, Keeps, KeepsState
<1> QED
  BY <1>3, <1>4, <1>5 DEF Sender

\* sendData sends what the buffer holds and the window allows.
LEMMA SendData ==
    ASSUME NEW n \in Number, NEW m, NEW c \in Connection(n, m), NEW win \in Windows
    PROVE  sendData(c, win) \in Sender(c, n, m)
<1> DEFINE d == IF c.afterRto THEN c ELSE [c EXCEPT !.snd_nxt = c.snd_max]
<1>1. d \in Sender(c, n, m)
  BY ConnectionTypes, SetSndNxt, Reflexive
<1>2. d \in Connection(n, m)
  BY <1>1 DEF Sender
<1>3. sendData(c, win) = sendDataFromNxt(d, win)
  BY DEF sendData
<1> HIDE DEF d
<1>4. CASE BytesToSend(d, win) <= 0
  BY <1>1, <1>3, <1>4 DEF sendDataFromNxt
<1>5. CASE ~(BytesToSend(d, win) <= 0)
  <2> DEFINE k == BytesToSend(d, win)
             e == sendSegments(d, k)
  <2>1. /\ win \in Int
        /\ Minus(d.snd_nxt, d.snd_una) \in SeqNo
        /\ getBytesAvailable(d, d.snd_nxt) \in SeqNo
    BY <1>2, ConnectionTypes, MinusType, BufferEnd, SeqConstants, PairAssumption
    DEF getBytesAvailable
  <2>2. k \in 1 .. getBytesAvailable(d, d.snd_nxt)
    BY <1>5, <2>1, HalfFacts DEF SeqNo, BytesToSend
  <2>3. e \in Sender(d, n, m)
    BY <1>2, <2>2, SendSegments
  <2>4. e \in Connection(n, m) /\ sendData(c, win) = Outstanding(e)
    BY <1>3, <1>5, <2>3 DEF sendDataFromNxt, Sender
  <2> HIDE DEF e
  <2>5. Outstanding(e) \in Sender(e, n, m)
    BY <2>4, OutstandingStep
  <2> QED
    BY <1>1, <2>3, <2>4, <2>5, Transitive
<1> QED
  BY <1>4, <1>5

\* retransmitOneSegment.
LEMMA Retransmit ==
    ASSUME NEW n \in Number, NEW m, NEW c \in Connection(n, m), NEW called_at_rto \in BOOLEAN
    PROVE  retransmitOneSegment(c, called_at_rto) \in Sender(c, n, m)
<1> DEFINE c1 == [c EXCEPT !.snd_nxt = c.snd_una]
           end == BufferEndSeq(c)
           c2 == sendSegments(c1, 1)
<1>1. /\ c.snd_una \in SeqNo /\ c.snd_nxt \in SeqNo /\ end \in SeqNo
      /\ Plus(end, 1) \in SeqNo
  BY ConnectionTypes, BufferEnd, PlusType, SeqConstants
<1>2. c1 \in Sender(c, n, m) /\ c1 \in Connection(n, m) /\ c1.snd_nxt = c.snd_una
  BY <1>1, SetSndNxt DEF Sender
<1>3. CASE c.snd_max # c.snd_una /\ getBytesAvailable(c1, c.snd_una) # 0
  <2>1. 1 \in 1 .. getBytesAvailable(c1, c1.snd_nxt)
    <3> DEFINE g == getBytesAvailable(c1, c1.snd_nxt)
    <3>1. g \in SeqNo /\ g # 0
      BY <1>2, <1>3, ConnectionTypes, MinusType, BufferEnd, SeqConstants DEF getBytesAvailable
    <3> HIDE DEF g
    <3>2. 1 \in 1 .. g
      BY <3>1, HalfFacts DEF SeqNo
    <3> QED BY <3>2 DEF g
  <2> HIDE DEF c1
  <2>2. c2 \in Sender(c1, n, m) /\ c2 \in Connection(n, m)
    BY <1>2, <2>1, SendSegments DEF Sender
  <2> DEFINE a == seqMax(c.snd_nxt, c2.snd_nxt)
             c3 == [c2 EXCEPT !.snd_nxt = a]
  <2>3. a \in SeqNo
    BY <1>1, <2>2, ConnectionTypes, SeqMaxType
  <2>4. \/ retransmitOneSegment(c, called_at_rto) = c2
        \/ retransmitOneSegment(c, called_at_rto) = c3
    BY <1>3 DEF retransmitOneSegment, c1
  <2> HIDE DEF c2, a
  <2>5. c3 \in Sender(c2, n, m)
    BY <2>2, <2>3, SetSndNxt
  <2> QED BY <1>2, <2>2, <2>4, <2>5, Transitive
<1>4. CASE /\ ~(c.snd_max # c.snd_una /\ getBytesAvailable(c1, c.snd_una) # 0)
           /\ c.send_fin /\ c.snd_fin_seq = end
  <2> DEFINE d1 == [c1 EXCEPT !.snd_nxt = end]
             d2 == sendFin(d1)
             b == Plus(end, 1)
             d3 == [d2 EXCEPT !.snd_nxt = b, !.snd_max = b]
  <2>1. d1 \in Sender(c1, n, m) /\ d1 \in Connection(n, m)
    <3> HIDE DEF c1, end
    <3> QED BY <1>1, <1>2, SetSndNxt DEF Sender
  <2>2. d2 \in Sender(d1, n, m) /\ d2 \in Connection(n, m)
    <3> HIDE DEF d1
    <3> QED BY <2>1, SendControl DEF Sender, Number
  <2>3. retransmitOneSegment(c, called_at_rto) = d3
    BY <1>4 DEF retransmitOneSegment
  <2>4. d3 \in Sender(d2, n, m)
    <3> HIDE DEF d2, b
    <3> QED BY <1>1, <2>2, SetSndNxtMax DEF b
  <2> HIDE DEF c1, d1, d2, d3
  <2> QED BY <1>2, <2>1, <2>2, <2>3, <2>4, Transitive
<1>5. CASE /\ ~(c.snd_max # c.snd_una /\ getBytesAvailable(c1, c.snd_una) # 0)
           /\ ~(c.send_fin /\ c.snd_fin_seq = end)
  <2>1. retransmitOneSegment(c, called_at_rto) = [c EXCEPT !.failed = TRUE]
    BY <1>5 DEF retransmitOneSegment
  <2> QED BY <2>1, SetFailed
<1> QED
  BY <1>3, <1>4, <1>5

\* An ACK of something new.
LEMMA NewAck ==
    ASSUME NEW n \in Number, NEW m, NEW c \in Connection(n, m), NEW win \in Windows
    PROVE  receivedDataAck(c, win) \in Sender(c, n, m)
<1> DEFINE c0 == [c EXCEPT !.rexmitTimer = FALSE]
           c1 == IF c.snd_una = c.snd_max THEN c0 ELSE startRexmitTimer(c)
           c2 == sendData(c1, win)
           c3 == [c2 EXCEPT !.dupacks = 0]
<1>1. c0 \in Sender(c, n, m)
  BY DEF Sender, Connection, Keeps, KeepsState
<1>2. c1 \in Sender(c, n, m) /\ c1 \in Connection(n, m)
  <2> HIDE DEF c0
  <2> QED BY <1>1, StartRexmit DEF Sender
<1>3. c2 \in Sender(c1, n, m) /\ c2 \in Connection(n, m)
  <2> HIDE DEF c1
  <2> QED BY <1>2, SendData DEF Sender
<1>4. c3 \in Sender(c2, n, m)
  <2> HIDE DEF c2
  <2>1. 0 \in DupAcks
    BY ConnectionAssumption DEF DupAcks
  <2> QED BY <1>3, <2>1 DEF Sender, Connection, Keeps, KeepsState
<1>5. receivedDataAck(c, win) = c3
  BY DEF receivedDataAck
<1> HIDE DEF c1, c2, c3
<1> QED
  BY <1>2, <1>3, <1>4, <1>5, Transitive

\* A duplicate ACK.
LEMMA DuplicateAck ==
    ASSUME NEW n \in Number, NEW m, NEW c \in Connection(n, m), NEW win \in Windows
    PROVE  receivedDuplicateAck(c, win) \in Sender(c, n, m)
<1> DEFINE k == IF c.dupacks > DUPTHRESH THEN c.dupacks ELSE c.dupacks + 1
           c1 == [c EXCEPT !.dupacks = k]
           c2 == IF c1.dupacks = DUPTHRESH THEN retransmitOneSegment(c1, FALSE) ELSE c1
           c3 == sendData(c2, win)
<1>1. k \in DupAcks
  <2>1. c.dupacks \in 0 .. DUPTHRESH + 1
    BY ConnectionTypes DEF DupAcks
  <2> QED BY <2>1, ConnectionAssumption DEF DupAcks
<1>2. c1 \in Sender(c, n, m) /\ c1 \in Connection(n, m)
  <2> HIDE DEF k
  <2> QED BY <1>1 DEF Sender, Connection, Keeps, KeepsState
<1>3. c2 \in Sender(c1, n, m) /\ c2 \in Connection(n, m)
  <2> HIDE DEF c1
  <2> QED BY <1>2, Retransmit, Reflexive DEF Sender
<1>4. c3 \in Sender(c2, n, m)
  <2> HIDE DEF c2
  <2> QED BY <1>3, SendData
<1>5. receivedDuplicateAck(c, win) \in {c1, c3}
  BY DEF receivedDuplicateAck
<1> HIDE DEF c1, c2, c3
<1> QED
  BY <1>2, <1>3, <1>4, <1>5, Transitive

\* Step five.
LEMMA AckStep ==
    ASSUME NEW n \in Number, NEW m, NEW c \in Connection(n, m), NEW win \in Windows,
           NEW s \in Segment(0 .. m)
    PROVE  processAckInEstabEtc(c, s, win) \in Sender(c, n, m)
<1> DEFINE a == seqMax(c.snd_nxt, s.ackNo)
           f == c.fin_ack_rcvd \/ AcksFin(c, s)
           c0 == [c EXCEPT !.snd_una = s.ackNo, !.snd_nxt = a, !.fin_ack_rcvd = f]
           q == IF AcksFin(c, s) THEN c.snd_fin_seq ELSE s.ackNo
           c1 == discardUpTo(c0, q)
           e == [c EXCEPT !.dupacks = 0]
<1>1. /\ s.ackNo \in SeqNo /\ a \in SeqNo /\ q \in SeqNo
      /\ f \in BOOLEAN
  BY ConnectionTypes, SeqMaxType DEF Segment
<1>2. c0 \in Sender(c, n, m) /\ c0 \in Connection(n, m)
  <2> HIDE DEF a, f
  <2> QED BY <1>1 DEF Sender, Connection, Keeps, KeepsState
<1>3. c1 \in Sender(c0, n, m) /\ c1 \in Connection(n, m)
  <2> HIDE DEF c0, q
  <2> QED BY <1>1, <1>2, Discard DEF Sender
<1>4. e \in Sender(c, n, m)
  <2>1. 0 \in DupAcks
    BY ConnectionAssumption DEF DupAcks
  <2> QED BY <2>1 DEF Sender, Connection, Keeps, KeepsState
<1>5. processAckInEstabEtc(c, s, win) \in
        {receivedDuplicateAck(c, win), e, receivedDataAck(c1, win), c1}
  BY DEF processAckInEstabEtc
<1> HIDE DEF c0, c1, e
<1>6. /\ receivedDuplicateAck(c, win) \in Sender(c, n, m)
      /\ receivedDataAck(c1, win) \in Sender(c1, n, m)
  BY <1>3, DuplicateAck, NewAck
<1> QED
  BY <1>2, <1>3, <1>4, <1>5, <1>6, Transitive

-----------------------------------------------------------------------------
(* The receive queue *)

\* What waits in the receive queue is at least lo ahead of rcv_nxt and inside the
\* receive window.
Waiting(lo, c) ==
    \A r \in c.receiveQueue : Minus(r[1], c.rcv_nxt) \in lo .. RcvWnd - 1

\* Distances from a number that has moved on.
LEMMA MinusShift ==
    ASSUME NEW a \in SeqNo, NEW o \in SeqNo, NEW i \in SeqNo, i <= o
    PROVE  Minus(Plus(a, o), Plus(a, i)) = o - i
BY HalfFacts DEF SeqNo, Plus, Minus

\* Distances within the receive window are sequence numbers.
LEMMA WindowIsSmall == \A i \in 0 .. RcvWnd : i \in SeqNo
BY HalfFacts, ConnectionAssumption DEF SeqNo

\* The receive queue is finite and holds items of the peer.
LEMMA Pairs ==
    ASSUME NEW m \in Nat, NEW q \in Received(m)
    PROVE  /\ IsFiniteSet(q) /\ Cardinality(q) \in Nat
           /\ \A r \in q : r[1] \in SeqNo /\ r[2] \in 1 .. m
<1>1. IsFiniteSet(SeqNo) /\ IsFiniteSet(1 .. m)
  BY HalfFacts, FS_Interval DEF SeqNo
<1>2. IsFiniteSet(SeqNo \X (1 .. m))
  BY <1>1, FS_Product
<1> DEFINE T == 1 .. m
<1>3. q \in SUBSET (SeqNo \X T)
  BY DEF Received
<1>4. IsFiniteSet(q)
  BY <1>2, <1>3, FS_Subset
<1>5. Cardinality(q) \in Nat
  BY <1>4, FS_CardinalityType
<1> HIDE DEF T
<1>6. \A r \in q : r[1] \in SeqNo /\ r[2] \in T
  BY <1>3
<1> QED
  BY <1>4, <1>5, <1>6 DEF T

\* What is at the next places of the receive queue: the number k of items without
\* a gap exists and is no larger than the window.
LEMMA NextGap ==
    ASSUME NEW m \in Nat, NEW q \in Received(m), NEW a \in SeqNo,
           \A r \in q : Minus(r[1], a) \in 0 .. RcvWnd - 1
    PROVE  \E k \in 0 .. Cardinality(q) :
              /\ k <= RcvWnd
              /\ \A j \in 0 .. k - 1 : \E r \in q : r[1] = Plus(a, j)
              /\ ~ \E r \in q : r[1] = Plus(a, k)
<1> DEFINE S == {i \in 0 .. RcvWnd : ~ \E r \in q : r[1] = Plus(a, i)}
<1>0. RcvWnd \in Nat /\ RcvWnd \in SeqNo
  BY ConnectionAssumption, SeqConstants, HalfFacts
<1>1. RcvWnd \in S
  <2> SUFFICES ASSUME NEW r \in q, r[1] = Plus(a, RcvWnd) PROVE FALSE
    BY <1>0
  <2>1. Minus(r[1], a) = RcvWnd
    BY <1>0, MinusPlus
  <2> QED BY <1>0, <2>1
<1>2. S \in SUBSET Nat /\ S # {}
  BY <1>0, <1>1
<1>3. PICK k \in S : \A i \in S : k <= i
  <2> HIDE DEF S
  <2> QED BY <1>2, LeastNatural
<1>4. /\ k \in Nat /\ k <= RcvWnd
      /\ ~ \E r \in q : r[1] = Plus(a, k)
      /\ \A j \in 0 .. k - 1 : \E r \in q : r[1] = Plus(a, j)
  <2>1. k \in 0 .. RcvWnd /\ ~ \E r \in q : r[1] = Plus(a, k)
    BY <1>3
  <2>2. ASSUME NEW j \in 0 .. k - 1 PROVE \E r \in q : r[1] = Plus(a, j)
    <3>1. j \in 0 .. RcvWnd /\ j \notin S
      BY <1>0, <1>3, <2>1
    <3> QED BY <3>1
  <2> QED BY <1>0, <2>1, <2>2
<1> HIDE DEF S
<1> DEFINE f == [j \in 0 .. k - 1 |-> CHOOSE r \in q : r[1] = Plus(a, j)]
<1>5. \A j \in 0 .. k - 1 : f[j] \in q /\ f[j][1] = Plus(a, j)
  BY <1>4
<1>6. ASSUME NEW i \in 0 .. k - 1, NEW j \in 0 .. k - 1, f[i] = f[j]
      PROVE  i = j
  <2>1. i \in SeqNo /\ j \in SeqNo
    BY <1>0, <1>4, WindowIsSmall
  <2>2. Plus(a, i) = Plus(a, j)
    BY <1>5, <1>6
  <2> QED BY <2>1, <2>2, MinusPlus
<1>7. f \in Injection(0 .. k - 1, q)
  <2>1. f \in [0 .. k - 1 -> q]
    BY <1>5
  <2> HIDE DEF f
  <2> QED BY <1>6, <2>1 DEF Injection, IsInjective
<1>8. IsFiniteSet(q) /\ Cardinality(q) \in Nat
  BY Pairs
<1>9. k <= Cardinality(q)
  <2>1. Cardinality(0 .. k - 1) = k
    BY <1>4, FS_Interval
  <2> HIDE DEF f
  <2>2. Cardinality(0 .. k - 1) <= Cardinality(q)
    BY <1>7, <1>8, FS_Injection
  <2> QED BY <2>1, <2>2
<1> QED
  BY <1>4, <1>8, <1>9

\* insertBytesFromSegment: what is in sequence leaves the receive queue, and what is
\* left is behind a gap.
LEMMA Insert ==
    ASSUME NEW n \in Nat, NEW m \in Nat, NEW c \in Connection(n, m),
           NEW s \in Segment(0 .. m), s.item # 0, Waiting(0, c),
           Minus(s.seqNo, c.rcv_nxt) \in 0 .. RcvWnd - 1
    PROVE  LET d == insertBytesFromSegment(c, s)
           IN  d \in Receiver(c, n, m) /\ Waiting(1, d)
<1> DEFINE a == c.rcv_nxt
           q == c.receiveQueue \cup {<<s.seqNo, s.item>>}
           has(x) == \E r \in q : r[1] = x
           k == CHOOSE i \in 0 .. Cardinality(q) :
                    /\ \A j \in 0 .. i - 1 : has(Plus(a, j))
                    /\ ~has(Plus(a, i))
           item(j) == (CHOOSE r \in q : r[1] = Plus(a, j - 1))[2]
           b == Plus(a, k)
           p == {r \in q : \A j \in 0 .. k - 1 : r[1] # Plus(a, j)}
           t == c.toApp \o [j \in 1 .. k |-> item(j)]
           d == [c EXCEPT !.rcv_nxt = b, !.receiveQueue = p, !.toApp = t]
<1>1. /\ a \in SeqNo /\ c.receiveQueue \in Received(m) /\ c.toApp \in Seq(1 .. m)
      /\ s.seqNo \in SeqNo /\ s.item \in 1 .. m
  BY ConnectionTypes DEF Segment
<1>2. insertBytesFromSegment(c, s) = d
  BY DEF insertBytesFromSegment
<1>3. q \in Received(m)
  <2> DEFINE T == 1 .. m
  <2>1. s.item \in T /\ c.receiveQueue \in SUBSET (SeqNo \X T)
    BY <1>1 DEF Received
  <2> HIDE DEF T
  <2>2. q \in SUBSET (SeqNo \X T)
    BY <1>1, <2>1
  <2> QED BY <2>2 DEF T, Received
<1>4. \A r \in q : Minus(r[1], a) \in 0 .. RcvWnd - 1
  BY DEF Waiting
<1>5. \A r \in q : r[1] \in SeqNo /\ r[2] \in 1 .. m
  BY <1>3, Pairs
<1> HIDE DEF a, q
<1>6. \E i \in 0 .. Cardinality(q) :
          /\ i <= RcvWnd
          /\ \A j \in 0 .. i - 1 : has(Plus(a, j))
          /\ ~has(Plus(a, i))
  BY <1>1, <1>3, <1>4, NextGap
<1>7. PICK e \in 0 .. Cardinality(q) :
          /\ e <= RcvWnd
          /\ \A j \in 0 .. e - 1 : has(Plus(a, j))
          /\ ~has(Plus(a, e))
  BY <1>6
<1>8. /\ k \in 0 .. Cardinality(q)
      /\ \A j \in 0 .. k - 1 : has(Plus(a, j))
      /\ ~has(Plus(a, k))
  <2> HIDE DEF has
  <2> QED BY <1>7
<1>9. k \in Nat /\ k <= RcvWnd /\ k \in SeqNo
  <2> HIDE DEF has, k
  <2>1. k \in Nat /\ e \in Nat
    BY <1>7, <1>8
  <2>2. ~(k > e)
    <3> SUFFICES ASSUME k > e PROVE FALSE
      OBVIOUS
    <3>1. e \in 0 .. k - 1
      BY <2>1
    <3> QED BY <1>7, <1>8, <3>1
  <2>3. k <= RcvWnd
    BY <1>7, <2>1, <2>2, ConnectionAssumption
  <2> QED BY <2>1, <2>3, WindowIsSmall
<1> HIDE DEF k
<1>10. b \in SeqNo
  BY <1>1, <1>9, PlusType
<1>11. p \in Received(m)
  <2> DEFINE T == SeqNo \X (1 .. m)
  <2>1. q \in SUBSET T
    BY <1>3 DEF Received
  <2> HIDE DEF T
  <2>2. p \in SUBSET T
    BY <2>1
  <2> QED BY <2>2 DEF T, Received
<1>12. t \in Seq(1 .. m)
  <2> DEFINE T == 1 .. m
  <2>1. \A r \in q : r[2] \in T
    BY <1>5
  <2> HIDE DEF T
  <2>2. ASSUME NEW j \in 1 .. k PROVE item(j) \in T
    <3>1. j - 1 \in 0 .. k - 1
      BY <1>9
    <3>2. has(Plus(a, j - 1))
      BY <1>8, <3>1
    <3>3. (CHOOSE r \in q : r[1] = Plus(a, j - 1)) \in q
      BY <3>2
    <3> QED BY <2>1, <3>3
  <2> HIDE DEF item
  <2>3. [j \in 1 .. k |-> item(j)] \in Seq(T)
    BY <1>9, <2>2
  <2>4. c.toApp \in Seq(T)
    BY <1>1 DEF T
  <2>5. t \in Seq(T)
    BY <2>3, <2>4, ConcatProperties
  <2> QED BY <2>5 DEF T
<1>13. d \in Connection(n, m)
  <2> HIDE DEF b, p, t
  <2> QED BY <1>10, <1>11, <1>12 DEF Connection
<1>14. KeepsState(c, d) /\ d.rcv_nxt = b /\ d.receiveQueue = p
  <2> HIDE DEF b, p, t
  <2> QED BY DEF Connection, KeepsState
<1>15. \A r \in p : Minus(r[1], b) \in 1 .. RcvWnd - 1
  <2> SUFFICES ASSUME NEW r \in p PROVE Minus(r[1], b) \in 1 .. RcvWnd - 1
    OBVIOUS
  <2> DEFINE o == Minus(r[1], a)
  <2>1. r \in q /\ r[1] \in SeqNo /\ o \in 0 .. RcvWnd - 1
    BY <1>4, <1>5
  <2>2. o \in SeqNo /\ r[1] = Plus(a, o)
    BY <1>1, <2>1, MinusType, PlusMinus
  <2> HIDE DEF o
  <2>3. o \notin 0 .. k - 1
    BY <2>2
  <2>4. o # k
    BY <1>8, <2>1, <2>2
  <2>5. o > k
    BY <1>9, <2>1, <2>3, <2>4
  <2>6. Minus(Plus(a, o), b) = o - k
    BY <1>1, <1>9, <2>1, <2>2, <2>5, MinusShift
  <2>7. o - k \in 1 .. RcvWnd - 1
    BY <1>9, <2>1, <2>5, ConnectionAssumption
  <2> QED BY <2>2, <2>6, <2>7
<1> HIDE DEF d
<1> QED
  BY <1>2, <1>13, <1>14, <1>15 DEF Receiver, Waiting

-----------------------------------------------------------------------------
(* The state machine *)

\* Sets of states: setup, text before and after our FIN, the application knows.
Setting == {"SYN_SENT", "SYN_RCVD"}
Opening == {"SYN_RCVD", "ESTABLISHED"}
Finishing == {"FIN_WAIT_1", "FIN_WAIT_2"}
Informed == {"ESTABLISHED", "CLOSE_WAIT"}

\* A timer of connection setup runs.
Setup(c) == c.connEstabTimer \/ c.synRexmitTimer

\* x is among the indications i.
Says(i, x) == \E k \in 1 .. Len(i) : i[k] = x

\* No PEER_CLOSED before ESTABLISHED.
ClosedAfterOpen(i) ==
    \A k \in 1 .. Len(i) : i[k] = "PEER_CLOSED" => \E j \in 1 .. k - 1 : i[j] = "ESTABLISHED"

\* The receive queue suits the state st: behind a gap while text is delivered as
\* it comes, and within the window after our own FIN.
Window(c, st) ==
    /\ st \in Opening => Waiting(1, c)
    /\ st \in Finishing => Waiting(0, c)

\* The invariant of one end.
Good(c, n, m) ==
    /\ c \in Connection(n, m)
    /\ c.rexmit_count <= MAX_REXMIT_COUNT
    /\ Setup(c) => c.state \in Setting
    /\ c.rexmitTimer => c.state \notin {"INIT", "CLOSED"}
    /\ ~c.failed => Window(c, c.state)
    /\ ClosedAfterOpen(c.ind)
    /\ c.state \in Informed => Says(c.ind, "ESTABLISHED")

\* What the transition table allows: how each state can be entered, and which
\* states a FIN and a CLOSE lead away from.
LEMMA NextStateFacts ==
    ASSUME NEW c, c.state \in State, NEW event
    PROVE  LET st == NextState(c, event)
           IN  /\ st \in State
               /\ st = "INIT" => c.state = "INIT"
               /\ st = "TIME_WAIT" => c.state \in Finishing \cup {"CLOSING", "TIME_WAIT"}
               /\ st = "SYN_RCVD" => c.state = "SYN_RCVD" \/ event = "RCV_SYN"
               /\ st = "ESTABLISHED" => c.state \in Opening \/ event = "RCV_SYN_ACK"
               /\ st = "ESTABLISHED" =>
                     c.state = "ESTABLISHED" \/ event \in {"RCV_SYN_ACK", "RCV_ACK"}
               /\ st \in Finishing => c.state \in Opening \cup Finishing
               /\ st = "CLOSE_WAIT" =>
                     \/ c.state = "CLOSE_WAIT"
                     \/ c.state \in Opening /\ event = "RCV_FIN"
               /\ event = "RCV_FIN" => st \notin Opening \cup Finishing
               /\ event = "RCV_FIN_ACK" /\ c.state = "FIN_WAIT_1" => st = "TIME_WAIT"
               /\ event = "CLOSE" => st \notin Opening
<1> DEFINE x == c.state
           st == NextState(c, event)
<1>1. \/ st = x /\ event \notin {"RCV_FIN", "RCV_FIN_ACK", "CLOSE"}
      \/ st = x /\ event = "RCV_FIN"
         /\ x \notin {"SYN_RCVD", "ESTABLISHED", "FIN_WAIT_1", "FIN_WAIT_2"}
      \/ st = x /\ event = "RCV_FIN_ACK" /\ x # "FIN_WAIT_1"
      \/ st = x /\ event = "CLOSE" /\ x \notin {"SYN_RCVD", "ESTABLISHED"}
      \/ st \in {"LISTEN", "SYN_SENT", "CLOSED"} /\ event \notin {"RCV_FIN", "RCV_FIN_ACK"}
      \/ st = "SYN_RCVD" /\ event = "RCV_SYN"
      \/ st = "ESTABLISHED" /\ event = "RCV_SYN_ACK"
      \/ st = "ESTABLISHED" /\ x = "SYN_RCVD" /\ event = "RCV_ACK"
      \/ st = "FIN_WAIT_1" /\ x \in {"SYN_RCVD", "ESTABLISHED"} /\ event = "CLOSE"
      \/ st = "FIN_WAIT_2" /\ x = "FIN_WAIT_1" /\ event = "RCV_ACK"
      \/ st = "LAST_ACK" /\ event = "CLOSE"
      \/ st = "CLOSE_WAIT" /\ x \in {"SYN_RCVD", "ESTABLISHED"} /\ event = "RCV_FIN"
      \/ st = "CLOSING" /\ event = "RCV_FIN"
      \/ st = "TIME_WAIT" /\ x \in {"CLOSING", "FIN_WAIT_1", "FIN_WAIT_2"}
         /\ event \in {"RCV_ACK", "RCV_FIN", "RCV_FIN_ACK"}
  <2>1. CASE event = "RCV_FIN"
    BY <2>1 DEF NextState, Synchronized
  <2>6. CASE event = "RCV_FIN_ACK"
    BY <2>6, ZenonT(60) DEF NextState, Synchronized
  <2>7. CASE event = "CLOSE"
    BY <2>7, ZenonT(60) DEF NextState, Synchronized
  <2>2. CASE event \in {"RCV_ACK", "RCV_SYN", "RCV_SYN_ACK"}
    BY <2>2 DEF NextState, Synchronized
  <2>3. CASE event = "RCV_RST"
    BY <2>3 DEF NextState, Synchronized
  <2>8. CASE event = "RCV_UNEXP_SYN"
    BY <2>8 DEF NextState, Synchronized
  <2>9. CASE event = "TIMEOUT_CONN_ESTAB"
    BY <2>9, ZenonT(60) DEF NextState, Synchronized
  <2>10. CASE event = "TIMEOUT_2MSL"
    BY <2>10, ZenonT(60) DEF NextState, Synchronized
  <2>4. CASE event \in {"OPEN_PASSIVE", "OPEN_ACTIVE", "SEND", "ABORT"}
    BY <2>4 DEF NextState, Synchronized
  <2>5. CASE event \notin {"RCV_FIN", "RCV_FIN_ACK", "CLOSE", "RCV_ACK", "RCV_SYN",
                           "RCV_SYN_ACK", "RCV_RST", "RCV_UNEXP_SYN", "TIMEOUT_CONN_ESTAB",
                           "TIMEOUT_2MSL", "OPEN_PASSIVE", "OPEN_ACTIVE", "SEND", "ABORT"}
    BY <2>5, ZenonT(60) DEF NextState, Synchronized
  <2> QED BY <2>1, <2>2, <2>3, <2>4, <2>5, <2>6, <2>7, <2>8, <2>9, <2>10
<1> HIDE DEF x, st
<1>2. x \in State
  BY DEF x
<1> QED
  BY <1>1, <1>2 DEF x, st, State, Finishing, Opening

\* An indication changes nothing but the list of indications.
LEMMA IndicationStep ==
    ASSUME NEW n, NEW m, NEW c \in Connection(n, m), NEW i \in Indication
    PROVE  LET d == sendIndicationToApp(c, i)
           IN  /\ d \in Connection(n, m)
               /\ d.ind = Append(c.ind, i)
               /\ d.state = c.state /\ d.failed = c.failed /\ d.active = c.active
               /\ d.rcv_nxt = c.rcv_nxt /\ d.receiveQueue = c.receiveQueue
               /\ d.rexmit_count = c.rexmit_count /\ d.rexmitTimer = c.rexmitTimer
               /\ d.connEstabTimer = c.connEstabTimer /\ d.synRexmitTimer = c.synRexmitTimer
               /\ d.toApp = c.toApp
<1> DEFINE j == Append(c.ind, i)
           d == [c EXCEPT !.ind = j]
<1>1. j \in Seq(Indication)
  BY ConnectionTypes, AppendProperties
<1>2. sendIndicationToApp(c, i) = d
  BY DEF sendIndicationToApp
<1>3. d \in Connection(n, m)
  <2> HIDE DEF j
  <2> QED BY <1>1 DEF Connection
<1>4. /\ d.ind = j
      /\ d.state = c.state /\ d.failed = c.failed /\ d.active = c.active
      /\ d.rcv_nxt = c.rcv_nxt /\ d.receiveQueue = c.receiveQueue
      /\ d.rexmit_count = c.rexmit_count /\ d.rexmitTimer = c.rexmitTimer
      /\ d.connEstabTimer = c.connEstabTimer /\ d.synRexmitTimer = c.synRexmitTimer
      /\ d.toApp = c.toApp
  <2> HIDE DEF j
  <2> QED BY DEF Connection
<1> QED
  BY <1>2, <1>3, <1>4

\* cancelSetupTimers changes nothing but the timers.
LEMMA CancelStep ==
    ASSUME NEW n, NEW m, NEW c \in Connection(n, m)
    PROVE  LET d == cancelSetupTimers(c)
           IN  /\ d \in Connection(n, m)
               /\ ~Setup(d)
               /\ d.state = c.state /\ d.failed = c.failed /\ d.ind = c.ind
               /\ d.rcv_nxt = c.rcv_nxt /\ d.receiveQueue = c.receiveQueue
               /\ d.rexmit_count = c.rexmit_count /\ d.rexmitTimer = c.rexmitTimer
               /\ d.toApp = c.toApp
BY DEF cancelSetupTimers, Connection, Setup

\* What performStateTransition does.
LEMMA Transition ==
    ASSUME NEW n, NEW m, NEW c \in Connection(n, m), NEW event
    PROVE  LET d == performStateTransition(c, event)
               st == NextState(c, event)
           IN  /\ d \in Connection(n, m)
               /\ d.state = IF c.failed THEN c.state ELSE st
               /\ d.failed = c.failed /\ d.toApp = c.toApp
               /\ d.rcv_nxt = c.rcv_nxt /\ d.receiveQueue = c.receiveQueue
               /\ d.rexmit_count = c.rexmit_count
               /\ Setup(d) => /\ Setup(c)
                               /\ \/ d.state \in Setting \cup {"INIT", "TIME_WAIT"}
                                  \/ d.state = c.state
               /\ d.rexmitTimer => c.rexmitTimer /\ (d.state # "CLOSED" \/ d.state = c.state)
               /\ \/ d.ind \in {c.ind, Append(c.ind, "CLOSED")}
                  \/ d.ind = Append(c.ind, "PEER_CLOSED") /\ d.state = "CLOSE_WAIT"
<1> DEFINE st == NextState(c, event)
           d == performStateTransition(c, event)
           e == [c EXCEPT !.state = st]
<1>0. c.state \in State /\ st \in State /\ c.failed \in BOOLEAN
  BY ConnectionTypes, NextStateFacts
<1> HIDE DEF st
<1>1. CASE c.failed \/ st = c.state
  <2>1. d = c
    BY <1>1 DEF performStateTransition, enterState, st
  <2> QED BY <1>0, <1>1, <2>1 DEF st
<1>2. CASE ~(c.failed \/ st = c.state)
  <2>1. d = stateEntered(e, c.state, event)
    BY <1>2 DEF performStateTransition, enterState, st
  <2>2. /\ e \in Connection(n, m)
        /\ e.state = st /\ e.failed = c.failed /\ e.ind = c.ind
        /\ e.rcv_nxt = c.rcv_nxt /\ e.receiveQueue = c.receiveQueue
        /\ e.rexmit_count = c.rexmit_count /\ e.rexmitTimer = c.rexmitTimer
        /\ e.connEstabTimer = c.connEstabTimer /\ e.synRexmitTimer = c.synRexmitTimer
        /\ e.toApp = c.toApp
    BY <1>0 DEF Connection
  <2> HIDE DEF e, d
  <2> DEFINE f == cancelSetupTimers(e)
             g == [f EXCEPT !.the2MSLTimer = 0, !.rexmitTimer = FALSE]
  <2>3. /\ f \in Connection(n, m)
        /\ ~Setup(f)
        /\ f.state = st /\ f.failed = c.failed /\ f.ind = c.ind
        /\ f.rcv_nxt = c.rcv_nxt /\ f.receiveQueue = c.receiveQueue
        /\ f.rexmit_count = c.rexmit_count /\ f.rexmitTimer = c.rexmitTimer
        /\ f.toApp = c.toApp
    BY <2>2, CancelStep
  <2> HIDE DEF f
  <2>4. {"CLOSED", "PEER_CLOSED"} \subseteq Indication
    BY DEF Indication
  <2>5. CASE st \in {"LISTEN", "ESTABLISHED", "LAST_ACK", "FIN_WAIT_1", "FIN_WAIT_2", "CLOSING"}
    <3>1. d = f
      BY <2>1, <2>2, <2>5 DEF stateEntered, f
    <3> QED BY <1>2, <2>3, <2>5, <3>1 DEF d, st
  <2>6. CASE st = "CLOSE_WAIT"
    <3> DEFINE h == sendIndicationToApp(e, "PEER_CLOSED")
    <3>1. d = cancelSetupTimers(h)
      BY <2>1, <2>2, <2>6 DEF stateEntered
    <3>2. /\ h \in Connection(n, m)
          /\ h.ind = Append(c.ind, "PEER_CLOSED")
          /\ h.state = st /\ h.failed = c.failed
          /\ h.rcv_nxt = c.rcv_nxt /\ h.receiveQueue = c.receiveQueue
          /\ h.rexmit_count = c.rexmit_count /\ h.rexmitTimer = c.rexmitTimer
          /\ h.toApp = c.toApp
      BY <2>2, <2>4, IndicationStep
    <3> HIDE DEF h
    <3> QED BY <1>2, <2>6, <3>1, <3>2, CancelStep DEF d, st
  <2>7. CASE st = "TIME_WAIT"
    <3>1. d = sendIndicationToApp(e, "CLOSED")
      BY <2>1, <2>2, <2>7 DEF stateEntered
    <3>2. /\ d \in Connection(n, m)
          /\ d.ind = Append(c.ind, "CLOSED")
          /\ d.state = st /\ d.failed = c.failed
          /\ d.rcv_nxt = c.rcv_nxt /\ d.receiveQueue = c.receiveQueue
          /\ d.rexmit_count = c.rexmit_count /\ d.rexmitTimer = c.rexmitTimer
          /\ d.connEstabTimer = c.connEstabTimer /\ d.synRexmitTimer = c.synRexmitTimer
          /\ d.toApp = c.toApp
      BY <2>2, <2>4, <3>1, IndicationStep
    <3> QED BY <1>2, <2>7, <3>2 DEF d, st, Setup
  <2>8. CASE st = "CLOSED"
    <3>1. d \in {g, sendIndicationToApp(g, "CLOSED")}
      BY <2>1, <2>2, <2>8 DEF stateEntered, f
    <3>2. 0 \in Ticks
      BY ConnectionAssumption DEF Ticks
    <3>3. /\ g \in Connection(n, m)
          /\ ~Setup(g)
          /\ g.state = st /\ g.failed = c.failed /\ g.ind = c.ind
          /\ g.rcv_nxt = c.rcv_nxt /\ g.receiveQueue = c.receiveQueue
          /\ g.rexmit_count = c.rexmit_count /\ ~g.rexmitTimer
          /\ g.toApp = c.toApp
      BY <2>3, <3>2 DEF Connection, Setup
    <3> HIDE DEF g
    <3> DEFINE h == sendIndicationToApp(g, "CLOSED")
    <3>4. /\ h \in Connection(n, m)
          /\ ~Setup(h)
          /\ h.ind = Append(c.ind, "CLOSED")
          /\ h.state = st /\ h.failed = c.failed
          /\ h.rcv_nxt = c.rcv_nxt /\ h.receiveQueue = c.receiveQueue
          /\ h.rexmit_count = c.rexmit_count /\ ~h.rexmitTimer
          /\ h.toApp = c.toApp
      BY <2>4, <3>3, IndicationStep DEF Setup
    <3> HIDE DEF h
    <3>5. CASE d = g
      BY <1>2, <3>3, <3>5 DEF d, st
    <3>6. CASE d = h
      BY <1>2, <3>4, <3>6 DEF d, st
    <3> QED BY <3>1, <3>5, <3>6 DEF h
  <2>9. CASE st \in {"INIT", "SYN_SENT", "SYN_RCVD"}
    <3>1. d = e
      BY <2>1, <2>2, <2>9 DEF stateEntered
    <3> QED BY <1>2, <2>2, <2>9, <3>1 DEF d, st, Setup, Setting
  <2> QED
    BY <1>0, <2>5, <2>6, <2>7, <2>8, <2>9 DEF State
<1> QED
  BY <1>1, <1>2

\* An indication at the end of the list.
LEMMA Saying ==
    ASSUME NEW i \in Seq(Indication), NEW x \in Indication
    PROVE  /\ Append(i, x) \in Seq(Indication)
           /\ \A y : Says(i, y) => Says(Append(i, x), y)
           /\ Says(Append(i, x), x)
           /\ ClosedAfterOpen(i) /\ (x = "PEER_CLOSED" => Says(i, "ESTABLISHED")) =>
                 ClosedAfterOpen(Append(i, x))
<1> DEFINE j == Append(i, x)
<1>1. /\ Len(j) = Len(i) + 1 /\ Len(i) \in Nat
      /\ j[Len(i) + 1] = x
      /\ \A k \in 1 .. Len(i) : j[k] = i[k]
      /\ j \in Seq(Indication)
  BY AppendProperties
<1> HIDE DEF j
<1>2. \A y : Says(i, y) => Says(j, y)
  BY <1>1 DEF Says
<1>3. Says(j, x)
  BY <1>1 DEF Says
<1>4. ASSUME ClosedAfterOpen(i), x = "PEER_CLOSED" => Says(i, "ESTABLISHED")
      PROVE  ClosedAfterOpen(j)
  <2> SUFFICES ASSUME NEW k \in 1 .. Len(j), j[k] = "PEER_CLOSED"
               PROVE  \E l \in 1 .. k - 1 : j[l] = "ESTABLISHED"
    BY DEF ClosedAfterOpen
  <2>1. CASE k \in 1 .. Len(i)
    <3>1. PICK l \in 1 .. k - 1 : i[l] = "ESTABLISHED"
      BY <1>1, <1>4, <2>1 DEF ClosedAfterOpen
    <3> QED BY <1>1, <2>1, <3>1
  <2>2. CASE k = Len(i) + 1
    <3>1. PICK l \in 1 .. Len(i) : i[l] = "ESTABLISHED"
      BY <1>1, <1>4, <2>2 DEF Says
    <3> QED BY <1>1, <2>2, <3>1
  <2> QED BY <1>1, <2>1, <2>2
<1> QED
  BY <1>1, <1>2, <1>3, <1>4 DEF j

\* Half of Good: what the handlers keep at every point, before and after the transition.
Sound(c, n, m) ==
    /\ c \in Connection(n, m)
    /\ c.rexmit_count <= MAX_REXMIT_COUNT
    /\ Setup(c) => c.state \in Setting
    /\ c.rexmitTimer => c.state \notin {"INIT", "CLOSED"}
    /\ ClosedAfterOpen(c.ind)

\* The rest of Good: the receive window, and that the application was told.
LEMMA GoodIsSound ==
    ASSUME NEW n, NEW m, NEW c
    PROVE  Good(c, n, m) <=>
             /\ Sound(c, n, m)
             /\ ~c.failed => Window(c, c.state)
             /\ c.state \in Informed => Says(c.ind, "ESTABLISHED")
BY DEF Good, Sound

\* The transition at the end of a handler.
LEMMA GoodTransition ==
    ASSUME NEW n, NEW m, NEW c \in Connection(n, m), NEW event,
           c.rexmit_count <= MAX_REXMIT_COUNT,
           Setup(c) => \/ c.state \in Setting
                       \/ ~c.failed /\ NextState(c, event) \in Setting,
           c.rexmitTimer => c.state \notin {"INIT", "CLOSED"},
           ~c.failed => Window(c, NextState(c, event)),
           ClosedAfterOpen(c.ind),
           (IF c.failed THEN c.state ELSE NextState(c, event)) \in Informed =>
               Says(c.ind, "ESTABLISHED")
    PROVE  Good(performStateTransition(c, event), n, m)
<1> DEFINE d == performStateTransition(c, event)
           st == NextState(c, event)
<1>0. c.state \in State /\ c.failed \in BOOLEAN /\ c.ind \in Seq(Indication)
  BY ConnectionTypes
<1>1. /\ d \in Connection(n, m)
      /\ d.state = IF c.failed THEN c.state ELSE st
      /\ d.failed = c.failed
      /\ d.rcv_nxt = c.rcv_nxt /\ d.receiveQueue = c.receiveQueue
      /\ d.rexmit_count = c.rexmit_count
      /\ Setup(d) => /\ Setup(c)
                      /\ \/ d.state \in Setting \cup {"INIT", "TIME_WAIT"}
                         \/ d.state = c.state
      /\ d.rexmitTimer => c.rexmitTimer /\ (d.state # "CLOSED" \/ d.state = c.state)
      /\ \/ d.ind \in {c.ind, Append(c.ind, "CLOSED")}
         \/ d.ind = Append(c.ind, "PEER_CLOSED") /\ d.state = "CLOSE_WAIT"
  BY Transition
<1>2. /\ st = "INIT" => c.state = "INIT"
      /\ st = "TIME_WAIT" => c.state \in Finishing \cup {"CLOSING", "TIME_WAIT"}
  BY <1>0, NextStateFacts
<1>3. ~c.failed => Window(c, st)
  OBVIOUS
<1>4. (IF c.failed THEN c.state ELSE st) \in Informed => Says(c.ind, "ESTABLISHED")
  OBVIOUS
<1>5. Setup(c) => c.state \in Setting \/ (~c.failed /\ st \in Setting)
  OBVIOUS
<1> HIDE DEF d, st
<1>6. Setup(d) => d.state \in Setting
  BY <1>1, <1>2, <1>5 DEF Setting, Finishing
<1>7. d.rexmitTimer => d.state \notin {"INIT", "CLOSED"}
  BY <1>1, <1>2
<1>8. ~d.failed => Window(d, d.state)
  BY <1>1, <1>3 DEF Window, Waiting
<1>9. /\ ClosedAfterOpen(d.ind)
      /\ d.state \in Informed => Says(d.ind, "ESTABLISHED")
  <2>1. {"CLOSED", "PEER_CLOSED"} \subseteq Indication
    BY DEF Indication
  <2>2. d.state \in Informed => Says(c.ind, "ESTABLISHED")
    BY <1>1, <1>4
  <2>3. d.state = "CLOSE_WAIT" => d.state \in Informed
    BY DEF Informed
  <2>4. CASE d.ind = c.ind
    BY <2>2, <2>4
  <2>5. CASE d.ind = Append(c.ind, "CLOSED")
    BY <1>0, <2>1, <2>2, <2>5, Saying
  <2>6. CASE d.ind = Append(c.ind, "PEER_CLOSED") /\ d.state = "CLOSE_WAIT"
    BY <1>0, <2>1, <2>2, <2>3, <2>6, Saying
  <2> QED BY <1>1, <2>4, <2>5, <2>6
<1>10. d.rexmit_count <= MAX_REXMIT_COUNT
  BY <1>1
<1>11. Good(d, n, m)
  BY <1>1, <1>10, <1>6, <1>7, <1>8, <1>9 DEF Good
<1> QED
  BY <1>11 DEF d

-----------------------------------------------------------------------------
(* Arriving segments *)

\* Sending and taking text keep what the handlers keep at every point.
LEMMA StillSound ==
    ASSUME NEW n, NEW m, NEW c, Sound(c, n, m), c.state \notin {"INIT", "CLOSED"},
           NEW d \in Receiver(c, n, m)
    PROVE  Sound(d, n, m) /\ d.state = c.state /\ d.ind = c.ind
<1>1. /\ d \in Connection(n, m)
      /\ d.state = c.state /\ d.ind = c.ind
      /\ d.connEstabTimer = c.connEstabTimer /\ d.synRexmitTimer = c.synRexmitTimer
      /\ d.rexmit_count \in {0, c.rexmit_count}
  BY DEF Receiver, KeepsState
<1>2. d.rexmit_count <= MAX_REXMIT_COUNT
  BY <1>1, ConnectionAssumption DEF Sound
<1> QED
  BY <1>1, <1>2 DEF Sound, Setup

\* What only sends leaves a good connection good.
LEMMA StillGood ==
    ASSUME NEW n, NEW m, NEW c, Good(c, n, m), ~c.failed, c.state \notin {"INIT", "CLOSED"},
           NEW d \in Sender(c, n, m)
    PROVE  Good(d, n, m)
<1>1. d \in Receiver(c, n, m) /\ d.rcv_nxt = c.rcv_nxt /\ d.receiveQueue = c.receiveQueue
  BY SenderIsReceiver DEF Sender, Keeps
<1>2. Sound(d, n, m) /\ d.state = c.state /\ d.ind = c.ind
  BY <1>1, GoodIsSound, StillSound
<1>3. Window(d, d.state)
  BY <1>1, <1>2 DEF Good, Window, Waiting
<1> QED
  BY <1>2, <1>3, GoodIsSound DEF Good

\* So does a single segment, in any state.
LEMMA GoodEmit ==
    ASSUME NEW n, NEW m, NEW c, Good(c, n, m), NEW s \in Segment(0 .. n)
    PROVE  Good(Emit(c, s), n, m)
<1> DEFINE o == c.out \cup {s}
           d == [c EXCEPT !.out = o]
<1>1. c \in Connection(n, m) /\ Emit(c, s) = d
  BY DEF Good, Emit
<1>2. d \in Connection(n, m)
  <2>1. Emit(c, s) \in Sender(c, n, m)
    BY <1>1, EmitStep
  <2> QED BY <1>1, <2>1 DEF Sender
<1>3. /\ d.state = c.state /\ d.failed = c.failed /\ d.ind = c.ind
      /\ d.connEstabTimer = c.connEstabTimer /\ d.synRexmitTimer = c.synRexmitTimer
      /\ d.rexmit_count = c.rexmit_count /\ d.rexmitTimer = c.rexmitTimer
      /\ d.rcv_nxt = c.rcv_nxt /\ d.receiveQueue = c.receiveQueue
  <2> HIDE DEF o
  <2> QED BY <1>1 DEF Connection
<1> HIDE DEF d
<1>4. Good(d, n, m)
  BY <1>2, <1>3 DEF Good, Setup, Window, Waiting
<1> QED
  BY <1>1, <1>4

\* The window test for a segment with one item, as arithmetic.
LEMMA InWindow ==
    ASSUME NEW r \in SeqNo, NEW q \in SeqNo, NEW w \in 1 .. Half - 1,
           \/ seqLE(r, q) /\ seqLess(q, Plus(r, w))
           \/ seqLess(r, Plus(q, 1)) /\ seqLE(Plus(q, 1), Plus(r, w))
    PROVE  Minus(q, r) \in 0 .. w - 1
<1>1. CASE seqLE(r, q) /\ seqLess(q, Plus(r, w))
  BY <1>1, HalfFacts DEF SeqNo, Plus, Minus, seqLE, seqLess
<1>2. CASE seqLess(r, Plus(q, 1)) /\ seqLE(Plus(q, 1), Plus(r, w))
  BY <1>2, HalfFacts DEF SeqNo, Plus, Minus, seqLE, seqLess
<1> QED
  BY <1>1, <1>2

\* The text of an acceptable segment begins inside the receive window.
LEMMA TextInWindow ==
    ASSUME NEW n, NEW m, NEW c \in Connection(n, m), NEW s \in Segment(0 .. m),
           s.item # 0, isSegmentAcceptable(c, s)
    PROVE  Minus(s.seqNo, c.rcv_nxt) \in 0 .. RcvWnd - 1
<1> DEFINE r == c.rcv_nxt
           q == s.seqNo
<1>1. r \in SeqNo /\ q \in SeqNo /\ RcvWnd \in 1 .. Half - 1
  BY ConnectionTypes, ConnectionAssumption DEF Segment
<1>2. \/ seqLE(r, q) /\ seqLess(q, Plus(r, RcvWnd))
      \/ seqLess(r, Plus(q, 1)) /\ seqLE(Plus(q, 1), Plus(r, RcvWnd))
  BY DEF isSegmentAcceptable, PayloadLength
<1> HIDE DEF r, q
<1>3. Minus(q, r) \in 0 .. RcvWnd - 1
  BY <1>1, <1>2, InWindow
<1> QED
  BY <1>3 DEF r, q

\* Step five.
LEMMA AckTimers ==
    ASSUME NEW n \in Number, NEW m, NEW c \in Connection(n, m), NEW win \in Windows,
           NEW s \in Segment(0 .. m)
    PROVE  processAck(c, s, win) \in Sender(c, n, m)
<1> DEFINE d == processAckInEstabEtc(c, s, win)
           a == sendAck(c)
           a1 == [a EXCEPT !.the2MSLTimer = MSL2]
           d1 == [d EXCEPT !.the2MSLTimer = MSL2]
           d2 == [d EXCEPT !.failed = TRUE]
<1>0. MSL2 \in Ticks
  BY ConnectionAssumption DEF Ticks
<1>1. d \in Sender(c, n, m) /\ a \in Sender(c, n, m)
  BY AckStep, SendControl DEF Number
<1>2. d \in Connection(n, m) /\ a \in Connection(n, m)
  BY <1>1 DEF Sender
<1>3. processAck(c, s, win) \in {a1, d, d1, d2}
  BY DEF processAck, timeWaitAfterClosing, start2MSLTimer
<1> HIDE DEF d, a
<1>4. a1 \in Sender(a, n, m) /\ d1 \in Sender(d, n, m) /\ d2 \in Sender(d, n, m)
  BY <1>0, <1>2 DEF Sender, Connection, Keeps, KeepsState
<1> HIDE DEF a1, d1, d2
<1> QED
  BY <1>1, <1>3, <1>4, Transitive

\* Step seven leaves the receive window in order, in every state that takes text.
LEMMA TextStep ==
    ASSUME NEW n \in Number, NEW m \in Number, NEW c \in Connection(n, m), NEW win \in Windows,
           NEW s \in Segment(0 .. m), NEW c0,
           Window(c, c.state),
           s.item # 0 => Minus(s.seqNo, c.rcv_nxt) \in 0 .. RcvWnd - 1
    PROVE  LET d == processText(c, s, win, c0)
           IN  d \in Receiver(c, n, m) /\ Window(d, c.state)
<1> DEFINE c1 == insertBytesFromSegment(c, s)
           r1 == receivedDataAck(c1, win)
           c2 == IF seqGreater(c.snd_una, c0.snd_una) THEN r1 ELSE c1
           a2 == sendAck(c2)
           d == processText(c, s, win, c0)
<1>1. CASE ~(c.state \in Opening \cup Finishing /\ s.item # 0)
  <2>1. d = c
    BY <1>1 DEF processText, Opening, Finishing, PayloadLength
  <2> QED BY <2>1, Reflexive, SenderIsReceiver
<1>2. CASE c.state \in Opening \cup Finishing /\ s.item # 0
  <2>1. Waiting(0, c)
    BY <1>2, ConnectionAssumption DEF Window, Waiting
  <2>2. c1 \in Receiver(c, n, m) /\ Waiting(1, c1)
    BY <1>2, <2>1, Insert DEF Number
  <2>3. c1 \in Connection(n, m)
    BY <2>2 DEF Receiver
  <2>4. d \in {c2, a2}
    <3>1. /\ c.state \in {"SYN_RCVD", "ESTABLISHED", "FIN_WAIT_1", "FIN_WAIT_2"}
          /\ PayloadLength(s) > 0
      BY <1>2 DEF Opening, Finishing, PayloadLength
    <3>2. d = IF c1.rcv_nxt = c.rcv_nxt THEN a2 ELSE c2
      BY <3>1 DEF processText
    <3> QED BY <3>2
  <2> HIDE DEF c1, d
  <2>5. r1 \in Sender(c1, n, m) /\ c1 \in Sender(c1, n, m)
    BY <2>3, NewAck, Reflexive
  <2>6. c2 \in Sender(c1, n, m) /\ c2 \in Connection(n, m)
    <3> HIDE DEF r1
    <3> QED BY <2>5 DEF Sender
  <2> HIDE DEF c2
  <2>7. a2 \in Sender(c2, n, m)
    BY <2>6, SendControl DEF Number
  <2>8. d \in Sender(c1, n, m)
    BY <2>4, <2>6, <2>7, Transitive
  <2>9. d \in Receiver(c, n, m)
    BY <2>2, <2>8, SenderIsReceiver, ReceiverTransitive
  <2>10. Waiting(1, d)
    BY <2>2, <2>8 DEF Sender, Keeps, Waiting
  <2>11. Window(d, c.state)
    BY <2>10, ConnectionAssumption DEF Window, Waiting
  <2> QED BY <2>9, <2>11 DEF d
<1> QED
  BY <1>1, <1>2

\* Step eight: rcv_nxt moves over a FIN that is next in sequence, and nothing else moves.
LEMMA FinStep ==
    ASSUME NEW n, NEW m, NEW c \in Connection(n, m), NEW s \in Segment(0 .. m), NEW old
    PROVE  LET d == processFin(c, s, old)
               fin == FinInSequence(c, s, old)
           IN  /\ d \in Receiver(c, n, m)
               /\ ~fin => d \in Sender(c, n, m)
               /\ fin /\ Waiting(1, c) => Waiting(0, d)
<1> DEFINE fin == FinInSequence(c, s, old)
           b == Plus(c.rcv_nxt, 1)
           e == Plus(s.seqNo, PayloadLength(s))
           c1 == [c EXCEPT !.rcv_nxt = b]
           t1 == [c1 EXCEPT !.the2MSLTimer = MSL2]
           f1 == [c1 EXCEPT !.failed = TRUE]
           w1 == [c EXCEPT !.fin_rcvd = TRUE, !.rcv_fin_seq = e]
           d == processFin(c, s, old)
<1>0. /\ 1 \in SeqNo /\ c.rcv_nxt \in SeqNo /\ MSL2 \in Ticks /\ PayloadLength(s) \in SeqNo
      /\ s.seqNo \in SeqNo
  BY SeqConstants, ConnectionTypes, ConnectionAssumption DEF Ticks, PayloadLength, Segment
<1>1. b \in SeqNo /\ e \in SeqNo
  BY <1>0, PlusType
<1>2. CASE ~fin
  <2>1. d \in {w1, c}
    BY <1>2 DEF processFin
  <2> HIDE DEF e
  <2>2. w1 \in Sender(c, n, m)
    BY <1>1 DEF Sender, Connection, Keeps, KeepsState
  <2> HIDE DEF w1, d
  <2>3. d \in Sender(c, n, m)
    BY <2>1, <2>2, Reflexive
  <2> QED BY <1>2, <2>3, SenderIsReceiver DEF d
<1>3. CASE fin
  <2>1. d \in {t1, f1, c1}
    BY <1>3 DEF processFin, start2MSLTimer
  <2> HIDE DEF b
  <2>2. /\ c1 \in Connection(n, m) /\ c1.rcv_nxt = b /\ c1.receiveQueue = c.receiveQueue
        /\ c1 \in Receiver(c, n, m)
    BY <1>1 DEF Connection, Receiver, KeepsState
  <2> HIDE DEF c1
  <2>3. t1 \in Sender(c1, n, m) /\ f1 \in Sender(c1, n, m) /\ c1 \in Sender(c1, n, m)
    BY <1>0, <2>2 DEF Sender, Connection, Keeps, KeepsState
  <2> HIDE DEF t1, f1, d
  <2>4. d \in Sender(c1, n, m)
    BY <2>1, <2>3
  <2>5. d \in Receiver(c, n, m)
    BY <2>2, <2>4, SenderIsReceiver, ReceiverTransitive
  <2>6. d.rcv_nxt = b /\ d.receiveQueue = c.receiveQueue
    BY <2>2, <2>4 DEF Sender, Keeps
  <2>7. ASSUME Waiting(1, c) PROVE Waiting(0, d)
    <3> SUFFICES ASSUME NEW r \in c.receiveQueue PROVE Minus(r[1], b) \in 0 .. RcvWnd - 1
      BY <2>6 DEF Waiting
    <3> DEFINE o == Minus(r[1], c.rcv_nxt)
               q == r[1]
    <3>1. o \in 1 .. RcvWnd - 1
      BY <2>7 DEF Waiting
    <3>2. q \in SeqNo
      BY ConnectionTypes DEF Received
    <3> HIDE DEF q
    <3>3. o \in SeqNo /\ q = Plus(c.rcv_nxt, o)
      BY <1>0, <3>2, MinusType, PlusMinus DEF q
    <3> HIDE DEF o
    <3>4. Minus(Plus(c.rcv_nxt, o), b) = o - 1
      <4>1. 1 <= o
        BY <3>1, ConnectionAssumption, HalfFacts
      <4> QED BY <1>0, <3>3, <4>1, MinusShift DEF b
    <3>5. o - 1 \in 0 .. RcvWnd - 1
      BY <3>1, ConnectionAssumption, HalfFacts
    <3> QED BY <3>3, <3>4, <3>5 DEF q
  <2> QED BY <1>3, <2>5, <2>7 DEF d
<1> QED
  BY <1>2, <1>3

\* The ACK for what has moved rcv_nxt.
LEMMA AckTextStep ==
    ASSUME NEW n \in Number, NEW m, NEW c \in Connection(n, m), NEW fin, NEW c0
    PROVE  ackNewText(c, fin, c0) \in Sender(c, n, m)
BY SendControl, Reflexive DEF ackNewText, receiveSeqChanged, Number

\* The states in which processSegment1stThru8th runs.
Arriving == State \ {"INIT", "CLOSED", "LISTEN", "SYN_SENT"}

\* Steps seven and eight, and the event: c1 is the connection after step five.
LEMMA AfterAck ==
    ASSUME NEW n \in Number, NEW m \in Number, NEW c, NEW win \in Windows,
           NEW s \in Segment(0 .. m), NEW c1 \in Sender(c, n, m),
           Sound(c, n, m), c.state \in Arriving, Window(c, c.state),
           c.state \in Opening \cup Informed => Says(c.ind, "ESTABLISHED"),
           s.item # 0 => Minus(s.seqNo, c.rcv_nxt) \in 0 .. RcvWnd - 1
    PROVE  Good(processAfterText(processText(c1, s, win, c), s, c), n, m)
<1> DEFINE c2 == processText(c1, s, win, c)
           fin == FinInSequence(c2, s, c.rcv_nxt)
           c3 == processFin(c2, s, c.rcv_nxt)
           c4 == ackNewText(c3, fin, c)
           event == SegmentEvent(c4, fin, c)
           st == NextState(c4, event)
<1>0. processAfterText(c2, s, c) = performStateTransition(c4, event)
  BY DEF processAfterText, concludeSegment
<1>1. /\ c1 \in Connection(n, m) /\ c1.state = c.state
      /\ c1.rcv_nxt = c.rcv_nxt /\ c1.receiveQueue = c.receiveQueue
      /\ c1 \in Receiver(c, n, m)
  BY SenderIsReceiver DEF Sender, Keeps, KeepsState
<1>2. Window(c1, c1.state)
  BY <1>1 DEF Window, Waiting
<1>3. /\ c2 \in Receiver(c1, n, m) /\ c2 \in Connection(n, m)
      /\ Window(c2, c.state)
  <2> HIDE DEF c2
  <2>1. c2 \in Receiver(c1, n, m) /\ Window(c2, c1.state)
    BY <1>1, <1>2, TextStep DEF c2
  <2> QED BY <1>1, <2>1 DEF Receiver
<1> HIDE DEF c2
<1>4. /\ c3 \in Receiver(c2, n, m) /\ c3 \in Connection(n, m)
      /\ ~fin => c3 \in Sender(c2, n, m)
      /\ fin /\ Waiting(1, c2) => Waiting(0, c3)
  <2> HIDE DEF c3, fin
  <2>1. /\ c3 \in Receiver(c2, n, m)
        /\ ~fin => c3 \in Sender(c2, n, m)
        /\ fin /\ Waiting(1, c2) => Waiting(0, c3)
    BY <1>3, FinStep DEF c3, fin
  <2> QED BY <2>1 DEF Receiver
<1> HIDE DEF c3, fin
<1>5. c4 \in Sender(c3, n, m) /\ c4 \in Connection(n, m)
  BY <1>4, AckTextStep DEF Sender
<1> HIDE DEF c4
<1>6. c4 \in Receiver(c, n, m)
  <2>1. c4 \in Receiver(c3, n, m)
    BY <1>5, SenderIsReceiver
  <2> QED BY <1>1, <1>3, <1>4, <2>1, ReceiverTransitive
<1>7. Sound(c4, n, m) /\ c4.state = c.state /\ c4.ind = c.ind
  BY <1>6, StillSound DEF Arriving
<1>8. /\ ~fin => Window(c4, c.state)
      /\ fin /\ c.state \in Opening => Waiting(0, c4)
  <2>1. c4.rcv_nxt = c3.rcv_nxt /\ c4.receiveQueue = c3.receiveQueue
    BY <1>5 DEF Sender, Keeps
  <2>2. ~fin => c4.rcv_nxt = c2.rcv_nxt /\ c4.receiveQueue = c2.receiveQueue
    BY <1>4, <2>1 DEF Sender, Keeps
  <2>3. ~fin => Window(c4, c.state)
    BY <1>3, <2>2 DEF Window, Waiting
  <2>4. fin /\ c.state \in Opening => Waiting(0, c4)
    BY <1>3, <1>4, <2>1 DEF Window, Waiting
  <2> QED BY <2>3, <2>4
<1>9. /\ event \in {"CLOSE", "RCV_FIN", "RCV_FIN_ACK", "RCV_ACK", "IGNORE"}
      /\ event \in {"RCV_FIN", "RCV_FIN_ACK"} <=> fin /\ event # "CLOSE"
      /\ event = "RCV_FIN_ACK" => c.state = "FIN_WAIT_1"
      /\ event = "CLOSE" => c.state \in Opening \cup {"CLOSE_WAIT"}
  BY <1>7 DEF SegmentEvent, DeferredClose, Opening
<1> HIDE DEF event
<1>10. /\ st = "SYN_RCVD" => c.state = "SYN_RCVD"
       /\ st = "ESTABLISHED" => c.state \in Opening
       /\ st \in Finishing => c.state \in Opening \cup Finishing
       /\ st = "CLOSE_WAIT" => c.state \in Opening \cup {"CLOSE_WAIT"}
       /\ event = "RCV_FIN" => st \notin Opening \cup Finishing
       /\ event = "RCV_FIN_ACK" => st = "TIME_WAIT"
       /\ event = "CLOSE" => st \notin Opening
  <2>1. c4.state \in State
    BY <1>5, ConnectionTypes
  <2> HIDE DEF st
  <2>2. /\ st = "SYN_RCVD" => c4.state = "SYN_RCVD" \/ event = "RCV_SYN"
        /\ st = "ESTABLISHED" => c4.state \in Opening \/ event = "RCV_SYN_ACK"
        /\ st \in Finishing => c4.state \in Opening \cup Finishing
        /\ st = "CLOSE_WAIT" =>
              \/ c4.state = "CLOSE_WAIT"
              \/ c4.state \in Opening /\ event = "RCV_FIN"
        /\ event = "RCV_FIN" => st \notin Opening \cup Finishing
        /\ event = "RCV_FIN_ACK" /\ c4.state = "FIN_WAIT_1" => st = "TIME_WAIT"
        /\ event = "CLOSE" => st \notin Opening
    BY <2>1, NextStateFacts DEF st
  <2> QED BY <1>7, <1>9, <2>2
<1> HIDE DEF st
<1>11. Window(c4, st)
  <2>1. CASE ~fin
    <3>1. st \in Opening => Waiting(1, c4)
      BY <1>8, <1>10, <2>1 DEF Window, Opening
    <3>2. st \in Finishing => Waiting(0, c4)
      <4>1. ASSUME Waiting(1, c4) PROVE Waiting(0, c4)
        BY <4>1, ConnectionAssumption DEF Waiting
      <4> QED BY <1>8, <1>10, <2>1, <4>1 DEF Window
    <3> QED BY <3>1, <3>2 DEF Window
  <2>2. CASE fin /\ event = "CLOSE"
    <3>1. st \notin Opening /\ (st \in Finishing => c.state \in Opening)
      BY <1>9, <1>10, <2>2 DEF Finishing, Opening
    <3> QED BY <1>8, <2>2, <3>1 DEF Window
  <2>3. CASE fin /\ event # "CLOSE"
    <3>1. st \notin Opening \cup Finishing
      BY <1>9, <1>10, <2>3 DEF Opening, Finishing
    <3> QED BY <3>1 DEF Window
  <2> QED BY <2>1, <2>2, <2>3
<1>12. (IF c4.failed THEN c4.state ELSE st) \in Informed => Says(c4.ind, "ESTABLISHED")
  BY <1>7, <1>10 DEF Informed, Opening
<1>13. Good(performStateTransition(c4, event), n, m)
  BY <1>5, <1>7, <1>11, <1>12, GoodTransition DEF Sound, st
<1> QED
  BY <1>0, <1>13 DEF c2

\* Events that neither open a connection nor carry text leave a good connection good.
LEMMA PlainTransition ==
    ASSUME NEW n, NEW m, NEW c, Good(c, n, m),
           NEW event, event \notin {"RCV_SYN", "RCV_SYN_ACK", "RCV_ACK", "RCV_FIN"}
    PROVE  Good(performStateTransition(c, event), n, m)
<1> DEFINE st == NextState(c, event)
<1>1. c \in Connection(n, m) /\ c.state \in State
  BY ConnectionTypes DEF Good
<1>2. /\ st = "SYN_RCVD" => c.state = "SYN_RCVD"
      /\ st = "ESTABLISHED" => c.state = "ESTABLISHED"
      /\ st \in Finishing => c.state \in Opening \cup Finishing
      /\ st = "CLOSE_WAIT" => c.state = "CLOSE_WAIT"
  <2> HIDE DEF st
  <2>1. /\ st = "SYN_RCVD" => c.state = "SYN_RCVD" \/ event = "RCV_SYN"
        /\ st = "ESTABLISHED" =>
              c.state = "ESTABLISHED" \/ event \in {"RCV_SYN_ACK", "RCV_ACK"}
        /\ st \in Finishing => c.state \in Opening \cup Finishing
        /\ st = "CLOSE_WAIT" =>
              \/ c.state = "CLOSE_WAIT"
              \/ c.state \in Opening /\ event = "RCV_FIN"
    BY <1>1, NextStateFacts DEF st
  <2> QED BY <2>1
<1> HIDE DEF st
<1>3. ASSUME ~c.failed PROVE Window(c, st)
  <2>1. Window(c, c.state)
    BY <1>3 DEF Good
  <2>2. ASSUME Waiting(1, c) PROVE Waiting(0, c)
    BY <2>2, ConnectionAssumption DEF Waiting
  <2>3. st \in Opening => Waiting(1, c)
    BY <1>2, <2>1 DEF Window, Opening
  <2>4. st \in Finishing => Waiting(0, c)
    BY <1>2, <2>1, <2>2 DEF Window
  <2> QED BY <2>3, <2>4 DEF Window
<1>4. (IF c.failed THEN c.state ELSE st) \in Informed => Says(c.ind, "ESTABLISHED")
  BY <1>2 DEF Good, Informed
<1> QED
  BY <1>1, <1>3, <1>4, GoodTransition DEF Good, st

\* An indication other than PEER_CLOSED is good at any time.
LEMMA GoodIndication ==
    ASSUME NEW n, NEW m, NEW c, Good(c, n, m),
           NEW i \in Indication, i # "PEER_CLOSED"
    PROVE  LET d == sendIndicationToApp(c, i)
           IN  /\ Good(d, n, m)
               /\ d.state = c.state /\ d.failed = c.failed
               /\ d.ind = Append(c.ind, i) /\ Says(d.ind, i)
<1> DEFINE d == sendIndicationToApp(c, i)
<1>1. c \in Connection(n, m) /\ c.ind \in Seq(Indication)
  BY ConnectionTypes DEF Good
<1>2. /\ d \in Connection(n, m)
      /\ d.ind = Append(c.ind, i)
      /\ d.state = c.state /\ d.failed = c.failed
      /\ d.rcv_nxt = c.rcv_nxt /\ d.receiveQueue = c.receiveQueue
      /\ d.rexmit_count = c.rexmit_count /\ d.rexmitTimer = c.rexmitTimer
      /\ d.connEstabTimer = c.connEstabTimer /\ d.synRexmitTimer = c.synRexmitTimer
  BY <1>1, IndicationStep
<1>3. /\ \A y : Says(c.ind, y) => Says(d.ind, y)
      /\ Says(d.ind, i)
      /\ ClosedAfterOpen(d.ind)
  BY <1>1, <1>2, Saying DEF Good
<1> HIDE DEF d
<1>4. Good(d, n, m)
  BY <1>2, <1>3 DEF Good, Setup, Window, Waiting
<1> QED
  BY <1>2, <1>3, <1>4 DEF d

\* Steps five to eight.
LEMMA AckTextFin ==
    ASSUME NEW n \in Number, NEW m \in Number, NEW c, Good(c, n, m), ~c.failed,
           c.state \in Arriving, NEW win \in Windows, NEW s \in Segment(0 .. m),
           c.state \in Opening \cup Informed => Says(c.ind, "ESTABLISHED"),
           s.item # 0 => Minus(s.seqNo, c.rcv_nxt) \in 0 .. RcvWnd - 1
    PROVE  Good(processAckTextFin(c, s, win), n, m)
<1> DEFINE d == processAck(c, s, win)
           a == [sendAck(c) EXCEPT !.dupacks = 0]
           r == processAckTextFin(c, s, win)
<1>1. c \in Connection(n, m) /\ Sound(c, n, m) /\ Window(c, c.state) /\ n \in Nat
  BY GoodIsSound DEF Good, Number
<1>2. \/ r = a
      \/ r = performStateTransition(d, "RCV_ACK") /\ c.state = "LAST_ACK"
      \/ r = processAfterText(processText(d, s, win, c), s, c)
  BY DEF processAckTextFin
<1>3. d \in Sender(c, n, m)
  BY <1>1, AckTimers
<1>4. CASE r = a
  <2>1. sendAck(c) \in Sender(c, n, m) /\ sendAck(c) \in Connection(n, m)
    BY <1>1, SendControl DEF Sender
  <2> DEFINE b == sendAck(c)
  <2>2. 0 \in DupAcks
    BY ConnectionAssumption DEF DupAcks
  <2>3. [b EXCEPT !.dupacks = 0] \in Sender(b, n, m)
    <3>1. b \in Connection(n, m)
      BY <2>1
    <3> HIDE DEF b
    <3> QED BY <2>2, <3>1 DEF Sender, Connection, Keeps, KeepsState
  <2>4. a \in Sender(c, n, m)
    BY <2>1, <2>3, Transitive
  <2> QED BY <1>4, <2>4, StillGood DEF Arriving
<1>5. CASE r = performStateTransition(d, "RCV_ACK") /\ c.state = "LAST_ACK"
  <2> HIDE DEF d
  <2>1. Good(d, n, m) /\ d.state = "LAST_ACK"
    BY <1>3, <1>5, StillGood DEF Arriving, Sender, Keeps, KeepsState
  <2>2. NextState(d, "RCV_ACK") = "CLOSED"
    BY <2>1 DEF NextState, Synchronized
  <2>3. Good(performStateTransition(d, "RCV_ACK"), n, m)
    BY <2>1, <2>2, GoodTransition DEF Good, Window, Opening, Finishing, Informed, Setting
  <2> QED BY <1>5, <2>3
<1>6. CASE r = processAfterText(processText(d, s, win, c), s, c)
  <2> HIDE DEF d, r
  <2>1. Good(processAfterText(processText(d, s, win, c), s, c), n, m)
    BY <1>1, <1>3, AfterAck
  <2> QED BY <1>6, <2>1 DEF r
<1> QED
  BY <1>2, <1>4, <1>5, <1>6

\* Step two: a RST.
LEMMA RstStep ==
    ASSUME NEW n \in Number, NEW m, NEW c, Good(c, n, m), ~c.failed, c.state \in Arriving
    PROVE  Good(processRst(c), n, m)
<1> DEFINE f == discardUpTo(c, BufferEndSeq(c))
           g == sendIndicationToApp(f, "CONNECTION_REFUSED")
           h == sendIndicationToApp(c, "CONNECTION_RESET")
<1>1. f \in Sender(c, n, m)
  BY BufferEnd, Discard DEF Good
<1>2. Good(f, n, m)
  <2> HIDE DEF f
  <2> QED BY <1>1, StillGood DEF Arriving
<1>3. "CONNECTION_REFUSED" \in Indication /\ "CONNECTION_RESET" \in Indication
  BY DEF Indication
<1>4. Good(g, n, m) /\ Good(h, n, m)
  <2> HIDE DEF f
  <2> QED BY <1>2, <1>3, GoodIndication
<1>5. \E d \in {f, g, h, c} : processRst(c) = performStateTransition(d, "RCV_RST")
  BY DEF processRst
<1>6. \A d \in {f, g, h, c} : Good(d, n, m)
  BY <1>2, <1>4
<1> HIDE DEF f, g, h
<1>7. \A d : Good(d, n, m) => Good(performStateTransition(d, "RCV_RST"), n, m)
  BY PlainTransition
<1> QED
  BY <1>5, <1>6, <1>7

\* processSegment1stThru8th.
LEMMA SegmentStep ==
    ASSUME NEW n \in Number, NEW m \in Number, NEW c, Good(c, n, m), ~c.failed,
           c.state \in Arriving, NEW win \in Windows, NEW s \in Segment(0 .. m)
    PROVE  Good(processSegment1stThru8th(c, s, win), n, m)
<1> DEFINE a == sendAck(c)
           h == sendIndicationToApp(c, "CONNECTION_RESET")
           t == performStateTransition(h, "RCV_UNEXP_SYN")
           r == sendRst(c, s.ackNo)
           e == IF c.state = "SYN_RCVD" THEN sendIndicationToApp(c, "ESTABLISHED") ELSE c
           f == processAckTextFin(e, s, win)
           d == processSegment1stThru8th(c, s, win)
<1>0. c \in Connection(n, m) /\ n \in Nat /\ s.ackNo \in SeqNo
  BY DEF Good, Number, Segment
<1>1. d \in {c, a, processRst(c), t, r, f} /\ (d = f \/ d \in {c, a, processRst(c), t, r})
  BY DEF processSegment1stThru8th
<1>2. isSegmentAcceptable(c, s) \/ d \in {c, a, processRst(c), t, r}
  BY DEF processSegment1stThru8th
<1>3. Good(a, n, m) /\ Good(r, n, m)
  <2>1. a \in Sender(c, n, m) /\ r \in Sender(c, n, m)
    BY <1>0, SendControl
  <2> HIDE DEF a, r
  <2> QED BY <2>1, StillGood DEF Arriving
<1>4. Good(t, n, m)
  <2>1. "CONNECTION_RESET" \in Indication
    BY DEF Indication
  <2>2. Good(h, n, m)
    BY <2>1, GoodIndication
  <2> HIDE DEF h
  <2> QED BY <2>2, PlainTransition
<1>5. Good(processRst(c), n, m)
  BY RstStep
<1>6. ASSUME isSegmentAcceptable(c, s) PROVE Good(f, n, m)
  <2>1. "ESTABLISHED" \in Indication
    BY DEF Indication
  <2>2. /\ Good(e, n, m) /\ e.state = c.state /\ e.failed = c.failed
        /\ e.rcv_nxt = c.rcv_nxt
        /\ c.state = "SYN_RCVD" => Says(e.ind, "ESTABLISHED")
    BY <1>0, <2>1, GoodIndication, IndicationStep
  <2> HIDE DEF e
  <2>3. e.state \in Opening \cup Informed => Says(e.ind, "ESTABLISHED")
    BY <2>2 DEF Good, Opening, Informed
  <2>4. s.item # 0 => Minus(s.seqNo, e.rcv_nxt) \in 0 .. RcvWnd - 1
    BY <1>0, <1>6, <2>2, TextInWindow
  <2> QED BY <2>2, <2>3, <2>4, AckTextFin
<1> HIDE DEF a, t, r, f, d
<1>7. Good(d, n, m)
  BY <1>1, <1>2, <1>3, <1>4, <1>5, <1>6
<1> QED
  BY <1>7 DEF d

\* A new connection, or what is left of an old one, has new sequence numbers.
LEMMA SelectIss ==
    ASSUME NEW n \in Nat, NEW m, NEW c \in Connection(n, m)
    PROVE  LET d == selectInitialSeqNum(c)
           IN  d \in Connection(n, m) /\ Keeps(c, d) /\ d.failed = c.failed
                 /\ d.rexmitTimer = c.rexmitTimer /\ d.rexmit_count = c.rexmit_count
<1> DEFINE i == Plus(c.iss, IssStep)
           b == Plus(i, 1)
           q == <<>>
           d == [c EXCEPT !.iss = i, !.snd_una = i, !.snd_nxt = i, !.snd_max = i,
                          !.begin = b, !.sendQueue = q]
<1>1. i \in SeqNo /\ b \in SeqNo
  <2>1. i \in SeqNo
    BY ConnectionTypes, SeqConstants, PlusType
  <2> HIDE DEF i
  <2> QED BY <2>1, SeqConstants, PlusType
<1>2. q \in Queue(n)
  BY DEF Queue
<1>3. selectInitialSeqNum(c) = d
  BY DEF selectInitialSeqNum
<1> HIDE DEF i, b, q
<1>4. d \in Connection(n, m)
  BY <1>1, <1>2 DEF Connection
<1>5. Keeps(c, d) /\ d.failed = c.failed
      /\ d.rexmitTimer = c.rexmitTimer /\ d.rexmit_count = c.rexmit_count
  BY DEF Connection, Keeps, KeepsState
<1> QED
  BY <1>3, <1>4, <1>5

\* Sending a SYN or SYN+ACK fails nowhere and starts no REXMIT timer.
LEMMA SynAckFields ==
    ASSUME NEW n \in Nat, NEW m, NEW c \in Connection(n, m)
    PROVE  /\ sendSynAck(c).failed = c.failed /\ sendSynAck(c).rexmitTimer = c.rexmitTimer
           /\ sendSyn(c).failed = c.failed /\ sendSyn(c).rexmitTimer = c.rexmitTimer
BY DEF sendSynAck, sendSyn, Emit, Connection

\* Values inside the handlers: setup begins at the passive and at the active end,
\* and the first segment sets rcv_nxt.
PassiveSetup(c) == [startSynRexmitTimer(c) EXCEPT !.connEstabTimer = TRUE]
ActiveSetup(c) == [startSynRexmitTimer(c) EXCEPT !.active = TRUE, !.connEstabTimer = TRUE]
Began(c, a) == [c EXCEPT !.rcv_nxt = a, !.receiveQueue = {}]

\* The timers of setup change nothing else.
LEMMA StartSynRexmit ==
    ASSUME NEW n, NEW m, NEW c \in Connection(n, m),
           NEW d \in {startSynRexmitTimer(c), PassiveSetup(c), ActiveSetup(c)}
    PROVE  /\ d \in Connection(n, m)
           /\ d.state = c.state /\ d.failed = c.failed /\ d.ind = c.ind
           /\ d.rcv_nxt = c.rcv_nxt /\ d.receiveQueue = c.receiveQueue
           /\ d.rexmit_count = c.rexmit_count /\ d.rexmitTimer = c.rexmitTimer
<1> DEFINE e == startSynRexmitTimer(c)
<1>1. /\ e \in Connection(n, m)
      /\ e.state = c.state /\ e.failed = c.failed /\ e.ind = c.ind
      /\ e.rcv_nxt = c.rcv_nxt /\ e.receiveQueue = c.receiveQueue
      /\ e.rexmit_count = c.rexmit_count /\ e.rexmitTimer = c.rexmitTimer
  BY DEF startSynRexmitTimer, Connection
<1>2. \/ d = e
      \/ d = [e EXCEPT !.connEstabTimer = TRUE]
      \/ d = [e EXCEPT !.active = TRUE, !.connEstabTimer = TRUE]
  BY DEF PassiveSetup, ActiveSetup
<1> HIDE DEF e
<1>3. CASE d = e
  BY <1>1, <1>3
<1>4. CASE d = [e EXCEPT !.connEstabTimer = TRUE]
  BY <1>1, <1>4 DEF Connection
<1>5. CASE d = [e EXCEPT !.active = TRUE, !.connEstabTimer = TRUE]
  BY <1>1, <1>5 DEF Connection
<1> QED
  BY <1>2, <1>3, <1>4, <1>5

\* The first segment of a connection sets rcv_nxt and empties the receive queue.
LEMMA FirstSegment ==
    ASSUME NEW n, NEW m, NEW c \in Connection(n, m), NEW a \in SeqNo
    PROVE  LET d == Began(c, a)
           IN  /\ d \in Connection(n, m) /\ KeepsState(c, d)
               /\ d.failed = c.failed /\ d.receiveQueue = {}
               /\ d.rexmitTimer = c.rexmitTimer /\ d.rexmit_count = c.rexmit_count
<1> DEFINE q == {}
           d == [c EXCEPT !.rcv_nxt = a, !.receiveQueue = q]
<1>1. q \in Received(m)
  BY DEF Received
<1> HIDE DEF q
<1>2. /\ d \in Connection(n, m) /\ KeepsState(c, d)
      /\ d.failed = c.failed /\ d.receiveQueue = q
      /\ d.rexmitTimer = c.rexmitTimer /\ d.rexmit_count = c.rexmit_count
  BY <1>1 DEF Connection, KeepsState
<1>3. Began(c, a) = d
  BY DEF Began, q
<1> HIDE DEF d
<1> QED
  BY <1>2, <1>3 DEF q

\* A segment in LISTEN.
LEMMA ListenStep ==
    ASSUME NEW n \in Number, NEW m \in Number, NEW c, Good(c, n, m), ~c.failed,
           c.state = "LISTEN", NEW s \in Segment(0 .. m)
    PROVE  Good(processSegmentInListen(c, s), n, m)
<1> DEFINE a == Plus(s.seqNo, 1)
           c0 == Began(c, a)
           c1 == selectInitialSeqNum(c0)
           c2 == sendSynAck(c1)
           c3 == PassiveSetup(c2)
           c4 == performStateTransition(c3, "RCV_SYN")
           r == sendRst(c, s.ackNo)
           d == processSegmentInListen(c, s)
<1>0. c \in Connection(n, m) /\ n \in Nat /\ s.ackNo \in SeqNo /\ a \in SeqNo
  BY SeqConstants, PlusType DEF Good, Number, Segment
<1>1. d \in {c, r, c4}
  BY DEF processSegmentInListen, Began, PassiveSetup
<1>2. Good(r, n, m)
  <2>1. r \in Sender(c, n, m)
    BY <1>0, SendControl
  <2> HIDE DEF r
  <2> QED BY <2>1, StillGood
<1> HIDE DEF a
<1>3. /\ c0 \in Connection(n, m) /\ KeepsState(c, c0)
      /\ c0.failed = c.failed /\ c0.receiveQueue = {} /\ c0.rexmitTimer = c.rexmitTimer
  BY <1>0, FirstSegment
<1> HIDE DEF c0
<1>4. /\ c1 \in Connection(n, m) /\ Keeps(c0, c1)
      /\ c1.failed = c.failed /\ c1.rexmitTimer = c.rexmitTimer
  BY <1>0, <1>3, SelectIss
<1> HIDE DEF c1
<1>5. /\ c2 \in Connection(n, m) /\ Keeps(c1, c2)
      /\ c2.failed = c.failed /\ c2.rexmitTimer = c.rexmitTimer
  BY <1>0, <1>4, SendSyns, SynAckFields DEF Sender
<1> HIDE DEF c2
<1>6. /\ c3 \in Connection(n, m)
      /\ c3.state = c2.state /\ c3.failed = c2.failed /\ c3.ind = c2.ind
      /\ c3.rcv_nxt = c2.rcv_nxt /\ c3.receiveQueue = c2.receiveQueue
      /\ c3.rexmit_count = c2.rexmit_count /\ c3.rexmitTimer = c2.rexmitTimer
  BY <1>5, StartSynRexmit
<1> HIDE DEF c3
<1>7. /\ c3.state = "LISTEN" /\ ~c3.failed /\ c3.ind = c.ind /\ c3.receiveQueue = {}
      /\ c3.rexmit_count \in {0, c.rexmit_count}
  BY <1>3, <1>4, <1>5, <1>6 DEF Keeps, KeepsState
<1>8. NextState(c3, "RCV_SYN") = "SYN_RCVD"
  BY <1>7 DEF NextState
<1>9. /\ c3.rexmit_count <= MAX_REXMIT_COUNT /\ ClosedAfterOpen(c3.ind)
      /\ Window(c3, "SYN_RCVD")
  BY <1>7, ConnectionAssumption DEF Good, Window, Waiting
<1>10. Good(c4, n, m)
  BY <1>6, <1>7, <1>8, <1>9, GoodTransition DEF Setting, Informed
<1> HIDE DEF r, c4, d
<1>11. Good(d, n, m)
  BY <1>1, <1>2, <1>10
<1> QED
  BY <1>11 DEF d

\* A segment in SYN_SENT: SYN+ACK, the SYN of a simultaneous open, a RST.
LEMMA SynSentStep ==
    ASSUME NEW n \in Number, NEW m \in Number, NEW c, Good(c, n, m), ~c.failed,
           c.state = "SYN_SENT", NEW win \in Windows, NEW s \in Segment(0 .. m)
    PROVE  Good(processSegmentInSynSent(c, s, win), n, m)
<1> DEFINE a == Plus(s.seqNo, 1)
           c1 == Began(c, a)
           u1 == [c1 EXCEPT !.snd_una = s.ackNo]
           c2 == discardUpTo(u1, s.ackNo)
           c3 == ackOfSyn(c2, win)
           c4 == sendIndicationToApp(c3, "ESTABLISHED")
           t4 == performStateTransition(c4, "RCV_SYN_ACK")
           b2 == sendSynAck(c1)
           b3 == startSynRexmitTimer(b2)
           t3 == performStateTransition(b3, "RCV_SYN")
           h == sendIndicationToApp(c, "CONNECTION_RESET")
           t2 == performStateTransition(h, "RCV_RST")
           r == sendRst(c, s.ackNo)
           d == processSegmentInSynSent(c, s, win)
<1>0. c \in Connection(n, m) /\ n \in Nat /\ s.ackNo \in SeqNo /\ a \in SeqNo
  BY SeqConstants, PlusType DEF Good, Number, Segment
<1>1. d \in {c, r, t2, t3, t4}
  BY DEF processSegmentInSynSent, Began
<1>2. Good(r, n, m)
  <2>1. r \in Sender(c, n, m)
    BY <1>0, SendControl
  <2> HIDE DEF r
  <2> QED BY <2>1, StillGood
<1>3. Good(t2, n, m)
  <2>1. "CONNECTION_RESET" \in Indication
    BY DEF Indication
  <2>2. Good(h, n, m)
    BY <2>1, GoodIndication
  <2> HIDE DEF h
  <2> QED BY <2>2, PlainTransition
<1> HIDE DEF a
<1>4. /\ c1 \in Connection(n, m) /\ KeepsState(c, c1)
      /\ c1.failed = c.failed /\ c1.receiveQueue = {}
  BY <1>0, FirstSegment
<1> HIDE DEF c1
<1>5. Good(t3, n, m)
  <2>1. b2 \in Connection(n, m) /\ Keeps(c1, b2) /\ b2.failed = c1.failed
    BY <1>0, <1>4, SendSyns, SynAckFields DEF Sender
  <2> HIDE DEF b2
  <2>2. /\ b3 \in Connection(n, m)
        /\ b3.state = b2.state /\ b3.failed = b2.failed /\ b3.ind = b2.ind
        /\ b3.receiveQueue = b2.receiveQueue
        /\ b3.rexmit_count = b2.rexmit_count
    BY <2>1, StartSynRexmit
  <2> HIDE DEF b3
  <2>3. /\ b3.state = "SYN_SENT" /\ ~b3.failed /\ b3.ind = c.ind /\ b3.receiveQueue = {}
        /\ b3.rexmit_count \in {0, c.rexmit_count}
    BY <1>4, <2>1, <2>2 DEF Keeps, KeepsState
  <2>4. NextState(b3, "RCV_SYN") = "SYN_RCVD"
    BY <2>3 DEF NextState
  <2>5. /\ b3.rexmit_count <= MAX_REXMIT_COUNT /\ ClosedAfterOpen(b3.ind)
        /\ Window(b3, "SYN_RCVD")
    BY <2>3, ConnectionAssumption DEF Good, Window, Waiting
  <2> QED BY <2>2, <2>3, <2>4, <2>5, GoodTransition DEF Setting, Informed
<1>6. Good(t4, n, m)
  <2>1. u1 \in Sender(c1, n, m) /\ u1 \in Connection(n, m)
    BY <1>0, <1>4 DEF Sender, Connection, Keeps, KeepsState
  <2> HIDE DEF u1
  <2>2. c2 \in Sender(u1, n, m) /\ c2 \in Connection(n, m)
    BY <1>0, <2>1, Discard DEF Sender
  <2> HIDE DEF c2
  <2>3. c3 \in Sender(c2, n, m) /\ c3 \in Connection(n, m)
    <3> DEFINE x == sendData(c2, win)
    <3>1. x \in Sender(c2, n, m) /\ x \in Connection(n, m)
      BY <2>2, SendData DEF Sender
    <3>2. c3 \in {x, sendAck(x)}
      BY DEF ackOfSyn
    <3> HIDE DEF x, c3
    <3>3. sendAck(x) \in Sender(x, n, m)
      BY <1>0, <3>1, SendControl
    <3>4. c3 \in Sender(c2, n, m)
      BY <3>1, <3>2, <3>3, Transitive
    <3> QED BY <3>4 DEF Sender
  <2> HIDE DEF c3
  <2>4. /\ c3.state = "SYN_SENT" /\ c3.ind = c.ind /\ c3.receiveQueue = {}
        /\ c3.rexmit_count \in {0, c.rexmit_count}
    BY <1>4, <2>1, <2>2, <2>3 DEF Sender, Keeps, KeepsState
  <2>5. "ESTABLISHED" \in Indication
    BY DEF Indication
  <2>6. /\ c4 \in Connection(n, m) /\ c4.ind = Append(c.ind, "ESTABLISHED")
        /\ c4.state = c3.state /\ c4.receiveQueue = c3.receiveQueue
        /\ c4.rexmit_count = c3.rexmit_count
    BY <2>3, <2>4, <2>5, IndicationStep
  <2> HIDE DEF c4
  <2>7. Says(c4.ind, "ESTABLISHED") /\ ClosedAfterOpen(c4.ind)
    BY <1>0, <2>5, <2>6, Saying, ConnectionTypes DEF Good
  <2>8. c4.rexmit_count <= MAX_REXMIT_COUNT
    BY <2>4, <2>6, ConnectionAssumption DEF Good
  <2>9. Window(c4, NextState(c4, "RCV_SYN_ACK"))
    BY <2>4, <2>6 DEF Window, Waiting
  <2> QED BY <2>4, <2>6, <2>7, <2>8, <2>9, GoodTransition DEF Setting
<1> HIDE DEF r, t2, t3, t4, d
<1>7. Good(d, n, m)
  BY <1>1, <1>2, <1>3, <1>5, <1>6
<1> QED
  BY <1>7 DEF d

\* A segment for a connection that is not there.
LEMMA ClosedStep ==
    ASSUME NEW n \in Number, NEW m \in Number, NEW c, Good(c, n, m),
           NEW s \in Segment(0 .. m)
    PROVE  Good(segmentArrivalWhileClosed(c, s), n, m)
<1> DEFINE x == Seg({"RST"}, s.ackNo, 0, 0)
           y == Seg({"RST", "ACK"}, 0, Plus(s.seqNo, SegLen(s)), 0)
<1>1. SegLen(s) \in SeqNo
  <2>1. Cardinality(s.flags \cap {"SYN", "FIN"}) \in 0 .. 2
    <3> DEFINE P == {"SYN", "FIN"}
    <3>1. IsFiniteSet(P) /\ Cardinality(P) = 2
      <4>1. IsFiniteSet({"SYN"}) /\ Cardinality({"SYN"}) = 1
        BY FS_Singleton
      <4>2. "FIN" \notin {"SYN"} /\ P = {"SYN"} \cup {"FIN"}
        OBVIOUS
      <4> DEFINE Q == {"SYN"}
      <4>3. IsFiniteSet(Q) /\ Cardinality(Q) = 1 /\ "FIN" \notin Q
        BY <4>1, <4>2
      <4> HIDE DEF Q
      <4>4. IsFiniteSet(Q \cup {"FIN"}) /\ Cardinality(Q \cup {"FIN"}) = Cardinality(Q) + 1
        BY <4>3, FS_AddElement
      <4>5. P = Q \cup {"FIN"}
        BY <4>2 DEF Q
      <4> HIDE DEF P
      <4> QED BY <4>3, <4>4, <4>5
    <3> HIDE DEF P
    <3>2. /\ Cardinality(s.flags \cap P) <= Cardinality(P)
          /\ IsFiniteSet(s.flags \cap P)
      BY <3>1, FS_Subset
    <3>3. Cardinality(s.flags \cap P) \in Nat
      BY <3>2, FS_CardinalityType
    <3> QED BY <3>1, <3>2, <3>3 DEF P
  <2>2. PayloadLength(s) \in 0 .. 1
    BY DEF PayloadLength
  <2> QED BY <2>1, <2>2, HalfFacts DEF SegLen, SeqNo
<1>2. n \in Nat /\ s.ackNo \in SeqNo /\ s.seqNo \in SeqNo /\ 0 \in SeqNo /\ 0 \in 0 .. n
  BY SeqConstants DEF Segment, Number
<1>3. Plus(s.seqNo, SegLen(s)) \in SeqNo
  BY <1>1, <1>2, PlusType
<1>4. x \in Segment(0 .. n) /\ y \in Segment(0 .. n)
  BY <1>2, <1>3, SegType DEF Flag
<1>5. segmentArrivalWhileClosed(c, s) \in {c, Emit(c, x), Emit(c, y)}
  BY DEF segmentArrivalWhileClosed, sendRst
<1> HIDE DEF x, y
<1> QED
  BY <1>4, <1>5, GoodEmit

\* process_RCV_SEGMENT: a segment that carries nothing but what was sent, in any
\* state.
LEMMA ReceiveSegment ==
    ASSUME NEW n \in Number, NEW m \in Number, NEW c, Good(c, n, m), ~c.failed,
           NEW win \in Windows, NEW s \in Segment(0 .. m)
    PROVE  Good(process_RCV_SEGMENT(c, s, win), n, m)
<1>0. c.state \in State
  BY ConnectionTypes DEF Good
<1>1. CASE c.state \in {"INIT", "CLOSED"}
  BY <1>1, ClosedStep DEF process_RCV_SEGMENT
<1>2. CASE c.state = "LISTEN"
  BY <1>2, ListenStep DEF process_RCV_SEGMENT
<1>3. CASE c.state = "SYN_SENT"
  BY <1>3, SynSentStep DEF process_RCV_SEGMENT
<1>4. CASE c.state \in Arriving
  BY <1>4, SegmentStep DEF process_RCV_SEGMENT, Arriving
<1> QED
  BY <1>0, <1>1, <1>2, <1>3, <1>4 DEF Arriving

-----------------------------------------------------------------------------
(* Commands and timers *)

\* The OPEN commands.
LEMMA OpenStep ==
    ASSUME NEW n \in Number, NEW m \in Number, NEW c, Good(c, n, m), ~c.failed,
           c.state = "INIT"
    PROVE  /\ Good(process_OPEN_ACTIVE(c), n, m)
           /\ Good(process_OPEN_PASSIVE(c), n, m)
<1> DEFINE c1 == selectInitialSeqNum(c)
           c2 == sendSyn(c1)
           c3 == ActiveSetup(c2)
<1>0. c \in Connection(n, m) /\ n \in Nat
  BY DEF Good, Number
<1>1. process_OPEN_ACTIVE(c) = performStateTransition(c3, "OPEN_ACTIVE")
  BY DEF process_OPEN_ACTIVE, ActiveSetup
<1>2. /\ c1 \in Connection(n, m) /\ Keeps(c, c1)
      /\ c1.failed = c.failed /\ c1.rexmitTimer = c.rexmitTimer
  BY <1>0, SelectIss
<1> HIDE DEF c1
<1>3. /\ c2 \in Connection(n, m) /\ Keeps(c1, c2)
      /\ c2.failed = c1.failed /\ c2.rexmitTimer = c1.rexmitTimer
  BY <1>0, <1>2, SendSyns, SynAckFields DEF Sender
<1> HIDE DEF c2
<1>4. /\ c3 \in Connection(n, m)
      /\ c3.state = c2.state /\ c3.failed = c2.failed /\ c3.ind = c2.ind
      /\ c3.rexmit_count = c2.rexmit_count /\ c3.rexmitTimer = c2.rexmitTimer
  BY <1>3, StartSynRexmit
<1> HIDE DEF c3
<1>5. /\ c3.state = "INIT" /\ ~c3.failed /\ c3.ind = c.ind /\ ~c3.rexmitTimer
      /\ c3.rexmit_count \in {0, c.rexmit_count}
  BY <1>2, <1>3, <1>4 DEF Keeps, KeepsState, Good
<1>6. NextState(c3, "OPEN_ACTIVE") = "SYN_SENT"
  BY <1>5 DEF NextState
<1>7. c3.rexmit_count <= MAX_REXMIT_COUNT /\ ClosedAfterOpen(c3.ind)
  BY <1>5, ConnectionAssumption DEF Good
<1>8. Window(c3, "SYN_SENT") /\ "SYN_SENT" \notin Informed /\ "SYN_SENT" \in Setting
  BY DEF Window, Opening, Finishing, Informed, Setting
<1>9. Good(process_OPEN_ACTIVE(c), n, m)
  BY <1>1, <1>4, <1>5, <1>6, <1>7, <1>8, GoodTransition
<1>10. Good(process_OPEN_PASSIVE(c), n, m)
  BY PlainTransition DEF process_OPEN_PASSIVE
<1> QED
  BY <1>9, <1>10

\* The CLOSE command.
LEMMA CloseStep ==
    ASSUME NEW n \in Number, NEW m \in Number, NEW c, Good(c, n, m), ~c.failed,
           c.state \notin {"INIT", "CLOSED"}
    PROVE  Good(process_CLOSE(c), n, m)
<1> DEFINE end == BufferEndSeq(c)
           b == Plus(end, 1)
           c1 == [c EXCEPT !.send_fin = TRUE, !.snd_fin_seq = end]
           x1 == [c1 EXCEPT !.snd_nxt = c.snd_max]
           f1 == sendFin(x1)
           c2 == startRexmitTimer(f1)
           c3 == [c2 EXCEPT !.snd_nxt = b, !.snd_max = b]
           fl == [c EXCEPT !.failed = TRUE]
           d == process_CLOSE(c)
<1>0. c \in Connection(n, m) /\ n \in Nat /\ end \in SeqNo /\ b \in SeqNo /\ c.snd_max \in SeqNo
  <2>1. c \in Connection(n, m) /\ n \in Nat
    BY DEF Good, Number
  <2>2. end \in SeqNo /\ c.snd_max \in SeqNo
    BY <2>1, BufferEnd, ConnectionTypes
  <2> HIDE DEF end
  <2> QED BY <2>1, <2>2, SeqConstants, PlusType
<1>1. d \in {performStateTransition(c, "CLOSE"), performStateTransition(c3, "CLOSE"), c1, fl}
  BY DEF process_CLOSE
<1>2. fl \in Sender(c, n, m)
  BY <1>0, SetFailed
<1> HIDE DEF end, b
<1>3. c1 \in Sender(c, n, m) /\ c1 \in Connection(n, m)
  BY <1>0 DEF Sender, Connection, Keeps, KeepsState
<1> HIDE DEF c1
<1>4. x1 \in Sender(c1, n, m) /\ x1 \in Connection(n, m)
  BY <1>0, <1>3, SetSndNxt DEF Sender
<1> HIDE DEF x1
<1>5. f1 \in Sender(x1, n, m) /\ f1 \in Connection(n, m)
  BY <1>0, <1>4, SendControl DEF Sender
<1> HIDE DEF f1
<1>6. c2 \in Sender(f1, n, m) /\ c2 \in Connection(n, m)
  BY <1>5, StartRexmit DEF Sender
<1> HIDE DEF c2
<1>7. c3 \in Sender(c2, n, m)
  BY <1>0, <1>6, SetSndNxtMax
<1> HIDE DEF c3, fl
<1>8. c3 \in Sender(c, n, m)
  BY <1>3, <1>4, <1>5, <1>6, <1>7, Transitive
<1>9. Good(c1, n, m) /\ Good(c3, n, m) /\ Good(fl, n, m)
  BY <1>2, <1>3, <1>8, StillGood
<1>10. /\ Good(performStateTransition(c, "CLOSE"), n, m)
       /\ Good(performStateTransition(c3, "CLOSE"), n, m)
  BY <1>9, PlainTransition
<1> HIDE DEF d
<1>11. Good(d, n, m)
  BY <1>1, <1>9, <1>10
<1> QED
  BY <1>11 DEF d

\* The ABORT command.
LEMMA AbortStep ==
    ASSUME NEW n \in Number, NEW m \in Number, NEW c, Good(c, n, m), ~c.failed,
           c.state \notin {"INIT", "CLOSED"}
    PROVE  Good(process_ABORT(c), n, m)
<1> DEFINE r == sendRst(c, c.snd_nxt)
<1>1. r \in Sender(c, n, m)
  BY ConnectionTypes, SendControl DEF Good, Number
<1>2. \/ process_ABORT(c) = performStateTransition(r, "ABORT")
      \/ process_ABORT(c) = performStateTransition(c, "ABORT")
  BY DEF process_ABORT
<1> HIDE DEF r
<1>3. Good(r, n, m)
  BY <1>1, StillGood
<1> QED
  BY <1>2, <1>3, PlainTransition

\* A larger number of items sent.
LEMMA MoreSent ==
    ASSUME NEW n \in Nat, NEW m \in Nat, NEW i \in Nat, NEW j \in Nat, n <= i, m <= j
    PROVE  /\ Connection(n, m) \subseteq Connection(i, j)
           /\ Segment(0 .. n) \subseteq Segment(0 .. i)
           /\ \A c : Good(c, n, m) => Good(c, i, j)
<1>1. 0 .. n \subseteq 0 .. i /\ 1 .. n \subseteq 1 .. i /\ 1 .. m \subseteq 1 .. j
  OBVIOUS
<1>2. Segment(0 .. n) \subseteq Segment(0 .. i)
  <2> DEFINE S == 0 .. n
             T == 0 .. i
  <2>1. S \subseteq T
    BY <1>1
  <2> HIDE DEF S, T
  <2>2. Segment(S) \subseteq Segment(T)
    BY <2>1 DEF Segment
  <2> QED BY <2>2 DEF S, T
<1>3. Outgoing(n) \subseteq Outgoing(i)
  BY <1>2 DEF Outgoing
<1>4. Received(m) \subseteq Received(j)
  <2> DEFINE S == 1 .. m
             T == 1 .. j
  <2>1. S \subseteq T
    BY <1>1
  <2> HIDE DEF S, T
  <2>2. SUBSET (SeqNo \X S) \subseteq SUBSET (SeqNo \X T)
    BY <2>1
  <2> QED BY <2>2 DEF S, T, Received
<1>5. Seq(1 .. m) \subseteq Seq(1 .. j) /\ Seq(1 .. n) \subseteq Seq(1 .. i)
  <2>1. ASSUME NEW S, NEW T, S \subseteq T PROVE Seq(S) \subseteq Seq(T)
    BY <2>1, SeqMonotonic
  <2> QED BY <1>1, <2>1
<1>6. Queue(n) \subseteq Queue(i)
  <2> SUFFICES ASSUME NEW q \in Queue(n) PROVE q \in Queue(i)
    OBVIOUS
  <2>1. q \in Seq(1 .. i) /\ Len(q) <= n /\ Len(q) \in Nat
    BY <1>5 DEF Queue
  <2> QED BY <2>1 DEF Queue
<1>7. Connection(n, m) \subseteq Connection(i, j)
  <2> DEFINE T == Seq(1 .. m)
             U == Seq(1 .. j)
  <2>1. T \subseteq U
    BY <1>5
  <2> HIDE DEF T, U
  <2> SUFFICES ASSUME NEW c \in Connection(n, m) PROVE c \in Connection(i, j)
    OBVIOUS
  <2>2. c.toApp \in U
    BY <2>1 DEF Connection, T
  <2> QED BY <1>3, <1>4, <1>6, <2>2 DEF Connection, U
<1>8. \A c : Good(c, n, m) => Good(c, i, j)
  BY <1>7 DEF Good
<1> QED
  BY <1>2, <1>7, <1>8

\* The n-th item of the application is the number n.
LEMMA SendStep ==
    ASSUME NEW n \in Number, NEW m \in Number, n + 1 \in Number, NEW c, Good(c, n, m), ~c.failed,
           c.state \in {"SYN_SENT", "SYN_RCVD", "ESTABLISHED", "CLOSE_WAIT"}, NEW win \in Windows
    PROVE  Good(process_SEND(c, n + 1, win), n + 1, m)
<1> DEFINE k == n + 1
           q == Append(c.sendQueue, k)
           c1 == [c EXCEPT !.sendQueue = q]
<1>0. n \in Nat /\ m \in Nat /\ k \in Nat /\ n <= k
  BY DEF Number
<1>1. Good(c, k, m)
  BY <1>0, MoreSent
<1>2. c.sendQueue \in Seq(1 .. k) /\ Len(c.sendQueue) <= n /\ Len(c.sendQueue) \in Nat
  <2>1. c.sendQueue \in Queue(n) /\ c.sendQueue \in Queue(k)
    BY <1>1, ConnectionTypes DEF Good
  <2> QED BY <2>1 DEF Queue
<1>3. q \in Queue(k)
  <2> DEFINE T == 1 .. k
  <2>1. k \in T /\ c.sendQueue \in Seq(T)
    BY <1>0, <1>2
  <2> HIDE DEF T
  <2>2. q \in Seq(T) /\ Len(q) = Len(c.sendQueue) + 1
    BY <2>1, AppendProperties
  <2>3. Len(q) <= k
    BY <1>0, <1>2, <2>2
  <2> QED BY <2>2, <2>3 DEF T, Queue
<1>4. process_SEND(c, k, win) \in {c1, sendData(c1, win)}
  BY DEF process_SEND
<1> HIDE DEF k, q
<1>5. c1 \in Sender(c, k, m) /\ c1 \in Connection(k, m) /\ c1.failed = c.failed /\ c1.state = c.state
  BY <1>1, <1>3 DEF Good, Sender, Connection, Keeps, KeepsState
<1> HIDE DEF c1
<1>6. Good(c1, k, m)
  BY <1>1, <1>5, StillGood
<1>7. k \in Number
  BY DEF k
<1>8. sendData(c1, win) \in Sender(c1, k, m)
  BY <1>5, <1>7, SendData
<1>9. Good(sendData(c1, win), k, m)
  BY <1>5, <1>6, <1>8, StillGood
<1>10. Good(process_SEND(c, k, win), k, m)
  BY <1>4, <1>6, <1>9
<1> QED
  BY <1>10 DEF k

\* The CONN-ESTAB timeout.
LEMMA ConnEstabStep ==
    ASSUME NEW n \in Number, NEW m \in Number, NEW c, Good(c, n, m), c.connEstabTimer
    PROVE  Good(process_TIMEOUT_CONN_ESTAB([c EXCEPT !.connEstabTimer = FALSE]), n, m)
<1> DEFINE d == [c EXCEPT !.connEstabTimer = FALSE]
           e == sendIndicationToApp(d, "TIMED_OUT")
<1>1. /\ d \in Connection(n, m)
      /\ d.state = c.state /\ d.failed = c.failed /\ d.ind = c.ind
      /\ d.rcv_nxt = c.rcv_nxt /\ d.receiveQueue = c.receiveQueue
      /\ d.rexmit_count = c.rexmit_count /\ d.rexmitTimer = c.rexmitTimer
      /\ ~d.connEstabTimer /\ d.synRexmitTimer = c.synRexmitTimer
  BY DEF Good, Connection
<1> HIDE DEF d
<1>2. Good(d, n, m)
  BY <1>1 DEF Good, Setup, Window, Waiting
<1>3. Good(e, n, m)
  <2>1. "TIMED_OUT" \in Indication
    BY DEF Indication
  <2> QED BY <1>2, <2>1, GoodIndication
<1>4. \/ process_TIMEOUT_CONN_ESTAB(d) = performStateTransition(d, "TIMEOUT_CONN_ESTAB")
      \/ process_TIMEOUT_CONN_ESTAB(d) = performStateTransition(e, "TIMEOUT_CONN_ESTAB")
  <2>1. d.state \in {"SYN_SENT", "SYN_RCVD"}
    BY <1>1 DEF Good, Setup, Setting
  <2> QED BY <2>1 DEF process_TIMEOUT_CONN_ESTAB
<1> HIDE DEF e
<1>5. Good(process_TIMEOUT_CONN_ESTAB(d), n, m)
  BY <1>2, <1>3, <1>4, PlainTransition
<1> QED
  BY <1>5 DEF d

\* The SYN-REXMIT timeout.
LEMMA SynRexmitStep ==
    ASSUME NEW n \in Number, NEW m \in Number, NEW c, Good(c, n, m), ~c.failed, c.synRexmitTimer
    PROVE  Good(process_TIMEOUT_SYN_REXMIT(c), n, m)
<1> DEFINE k == c.syn_rexmit_count + 1
           c1 == [c EXCEPT !.syn_rexmit_count = k]
           fl == [c EXCEPT !.failed = TRUE]
           d == process_TIMEOUT_SYN_REXMIT(c)
<1>0. c \in Connection(n, m) /\ n \in Nat /\ c.state \notin {"INIT", "CLOSED"}
  BY DEF Good, Setup, Setting, Number
<1>1. k \in Nat
  BY <1>0, ConnectionTypes
<1>2. d \in {performStateTransition(c1, "ABORT"), sendSyn(c1), sendSynAck(c1), fl}
  BY DEF process_TIMEOUT_SYN_REXMIT
<1>3. fl \in Sender(c, n, m)
  BY <1>0, SetFailed
<1> HIDE DEF k, fl
<1>4. c1 \in Sender(c, n, m) /\ c1 \in Connection(n, m) /\ c1.failed = c.failed /\ c1.state = c.state
  BY <1>0, <1>1 DEF Sender, Connection, Keeps, KeepsState
<1> HIDE DEF c1, d
<1>5. Good(c1, n, m) /\ Good(fl, n, m)
  BY <1>0, <1>3, <1>4, StillGood
<1>6. sendSyn(c1) \in Sender(c1, n, m) /\ sendSynAck(c1) \in Sender(c1, n, m)
  BY <1>0, <1>4, SendSyns
<1>7. Good(sendSyn(c1), n, m) /\ Good(sendSynAck(c1), n, m)
  BY <1>0, <1>4, <1>5, <1>6, StillGood
<1>8. Good(performStateTransition(c1, "ABORT"), n, m)
  BY <1>5, PlainTransition
<1>9. Good(d, n, m)
  BY <1>2, <1>5, <1>7, <1>8
<1> QED
  BY <1>9 DEF d

\* A tick of the 2MSL timer, and its timeout.
LEMMA TwoMslStep ==
    ASSUME NEW n \in Number, NEW m \in Number, NEW c, Good(c, n, m), ~c.failed, c.the2MSLTimer > 0
    PROVE  /\ c.the2MSLTimer > 1 => Good([c EXCEPT !.the2MSLTimer = @ - 1], n, m)
           /\ Good(process_TIMEOUT_2MSL(c), n, m)
<1> DEFINE k == c.the2MSLTimer - 1
           c1 == [c EXCEPT !.the2MSLTimer = k]
           c0 == [c EXCEPT !.the2MSLTimer = 0]
           fl == [c EXCEPT !.failed = TRUE]
<1>0. c \in Connection(n, m) /\ k \in Ticks /\ 0 \in Ticks
  <2>1. c \in Connection(n, m)
    BY DEF Good
  <2>2. c.the2MSLTimer \in 0 .. MSL2
    BY <2>1, ConnectionTypes DEF Ticks
  <2> QED BY <2>1, <2>2, ConnectionAssumption DEF Ticks
<1>1. process_TIMEOUT_2MSL(c) \in {performStateTransition(c0, "TIMEOUT_2MSL"), fl}
  BY DEF process_TIMEOUT_2MSL
<1> HIDE DEF k
<1>2. /\ c1 \in Connection(n, m)
      /\ c1.state = c.state /\ c1.failed = c.failed /\ c1.ind = c.ind
      /\ c1.rcv_nxt = c.rcv_nxt /\ c1.receiveQueue = c.receiveQueue
      /\ c1.rexmit_count = c.rexmit_count /\ c1.rexmitTimer = c.rexmitTimer
      /\ c1.connEstabTimer = c.connEstabTimer /\ c1.synRexmitTimer = c.synRexmitTimer
  BY <1>0 DEF Connection
<1>3. /\ c0 \in Connection(n, m)
      /\ c0.state = c.state /\ c0.failed = c.failed /\ c0.ind = c.ind
      /\ c0.rcv_nxt = c.rcv_nxt /\ c0.receiveQueue = c.receiveQueue
      /\ c0.rexmit_count = c.rexmit_count /\ c0.rexmitTimer = c.rexmitTimer
      /\ c0.connEstabTimer = c.connEstabTimer /\ c0.synRexmitTimer = c.synRexmitTimer
  BY <1>0 DEF Connection
<1>4. /\ fl \in Connection(n, m)
      /\ fl.state = c.state /\ fl.failed /\ fl.ind = c.ind
      /\ fl.rcv_nxt = c.rcv_nxt /\ fl.receiveQueue = c.receiveQueue
      /\ fl.rexmit_count = c.rexmit_count /\ fl.rexmitTimer = c.rexmitTimer
      /\ fl.connEstabTimer = c.connEstabTimer /\ fl.synRexmitTimer = c.synRexmitTimer
  BY <1>0 DEF Connection
<1>5. [c EXCEPT !.the2MSLTimer = @ - 1] = c1
  BY DEF k
<1> HIDE DEF c0, c1, fl
<1>6. Good(c0, n, m) /\ Good(c1, n, m) /\ Good(fl, n, m)
  BY <1>2, <1>3, <1>4 DEF Good, Setup, Window, Waiting
<1>7. Good(performStateTransition(c0, "TIMEOUT_2MSL"), n, m)
  BY <1>6, PlainTransition
<1> QED
  BY <1>1, <1>5, <1>6, <1>7

\* A connection that is about to be removed.
Finished(c, n, m) ==
    c \in Connection(n, m) /\ c.state = "CLOSED" /\ ~c.failed /\ ClosedAfterOpen(c.ind)

\* The REXMIT timer retransmits, or gives up when the count is exhausted.
LEMMA RexmitStep ==
    ASSUME NEW n \in Number, NEW m \in Number, NEW c, Good(c, n, m), ~c.failed, c.rexmitTimer
    PROVE  LET d == processRexmitTimer(c)
           IN  Good(d, n, m) \/ Finished(d, n, m)
<1> DEFINE k == c.rexmit_count + 1
           c1 == [c EXCEPT !.rexmit_count = k]
           i1 == sendIndicationToApp(c1, "TIMED_OUT")
           a1 == [c1 EXCEPT !.afterRto = TRUE]
           d == processRexmitTimer(c)
<1>0. c \in Connection(n, m) /\ c.state \notin {"INIT", "CLOSED"} /\ c.rexmit_count \in Nat
  BY ConnectionTypes DEF Good
<1>1. k \in Nat
  BY <1>0
<1>2. c1.rexmit_count = k
  BY <1>0 DEF Connection
<1>3. \/ d = performStateTransition(i1, "ABORT")
      \/ k <= MAX_REXMIT_COUNT /\ d = retransmitOneSegment(a1, TRUE)
  <2> DEFINE t == performStateTransition(i1, "ABORT")
             u == retransmitOneSegment(a1, TRUE)
  <2>1. d = IF c1.rexmit_count > MAX_REXMIT_COUNT THEN t ELSE u
    BY DEF processRexmitTimer
  <2>2. k <= MAX_REXMIT_COUNT \/ k > MAX_REXMIT_COUNT
    <3> HIDE DEF k
    <3> QED BY <1>1, ConnectionAssumption
  <2> HIDE DEF d, t, u, c1, k
  <2>3. d = IF k > MAX_REXMIT_COUNT THEN t ELSE u
    BY <1>2, <2>1
  <2>4. d = t \/ (k <= MAX_REXMIT_COUNT /\ d = u)
    BY <2>2, <2>3
  <2> QED BY <2>4 DEF t, u
<1> HIDE DEF k
<1>4. /\ c1 \in Connection(n, m)
      /\ c1.state = c.state /\ c1.failed = c.failed /\ c1.ind = c.ind
      /\ c1.rcv_nxt = c.rcv_nxt /\ c1.receiveQueue = c.receiveQueue
      /\ c1.rexmitTimer = c.rexmitTimer
      /\ c1.connEstabTimer = c.connEstabTimer /\ c1.synRexmitTimer = c.synRexmitTimer
  BY <1>0, <1>1 DEF Connection
<1> HIDE DEF c1
<1>5. CASE d = performStateTransition(i1, "ABORT")
  <2>1. "TIMED_OUT" \in Indication
    BY DEF Indication
  <2>2. /\ i1 \in Connection(n, m) /\ i1.ind = Append(c.ind, "TIMED_OUT")
        /\ i1.state = c.state /\ i1.failed = c.failed
    BY <1>4, <2>1, IndicationStep
  <2>3. ClosedAfterOpen(i1.ind) /\ i1.ind \in Seq(Indication)
    <3>1. ClosedAfterOpen(c.ind) /\ c.ind \in Seq(Indication)
      BY <1>0, ConnectionTypes DEF Good
    <3>2. /\ ClosedAfterOpen(Append(c.ind, "TIMED_OUT"))
          /\ Append(c.ind, "TIMED_OUT") \in Seq(Indication)
      BY ONLY <2>1, <3>1, Saying
    <3> QED BY <2>2, <3>2
  <2> HIDE DEF i1, d
  <2>4. NextState(i1, "ABORT") = "CLOSED"
    BY <1>0, <2>2 DEF NextState
  <2> DEFINE t == performStateTransition(i1, "ABORT")
  <2>5. /\ t \in Connection(n, m)
        /\ t.state = "CLOSED"
        /\ ~t.failed
        /\ t.ind \in {i1.ind, Append(i1.ind, "CLOSED")}
    BY <2>2, <2>4, Transition
  <2> HIDE DEF t
  <2>6. ClosedAfterOpen(t.ind)
    <3>1. "CLOSED" \in Indication
      BY DEF Indication
    <3> QED BY <2>3, <2>5, <3>1, Saying
  <2> QED BY <1>5, <2>5, <2>6 DEF Finished, t, d
<1>6. CASE k <= MAX_REXMIT_COUNT /\ d = retransmitOneSegment(a1, TRUE)
  <2>1. Good(c1, n, m)
    BY <1>2, <1>4, <1>6 DEF Good, Setup, Window, Waiting
  <2>2. a1 \in Sender(c1, n, m) /\ a1 \in Connection(n, m) /\ a1.failed = c1.failed
    BY <1>4 DEF Sender, Connection, Keeps, KeepsState
  <2> HIDE DEF a1, d
  <2>3. retransmitOneSegment(a1, TRUE) \in Sender(a1, n, m)
    BY <2>2, Retransmit
  <2>4. retransmitOneSegment(a1, TRUE) \in Sender(c1, n, m)
    BY <2>2, <2>3, Transitive
  <2>5. Good(retransmitOneSegment(a1, TRUE), n, m)
    BY <1>0, <1>4, <2>1, <2>4, StillGood
  <2> QED BY <1>6, <2>5 DEF d
<1> HIDE DEF d
<1>7. Good(d, n, m) \/ Finished(d, n, m)
  BY <1>3, <1>5, <1>6 DEF d
<1> QED
  BY <1>7 DEF d

\* A connection that has not been opened.
LEMMA NewIsConnection ==
    ASSUME NEW n \in Nat, NEW m \in Nat, NEW a \in SeqNo
    PROVE  NewConnection(a) \in Connection(n, m)
<1> DEFINE Q == Queue(n)
           R == Received(m)
           O == Outgoing(n)
           T == Seq(1 .. m)
           I == Seq(Indication)
<1>1. /\ <<>> \in Q /\ {} \in R /\ {} \in O /\ <<>> \in T /\ <<>> \in I
      /\ 0 \in DupAcks /\ 0 \in Ticks /\ 0 \in SeqNo /\ 0 \in Nat
      /\ "INIT" \in State
  BY SeqConstants, ConnectionAssumption
  DEF Queue, Received, Outgoing, DupAcks, Ticks, State
<1> HIDE DEF Q, R, O, T, I
<1> QED
  BY <1>1 DEF NewConnection, Connection, Q, R, O, T, I

\* What is left of a closed connection is good, and so is any other one whose
\* segments have left.
LEMMA Removed ==
    ASSUME NEW n \in Number, NEW m \in Number, NEW c, Good(c, n, m) \/ Finished(c, n, m)
    PROVE  /\ Good(removeConnection([c EXCEPT !.out = {}]), n, m)
           /\ c.out \in SUBSET Segment(0 .. n)
<1> DEFINE o == {}
           d == [c EXCEPT !.out = o]
           b == NewConnection(0)
           x == [b EXCEPT !.state = "CLOSED", !.toApp = d.toApp, !.ind = d.ind]
           r == removeConnection(d)
<1>0. c \in Connection(n, m) /\ ClosedAfterOpen(c.ind)
  BY DEF Good, Finished
<1>1. c.out \in SUBSET Segment(0 .. n)
  BY <1>0, ConnectionTypes DEF Outgoing
<1>2. o \in Outgoing(n)
  BY DEF Outgoing
<1> HIDE DEF o
<1>3. /\ d \in Connection(n, m)
      /\ d.state = c.state /\ d.failed = c.failed /\ d.ind = c.ind /\ d.toApp = c.toApp
      /\ d.rcv_nxt = c.rcv_nxt /\ d.receiveQueue = c.receiveQueue
      /\ d.rexmit_count = c.rexmit_count /\ d.rexmitTimer = c.rexmitTimer
      /\ d.connEstabTimer = c.connEstabTimer /\ d.synRexmitTimer = c.synRexmitTimer
  BY <1>0, <1>2 DEF Connection
<1> HIDE DEF d
<1>4. r = IF d.state = "CLOSED" /\ ~d.failed THEN x ELSE d
  BY DEF removeConnection
<1>5. CASE ~(d.state = "CLOSED" /\ ~d.failed)
  <2>1. Good(c, n, m)
    BY <1>3, <1>5 DEF Finished
  <2>2. Good(d, n, m)
    BY <1>3, <2>1 DEF Good, Setup, Window, Waiting
  <2> QED BY <1>1, <1>4, <1>5, <2>2 DEF d, o
<1>6. CASE d.state = "CLOSED" /\ ~d.failed
  <2>1. b \in Connection(n, m)
    BY NewIsConnection, SeqConstants DEF Number
  <2>2. ~b.connEstabTimer /\ ~b.synRexmitTimer /\ ~b.rexmitTimer /\ b.rexmit_count = 0
    BY DEF NewConnection
  <2>3. d.toApp \in Seq(1 .. m) /\ d.ind \in Seq(Indication) /\ "CLOSED" \in State
    BY <1>3, ConnectionTypes DEF State
  <2> HIDE DEF b
  <2>4. /\ x \in Connection(n, m)
        /\ x.state = "CLOSED" /\ x.ind = d.ind
        /\ ~x.connEstabTimer /\ ~x.synRexmitTimer /\ ~x.rexmitTimer /\ x.rexmit_count = 0
    BY <2>1, <2>2, <2>3 DEF Connection
  <2> HIDE DEF x
  <2>5. Good(x, n, m)
    BY <1>0, <1>3, <2>4, ConnectionAssumption
    DEF Good, Setup, Window, Opening, Finishing, Informed
  <2> QED BY <1>1, <1>4, <1>6, <2>5 DEF d, o
<1> QED
  BY <1>5, <1>6

-----------------------------------------------------------------------------
(* The two ends *)

\* No more items than that are ever sent.
Most == Half - 2

\* The inductive invariant: both ends are good, and what is in flight to an end
\* carries items its peer's application has sent.
IInv ==
    /\ conn \in [End -> Connection(Most, Most)]
    /\ net \in [End -> SUBSET Segment(0 .. Most)]
    /\ numSent \in [End -> Nat]
    /\ \A e \in End :
          /\ numSent[e] <= MaxSend[e]
          /\ Good(conn[e], numSent[e], numSent[Peer(e)])
          /\ net[e] \subseteq Segment(0 .. numSent[Peer(e)])

\* The two ends are each other's peers.
LEMMA Ends ==
    /\ \A e \in End : Peer(e) \in End /\ Peer(e) # e /\ Peer(Peer(e)) = e
    /\ \A e, f \in End : f = e \/ f = Peer(e)
BY DEF End, Peer

\* The number of items sent is small against the sequence numbers.
LEMMA SentIsNumber ==
    ASSUME NEW e \in End, NEW n \in Nat, n <= MaxSend[e]
    PROVE  n \in Number /\ n <= Most /\ Most \in Nat
<1>1. MaxSend[e] \in 0 .. Half - 2
  BY PairAssumption
<1> QED
  BY <1>1, HalfFacts DEF Number, Most

\* Two connections that have not been opened satisfy the invariant.
THEOREM InitGood == Init => IInv
<1> SUFFICES ASSUME Init PROVE IInv
  OBVIOUS
<1>0. Most \in Nat /\ 0 \in Number /\ 0 \in Nat
  BY HalfFacts DEF Most, Number
<1>1. ASSUME NEW e \in End
      PROVE  Good(NewConnection(InitialIss[e]), 0, 0) /\ 0 <= MaxSend[e]
  <2> DEFINE b == NewConnection(InitialIss[e])
  <2>1. InitialIss[e] \in SeqNo /\ MaxSend[e] \in 0 .. Half - 2
    BY PairAssumption
  <2>2. b \in Connection(0, 0)
    BY <1>0, <2>1, NewIsConnection
  <2>3. /\ ~b.connEstabTimer /\ ~b.synRexmitTimer /\ ~b.rexmitTimer /\ b.rexmit_count = 0
        /\ b.state = "INIT" /\ b.ind = <<>>
    BY DEF NewConnection
  <2> HIDE DEF b
  <2>4. ClosedAfterOpen(b.ind)
    BY <2>3 DEF ClosedAfterOpen
  <2>5. Good(b, 0, 0)
    BY <2>2, <2>3, <2>4, ConnectionAssumption
    DEF Good, Setup, Window, Opening, Finishing, Informed
  <2> QED BY <2>1, <2>5, HalfFacts DEF b
<1>2. \A e \in End : NewConnection(InitialIss[e]) \in Connection(Most, Most)
  <2>1. Connection(0, 0) \subseteq Connection(Most, Most)
    BY <1>0, MoreSent
  <2> QED BY <1>1, <2>1 DEF Good
<1>3. conn \in [End -> Connection(Most, Most)]
  BY <1>2 DEF Init
<1>4. net \in [End -> SUBSET Segment(0 .. Most)] /\ numSent \in [End -> Nat]
  BY DEF Init
<1>5. ASSUME NEW e \in End
      PROVE  /\ numSent[e] <= MaxSend[e]
             /\ Good(conn[e], numSent[e], numSent[Peer(e)])
             /\ net[e] \subseteq Segment(0 .. numSent[Peer(e)])
  <2>1. /\ conn[e] = NewConnection(InitialIss[e]) /\ net[e] = {}
        /\ numSent[e] = 0 /\ numSent[Peer(e)] = 0
    BY Ends DEF Init
  <2> QED BY <1>1, <2>1
<1> QED
  BY <1>3, <1>4, <1>5 DEF IInv

\* A handler whose results are good keeps the invariant: what it sent has only
\* items that were sent.
LEMMA HandleStep ==
    ASSUME IInv, NEW e \in End, NEW results, NEW taken, Handle(e, results, taken),
           numSent' \in [End -> Nat], numSent'[Peer(e)] = numSent[Peer(e)],
           numSent[e] <= numSent'[e], numSent'[e] <= MaxSend[e],
           \A c \in results : \/ Good(c, numSent'[e], numSent[Peer(e)])
                              \/ Finished(c, numSent'[e], numSent[Peer(e)])
    PROVE  IInv'
<1> DEFINE p == Peer(e)
           n == numSent'[e]
           m == numSent[p]
           k == numSent[e]
<1>0. p \in End /\ p # e /\ Peer(p) = e /\ \A f \in End : f = e \/ f = p
  BY Ends
<1>1. /\ n \in Nat /\ m \in Nat /\ k \in Nat /\ k <= n /\ n <= MaxSend[e] /\ m <= MaxSend[p]
      /\ numSent'[p] = m /\ numSent' \in [End -> Nat]
  BY <1>0 DEF IInv
<1>2. n \in Number /\ m \in Number /\ n <= Most /\ m <= Most /\ Most \in Nat
  <2> HIDE DEF p, n, m
  <2> QED BY <1>0, <1>1, SentIsNumber
<1>3. PICK c \in results :
        /\ conn' = [conn EXCEPT ![e] = removeConnection([c EXCEPT !.out = {}])]
        /\ net' = [net EXCEPT ![e] = @ \ taken, ![p] = @ \cup c.out]
  BY DEF Handle
<1>4. Good(c, n, m) \/ Finished(c, n, m)
  BY <1>3
<1>5. /\ conn \in [End -> Connection(Most, Most)]
      /\ net \in [End -> SUBSET Segment(0 .. Most)]
      /\ Good(conn[p], m, k)
      /\ net[e] \subseteq Segment(0 .. m) /\ net[p] \subseteq Segment(0 .. k)
  BY <1>0 DEF IInv
<1> DEFINE r == removeConnection([c EXCEPT !.out = {}])
<1> HIDE DEF p, n, m, k, r
<1>6. Good(r, n, m) /\ c.out \in SUBSET Segment(0 .. n)
  BY <1>2, <1>4, Removed DEF r
<1>7. /\ Good(conn[p], m, n)
      /\ Segment(0 .. k) \subseteq Segment(0 .. n)
      /\ Segment(0 .. n) \subseteq Segment(0 .. Most)
      /\ Segment(0 .. m) \subseteq Segment(0 .. Most)
      /\ r \in Connection(Most, Most)
  <2>1. Connection(n, m) \subseteq Connection(Most, Most)
    BY <1>1, <1>2, MoreSent
  <2>2. r \in Connection(n, m)
    BY <1>6 DEF Good
  <2>3. m <= m /\ n <= n
    BY <1>1
  <2>4. Good(conn[p], m, n)
    BY <1>1, <1>5, <2>3, MoreSent
  <2>5. /\ Segment(0 .. k) \subseteq Segment(0 .. n)
        /\ Segment(0 .. n) \subseteq Segment(0 .. Most)
        /\ Segment(0 .. m) \subseteq Segment(0 .. Most)
    BY <1>1, <1>2, <2>3, MoreSent
  <2> QED BY <2>1, <2>2, <2>4, <2>5
<1>8. /\ conn' \in [End -> Connection(Most, Most)]
      /\ conn'[e] = r /\ conn'[p] = conn[p]
  BY <1>0, <1>3, <1>5, <1>7 DEF r
<1>9. /\ net'[e] \subseteq Segment(0 .. m) /\ net'[p] \subseteq Segment(0 .. n)
      /\ net' \in [End -> SUBSET Segment(0 .. Most)]
  <2> DEFINE S == Segment(0 .. m)
             T == Segment(0 .. n)
             U == Segment(0 .. Most)
             x == net[e] \ taken
             y == net[p] \cup c.out
  <2>1. x \subseteq S /\ y \subseteq T /\ S \subseteq U /\ T \subseteq U
    BY <1>5, <1>6, <1>7
  <2>2. net \in [End -> SUBSET U]
    BY <1>5
  <2>3. net' = [net EXCEPT ![e] = x, ![p] = y]
    BY <1>0, <1>3, <1>5
  <2> HIDE DEF S, T, U, x, y
  <2>4. net'[e] = x /\ net'[p] = y /\ net' \in [End -> SUBSET U]
    BY <1>0, <2>1, <2>2, <2>3
  <2> QED BY <2>1, <2>4 DEF S, T, U
<1>10. ASSUME NEW f \in End
       PROVE  /\ numSent'[f] <= MaxSend[f]
              /\ Good(conn'[f], numSent'[f], numSent'[Peer(f)])
              /\ net'[f] \subseteq Segment(0 .. numSent'[Peer(f)])
  <2>1. CASE f = e
    BY <1>0, <1>1, <1>6, <1>8, <1>9, <2>1 DEF n, p
  <2>2. CASE f = p
    BY <1>0, <1>1, <1>7, <1>8, <1>9, <2>2 DEF n, p
  <2> QED BY <1>0, <2>1, <2>2
<1> QED
  BY <1>1, <1>8, <1>9, <1>10 DEF IInv

\* The same for a handler during which nothing is sent by an application.
LEMMA QuietHandleStep ==
    ASSUME IInv, NEW e \in End, NEW results, NEW taken, Handle(e, results, taken),
           UNCHANGED numSent,
           \A c \in results : \/ Good(c, numSent[e], numSent[Peer(e)])
                              \/ Finished(c, numSent[e], numSent[Peer(e)])
    PROVE  IInv'
<1>1. /\ numSent \in [End -> Nat] /\ numSent[e] <= MaxSend[e] /\ numSent[e] \in Nat
      /\ numSent' = numSent
  BY DEF IInv
<1>2. numSent[e] <= numSent'[e]
  BY <1>1
<1> QED
  BY <1>1, <1>2, HandleStep

\* Every command, every segment, every loss and every timeout keeps the invariant.
THEOREM StepGood == IInv /\ [Next]_vars => IInv'
<1> SUFFICES ASSUME IInv, [Next]_vars PROVE IInv'
  OBVIOUS
<1>1. CASE UNCHANGED vars
  BY <1>1 DEF vars, IInv
<1>2. CASE Next
  <2> PICK e \in End : \/ Open(e) \/ Send(e) \/ Close(e) \/ Abort(e)
                       \/ SegmentArrives(e) \/ SegmentLost(e) \/ Timeout(e)
    BY <1>2 DEF Next
  <2> DEFINE c == conn[e]
             n == numSent[e]
             m == numSent[Peer(e)]
  <2>0. /\ Good(c, n, m) /\ n \in Number /\ m \in Number /\ n \in Nat
        /\ net[e] \subseteq Segment(0 .. m)
        /\ numSent \in [End -> Nat]
    <3>1. /\ Peer(e) \in End /\ n \in Nat /\ m \in Nat /\ n <= MaxSend[e] /\ m <= MaxSend[Peer(e)]
          /\ Good(c, n, m) /\ net[e] \subseteq Segment(0 .. m)
          /\ numSent \in [End -> Nat]
      BY Ends DEF IInv
    <3> HIDE DEF n, m
    <3> QED BY <3>1, SentIsNumber
  <2> HIDE DEF c, n, m
  <2>1. CASE Open(e)
    <3> DEFINE d == IF Opens[e] = "ACTIVE" THEN process_OPEN_ACTIVE(c) ELSE process_OPEN_PASSIVE(c)
    <3>1. /\ c.state = "INIT" /\ ~c.failed
          /\ Handle(e, {d}, {}) /\ UNCHANGED numSent
      BY <2>1 DEF Open, Handle, Running, c
    <3>2. Good(d, n, m)
      BY <2>0, <3>1, OpenStep
    <3> HIDE DEF d
    <3> QED BY <3>1, <3>2, QuietHandleStep DEF n, m
  <2>2. CASE Send(e)
    <3> DEFINE R == {process_SEND(c, n + 1, win) : win \in Windows}
    <3>1. /\ c.state \in {"SYN_SENT", "SYN_RCVD", "ESTABLISHED", "CLOSE_WAIT"} /\ ~c.failed
          /\ n < MaxSend[e]
          /\ Handle(e, R, {}) /\ numSent' = [numSent EXCEPT ![e] = n + 1]
      <4>1. SendIn[e] \subseteq {"SYN_SENT", "SYN_RCVD", "ESTABLISHED", "CLOSE_WAIT"}
        BY PairAssumption
      <4> QED BY <2>2, <4>1 DEF Send, Handle, Running, c, n
    <3>2. n + 1 \in Nat /\ n + 1 <= MaxSend[e] /\ n <= n + 1
      <4>1. MaxSend[e] \in 0 .. Half - 2
        BY PairAssumption
      <4> QED BY <2>0, <3>1, <4>1, HalfFacts
    <3>3. n + 1 \in Number
      BY <3>2, SentIsNumber
    <3>4. \A d \in R : Good(d, n + 1, m)
      BY <2>0, <3>1, <3>3, SendStep
    <3>5. /\ numSent' \in [End -> Nat] /\ numSent'[e] = n + 1
          /\ numSent'[Peer(e)] = numSent[Peer(e)]
      BY <2>0, <3>1, <3>2, Ends
    <3> HIDE DEF R
    <3> QED BY <3>1, <3>2, <3>4, <3>5, HandleStep DEF n, m
  <2>3. CASE Close(e)
    <3>1. /\ c.state \notin {"INIT", "CLOSED"} /\ ~c.failed
          /\ Handle(e, {process_CLOSE(c)}, {}) /\ UNCHANGED numSent
      <4>1. CloseIn[e] \subseteq {"LISTEN", "SYN_SENT", "SYN_RCVD", "ESTABLISHED", "CLOSE_WAIT"}
        BY PairAssumption
      <4> QED BY <2>3, <4>1 DEF Close, Handle, Running, c
    <3>2. Good(process_CLOSE(c), n, m)
      BY <2>0, <3>1, CloseStep
    <3> QED BY <3>1, <3>2, QuietHandleStep DEF n, m
  <2>4. CASE Abort(e)
    <3>1. /\ c.state \notin {"INIT", "CLOSED"} /\ ~c.failed
          /\ Handle(e, {process_ABORT(c)}, {}) /\ UNCHANGED numSent
      <4>1. AbortIn[e] \subseteq State \ {"INIT", "CLOSED"}
        BY PairAssumption
      <4> QED BY <2>4, <4>1 DEF Abort, Handle, Running, c
    <3>2. Good(process_ABORT(c), n, m)
      BY <2>0, <3>1, AbortStep
    <3> QED BY <3>1, <3>2, QuietHandleStep DEF n, m
  <2>5. CASE SegmentArrives(e)
    <3>1. PICK s \in net[e] :
            Handle(e, {process_RCV_SEGMENT(c, s, win) : win \in Windows}, {s})
      BY <2>5 DEF SegmentArrives, c
    <3> DEFINE R == {process_RCV_SEGMENT(c, s, win) : win \in Windows}
    <3>2. ~c.failed /\ UNCHANGED numSent /\ s \in Segment(0 .. m) /\ Handle(e, R, {s})
      BY <2>0, <2>5, <3>1 DEF SegmentArrives, Handle, Running, c
    <3>3. \A d \in R : Good(d, n, m)
      BY <2>0, <3>2, ReceiveSegment
    <3> HIDE DEF R
    <3> QED BY <3>2, <3>3, QuietHandleStep DEF n, m
  <2>6. CASE SegmentLost(e)
    <3>1. UNCHANGED <<conn, numSent>> /\ \E s \in net[e] : net' = [net EXCEPT ![e] = @ \ {s}]
      BY <2>6 DEF SegmentLost
    <3>2. /\ net' \in [End -> SUBSET Segment(0 .. Most)]
          /\ \A f \in End : net'[f] \subseteq net[f]
      <4> DEFINE U == Segment(0 .. Most)
      <4>1. net \in [End -> SUBSET U]
        BY DEF IInv
      <4> HIDE DEF U
      <4>2. net' \in [End -> SUBSET U] /\ \A f \in End : net'[f] \subseteq net[f]
        BY <3>1, <4>1
      <4> QED BY <4>2 DEF U
    <3>3. ASSUME NEW f \in End
          PROVE  /\ numSent'[f] <= MaxSend[f]
                 /\ Good(conn'[f], numSent'[f], numSent'[Peer(f)])
                 /\ net'[f] \subseteq Segment(0 .. numSent'[Peer(f)])
      <4>1. /\ numSent[f] <= MaxSend[f]
            /\ Good(conn[f], numSent[f], numSent[Peer(f)])
            /\ net[f] \subseteq Segment(0 .. numSent[Peer(f)])
        BY DEF IInv
      <4> QED BY <3>1, <3>2, <4>1
    <3> QED BY <3>1, <3>2, <3>3 DEF IInv
  <2>7. CASE ConnEstabTimeout(e)
    <3> DEFINE d == process_TIMEOUT_CONN_ESTAB([c EXCEPT !.connEstabTimer = FALSE])
    <3>1. c.connEstabTimer /\ Handle(e, {d}, {}) /\ UNCHANGED numSent
      BY <2>7 DEF ConnEstabTimeout, ConnEstabDue, c
    <3>2. Good(d, n, m)
      BY <2>0, <3>1, ConnEstabStep
    <3> HIDE DEF d
    <3> QED BY <3>1, <3>2, QuietHandleStep DEF n, m
  <2>8. CASE SynRexmitTimeout(e)
    <3> DEFINE d == process_TIMEOUT_SYN_REXMIT(c)
    <3>1. ~c.failed /\ c.synRexmitTimer /\ Handle(e, {d}, {}) /\ UNCHANGED numSent
      BY <2>8 DEF SynRexmitTimeout, SynRexmitDue, Running, c
    <3>2. Good(d, n, m)
      BY <2>0, <3>1, SynRexmitStep
    <3> HIDE DEF d
    <3> QED BY <3>1, <3>2, QuietHandleStep DEF n, m
  <2>9. CASE RexmitTimeout(e)
    <3> DEFINE d == processRexmitTimer(c)
    <3>1. ~c.failed /\ c.rexmitTimer /\ Handle(e, {d}, {}) /\ UNCHANGED numSent
      BY <2>9 DEF RexmitTimeout, RexmitDue, Running, c
    <3>2. Good(d, n, m) \/ Finished(d, n, m)
      BY <2>0, <3>1, RexmitStep
    <3> HIDE DEF d
    <3> QED BY <3>1, <3>2, QuietHandleStep DEF n, m
  <2>10. CASE TwoMslTimeout(e)
    <3> DEFINE d == IF c.the2MSLTimer > 1
                    THEN [c EXCEPT !.the2MSLTimer = @ - 1] ELSE process_TIMEOUT_2MSL(c)
    <3>1. ~c.failed /\ c.the2MSLTimer > 0 /\ Handle(e, {d}, {}) /\ UNCHANGED numSent
      BY <2>10 DEF TwoMslTimeout, TwoMslDue, Running, c
    <3>2. Good(d, n, m)
      BY <2>0, <3>1, TwoMslStep
    <3> HIDE DEF d
    <3> QED BY <3>1, <3>2, QuietHandleStep DEF n, m
  <2> QED
    BY <2>1, <2>2, <2>3, <2>4, <2>5, <2>6, <2>7, <2>8, <2>9, <2>10 DEF Timeout
<1> QED
  BY <1>1, <1>2

\* The invariant of the two ends and of what is in flight between them.
THEOREM PairInvariance == Spec => []IInv
BY InitGood, StepGood, PTL DEF Spec

\* TypeOK: the states, the 32-bit sequence numbers, the counters within their
\* limits, the indications, and in flight only segments with an item that the
\* application of the peer may have sent.
THEOREM TypeCorrect == Spec => []TypeOK
<1>1. IInv => TypeOK
  <2> SUFFICES ASSUME IInv, NEW e \in End
               PROVE  LET c == conn[e] IN
                      /\ c.state \in State
                      /\ {c.iss, c.snd_una, c.snd_nxt, c.snd_max, c.begin, c.snd_fin_seq,
                          c.rcv_nxt, c.rcv_fin_seq} \subseteq SeqNo
                      /\ c.rexmit_count \in 0 .. MAX_REXMIT_COUNT
                      /\ c.the2MSLTimer \in 0 .. MSL2
                      /\ c.dupacks \in 0 .. DUPTHRESH + 1
                      /\ \A n \in DOMAIN c.ind : c.ind[n] \in Indication
                      /\ net[e] \subseteq Segment(0 .. MaxSend[Peer(e)])
    BY DEF TypeOK
  <2> DEFINE c == conn[e]
             k == numSent[Peer(e)]
  <2>1. /\ c \in Connection(Most, Most) /\ c.rexmit_count <= MAX_REXMIT_COUNT
        /\ net[e] \subseteq Segment(0 .. k)
        /\ k \in Nat /\ k <= MaxSend[Peer(e)] /\ Peer(e) \in End
    BY Ends DEF IInv, Good
  <2> HIDE DEF c, k
  <2>2. /\ {c.iss, c.snd_una, c.snd_nxt, c.snd_max, c.begin, c.snd_fin_seq,
            c.rcv_nxt, c.rcv_fin_seq} \subseteq SeqNo
        /\ c.state \in State /\ c.rexmit_count \in Nat
        /\ c.dupacks \in DupAcks /\ c.the2MSLTimer \in Ticks /\ c.ind \in Seq(Indication)
    BY <2>1, ConnectionTypes
  <2>3. c.rexmit_count \in 0 .. MAX_REXMIT_COUNT
    BY <2>1, <2>2, ConnectionAssumption
  <2>4. \A n \in DOMAIN c.ind : c.ind[n] \in Indication
    <3> DEFINE i == c.ind
    <3>1. i \in Seq(Indication)
      BY <2>2
    <3> HIDE DEF i
    <3>2. \A n \in DOMAIN i : i[n] \in Indication
      BY <3>1, Element
    <3> QED BY <3>2 DEF i
  <2>5. Segment(0 .. k) \subseteq Segment(0 .. MaxSend[Peer(e)])
    <3>1. MaxSend[Peer(e)] \in Nat
      BY <2>1, PairAssumption, HalfFacts
    <3>2. 0 <= 0 /\ 0 \in Nat
      OBVIOUS
    <3> QED BY <2>1, <3>1, <3>2, MoreSent
  <2> QED
    BY <2>1, <2>2, <2>3, <2>4, <2>5 DEF c, DupAcks, Ticks
<1> QED
  BY <1>1, PairInvariance, PTL

\* Nothing is invented: what the application of e was given, what waits in its
\* receive queue and what is on its way to it are items the peer's application
\* has sent, and what waits to be sent are items its own application has sent.
NothingInvented ==
    \A e \in End :
        /\ conn[e].toApp \in Seq(1 .. numSent[Peer(e)])
        /\ \A r \in conn[e].receiveQueue : r[2] \in 1 .. numSent[Peer(e)]
        /\ \A s \in net[e] : s.item \in 0 .. numSent[Peer(e)]
        /\ conn[e].sendQueue \in Seq(1 .. numSent[e])
        /\ Len(conn[e].sendQueue) <= numSent[e]

\* The queues of both ends and the network hold only what was sent.
THEOREM OnlyWhatWasSent == Spec => []NothingInvented
<1>1. IInv => NothingInvented
  <2> SUFFICES ASSUME IInv, NEW e \in End
               PROVE  /\ conn[e].toApp \in Seq(1 .. numSent[Peer(e)])
                      /\ \A r \in conn[e].receiveQueue : r[2] \in 1 .. numSent[Peer(e)]
                      /\ \A s \in net[e] : s.item \in 0 .. numSent[Peer(e)]
                      /\ conn[e].sendQueue \in Seq(1 .. numSent[e])
                      /\ Len(conn[e].sendQueue) <= numSent[e]
    BY DEF NothingInvented
  <2> DEFINE c == conn[e]
             n == numSent[e]
             m == numSent[Peer(e)]
  <2>1. /\ c \in Connection(n, m) /\ n \in Nat /\ m \in Nat
        /\ net[e] \subseteq Segment(0 .. m)
    BY Ends DEF IInv, Good
  <2> HIDE DEF c, n, m
  <2>2. c.sendQueue \in Queue(n) /\ c.receiveQueue \in Received(m) /\ c.toApp \in Seq(1 .. m)
    BY <2>1, ConnectionTypes
  <2>3. \A r \in c.receiveQueue : r[2] \in 1 .. m
    BY <2>1, <2>2, Pairs
  <2>4. \A s \in net[e] : s.item \in 0 .. m
    BY <2>1 DEF Segment
  <2>5. c.sendQueue \in Seq(1 .. n) /\ Len(c.sendQueue) <= n
    BY <2>2 DEF Queue
  <2> QED
    BY <2>2, <2>3, <2>4, <2>5 DEF c, n, m
<1> QED
  BY <1>1, PairInvariance, PTL

\* In the states that take text, what waits in the receive queue is inside the
\* receive window, and until the FIN of the peer or our own CLOSE it is behind a
\* gap: what is next in sequence is never held back.
NothingHeldBack ==
    \A e \in End :
        LET c == conn[e] IN
        ~c.failed =>
            /\ c.state \in {"SYN_RCVD", "ESTABLISHED"} =>
                 \A r \in c.receiveQueue : Minus(r[1], c.rcv_nxt) \in 1 .. RcvWnd - 1
            /\ c.state \in {"FIN_WAIT_1", "FIN_WAIT_2"} =>
                 \A r \in c.receiveQueue : Minus(r[1], c.rcv_nxt) \in 0 .. RcvWnd - 1

\* The receive queue stays within the window, across the wrap of sequence numbers.
THEOREM ReceiveQueueInWindow == Spec => []NothingHeldBack
<1>1. IInv => NothingHeldBack
  BY DEF IInv, Good, Window, Waiting, Opening, Finishing, NothingHeldBack
<1> QED
  BY <1>1, PairInvariance, PTL

\* The REXMIT timer runs only on a connection that is open.
RexmitTimerWhileOpen ==
    \A e \in End : conn[e].rexmitTimer => conn[e].state \notin {"INIT", "CLOSED"}

\* The timers of connection setup are gone when setup is over, by whichever of
\* the transitions out of SYN_SENT and SYN_RCVD (the exception in the handler
\* of SYN-REXMIT is unreachable), and the REXMIT timer never outlives the
\* connection.
THEOREM TimersExpected == Spec => [](SetupTimersMatchState /\ RexmitTimerWhileOpen)
<1>1. IInv => SetupTimersMatchState /\ RexmitTimerWhileOpen
  BY DEF IInv, Good, Setup, Setting, SetupTimersMatchState, RexmitTimerWhileOpen
<1> QED
  BY <1>1, PairInvariance, PTL

\* The application hears of the close of its peer only on a connection that it
\* was told of before.
THEOREM PeerClosedAfterEstablished == Spec => []PeerClosedOnlyWhenOpen
<1>1. IInv => PeerClosedOnlyWhenOpen
  <2> SUFFICES ASSUME IInv, NEW e \in End
               PROVE  LET i == conn[e].ind IN
                      \A n \in DOMAIN i :
                         i[n] = "PEER_CLOSED" => \E m \in 1 .. n - 1 : i[m] = "ESTABLISHED"
    BY DEF PeerClosedOnlyWhenOpen
  <2> DEFINE i == conn[e].ind
  <2>1. ClosedAfterOpen(i) /\ i \in Seq(Indication)
    BY ConnectionTypes DEF IInv, Good
  <2> HIDE DEF i
  <2>2. DOMAIN i = 1 .. Len(i)
    BY <2>1
  <2>3. \A n \in DOMAIN i :
          i[n] = "PEER_CLOSED" => \E m \in 1 .. n - 1 : i[m] = "ESTABLISHED"
    BY <2>1, <2>2 DEF ClosedAfterOpen
  <2> QED BY <2>3 DEF i
<1> QED
  BY <1>1, PairInvariance, PTL

-----------------------------------------------------------------------------
(* Offsets *)

\* Sequence numbers at the offsets Minus(a, o) and Minus(b, o) from o that are less
\* than half of the range apart compare like their offsets.
LEMMA Offsets ==
    ASSUME NEW o \in SeqNo, NEW a \in SeqNo, NEW b \in SeqNo,
           Minus(a, o) - Minus(b, o) < Half, Minus(b, o) - Minus(a, o) < Half
    PROVE  /\ seqLE(a, b) <=> Minus(a, o) <= Minus(b, o)
           /\ seqLess(a, b) <=> Minus(a, o) < Minus(b, o)
           /\ seqGE(a, b) <=> Minus(a, o) >= Minus(b, o)
           /\ seqGreater(a, b) <=> Minus(a, o) > Minus(b, o)
           /\ Minus(seqMax(a, b), o) =
                 IF Minus(a, o) >= Minus(b, o) THEN Minus(a, o) ELSE Minus(b, o)
           /\ a = b <=> Minus(a, o) = Minus(b, o)
           /\ Minus(a, o) <= Minus(b, o) => Minus(b, a) = Minus(b, o) - Minus(a, o)
BY HalfFacts DEF SeqNo, Minus, seqLE, seqLess, seqGE, seqGreater, seqMax

\* Moving on by n adds n to the offset, short of a whole turn.
LEMMA OffsetPlus ==
    ASSUME NEW o \in SeqNo, NEW a \in SeqNo, NEW n \in Nat, Minus(a, o) + n < SeqMod
    PROVE  /\ Plus(a, n) \in SeqNo
           /\ Minus(Plus(a, n), o) = Minus(a, o) + n
BY HalfFacts DEF SeqNo, Minus, Plus

\* Offsets are natural numbers below SeqMod, and they determine the number.
LEMMA OffsetType ==
    ASSUME NEW o \in SeqNo, NEW a \in SeqNo
    PROVE  /\ Minus(a, o) \in Nat /\ Minus(a, o) < SeqMod
           /\ a = Plus(o, Minus(a, o))
           /\ Minus(o, o) = 0
BY HalfFacts DEF SeqNo, Minus, Plus

-----------------------------------------------------------------------------
(* The stream from one end to the other *)

\* What one end needs to know of the world: how many items its application has
\* sent and where its sequence numbers begin, the same of its peer, how far the
\* peer has sent and how far it has received.
View == [sent : Number, iss : SeqNo, peerSent : Number, peerIss : SeqNo,
         peerMax : Nat, peerNxt : Nat]

\* Where the sequence variables of c stand in the two streams: offset 0 is the
\* SYN, offset i item i, and the offset after the last item is the FIN.
Una(c, v) == Minus(c.snd_una, v.iss)
Nxt(c, v) == Minus(c.snd_nxt, v.iss)
Top(c, v) == Minus(c.snd_max, v.iss)
Beg(c, v) == Minus(c.begin, v.iss)
Rcv(c, v) == Minus(c.rcv_nxt, v.peerIss)

\* The items that have been delivered when offset r is the next one expected of a
\* stream of n items.
Delivered(r, n) == [i \in 1 .. (IF r = n + 2 THEN n ELSE r - 1) |-> i]

\* The send side: the variables are in order, the queue holds the items from
\* snd_una on, and a FIN has the number after the last item.
SendSide(c, v) ==
    /\ 1 <= Una(c, v) /\ Una(c, v) <= Nxt(c, v) /\ Nxt(c, v) <= Top(c, v)
    /\ Top(c, v) <= v.sent + 2
    /\ Beg(c, v) = IF Una(c, v) = v.sent + 2 THEN v.sent + 1 ELSE Una(c, v)
    /\ c.sendQueue = [i \in 1 .. v.sent + 1 - Beg(c, v) |-> Beg(c, v) + i - 1]
    /\ c.send_fin => /\ Minus(c.snd_fin_seq, v.iss) = v.sent + 1
                     /\ Top(c, v) = v.sent + 2 \/ Top(c, v) <= v.sent
    /\ Top(c, v) = v.sent + 2 => c.send_fin
    /\ c.fin_ack_rcvd <=> Una(c, v) = v.sent + 2

\* The receive side: what was delivered is the stream up to rcv_nxt, and what waits
\* in the queue belongs to it.
RecvSide(c, v) ==
    /\ 1 <= Rcv(c, v) /\ Rcv(c, v) <= v.peerMax /\ v.peerMax <= v.peerSent + 2
    /\ c.toApp = Delivered(Rcv(c, v), v.peerSent)
    /\ \A q \in c.receiveQueue :
          Minus(q[1], v.peerIss) = q[2] /\ q[2] <= v.peerSent /\ q[2] < v.peerMax
    /\ c.fin_rcvd => /\ Minus(c.rcv_fin_seq, v.peerIss) = v.peerSent + 1
                     /\ v.peerMax = v.peerSent + 2

\* A segment of an established connection, from an end that began at iss, has sent
\* n items and everything before offset max, and has received everything before
\* offset nxt of a stream that began at peerIss.
Piece(s, n, iss, max, peerIss, nxt) ==
    /\ s.flags \in {{"ACK"}, {"ACK", "FIN"}}
    /\ Minus(s.seqNo, iss) \in 1 .. max /\ Minus(s.ackNo, peerIss) \in 1 .. nxt
    /\ s.item # 0 => /\ s.item = Minus(s.seqNo, iss)
                     /\ s.item <= n /\ s.item < max
    /\ "FIN" \in s.flags => max = n + 2 /\ Minus(s.seqNo, iss) + PayloadLength(s) = n + 1

\* A segment of c, and one for c.
Mine(s, c, v) == Piece(s, v.sent, v.iss, Top(c, v), v.peerIss, Rcv(c, v))
Theirs(s, v) == Piece(s, v.peerSent, v.peerIss, v.peerMax, v.iss, v.peerNxt)

\* The invariant of one end of an established connection, at every point of a handler.
Flow(c, v) ==
    /\ c \in Connection(v.sent, v.peerSent) /\ ~c.failed /\ c.iss = v.iss
    /\ SendSide(c, v)
    /\ RecvSide(c, v)
    /\ Una(c, v) <= v.peerNxt /\ v.peerNxt <= Top(c, v)
    /\ \A s \in c.out : Mine(s, c, v)

\* Sending changes nothing but snd_nxt, snd_max, the REXMIT timer, the counters and out.
Same(c, d) ==
    /\ d.state = c.state /\ d.active = c.active /\ d.failed = c.failed /\ d.ind = c.ind
    /\ d.iss = c.iss /\ d.snd_una = c.snd_una /\ d.begin = c.begin
    /\ d.sendQueue = c.sendQueue
    /\ d.send_fin = c.send_fin /\ d.snd_fin_seq = c.snd_fin_seq
    /\ d.fin_ack_rcvd = c.fin_ack_rcvd
    /\ d.rcv_nxt = c.rcv_nxt /\ d.receiveQueue = c.receiveQueue
    /\ d.fin_rcvd = c.fin_rcvd /\ d.rcv_fin_seq = c.rcv_fin_seq
    /\ d.connEstabTimer = c.connEstabTimer /\ d.synRexmitTimer = c.synRexmitTimer
    /\ d.the2MSLTimer = c.the2MSLTimer /\ d.toApp = c.toApp

\* ... and moves snd_max forward only, together with snd_nxt.
Sends(c, d, v) ==
    /\ Same(c, d)
    /\ Top(c, v) <= Top(d, v)
    /\ Top(d, v) = Top(c, v) \/ Nxt(d, v) = Top(d, v)

\* The REXMIT timer runs exactly when something is outstanding.
TimerExact(c) == c.rexmitTimer <=> c.snd_una # c.snd_max

\* The numbers of a view.
LEMMA ViewTypes ==
    ASSUME NEW v \in View
    PROVE  /\ Half \in Nat
           /\ v.sent \in Nat /\ v.peerSent \in Nat /\ v.sent + 2 <= Half /\ v.peerSent + 2 <= Half
           /\ v.sent \in Number /\ v.peerSent \in Number
           /\ v.iss \in SeqNo /\ v.peerIss \in SeqNo /\ v.peerMax \in Nat /\ v.peerNxt \in Nat
BY HalfFacts DEF View, Number

\* The offsets of a connection are natural numbers.
LEMMA OffsetTypes ==
    ASSUME NEW v \in View, NEW c \in Connection(v.sent, v.peerSent)
    PROVE  /\ Una(c, v) \in Nat /\ Nxt(c, v) \in Nat /\ Top(c, v) \in Nat /\ Beg(c, v) \in Nat
           /\ Rcv(c, v) \in Nat
BY ViewTypes, ConnectionTypes, OffsetType DEF Una, Nxt, Top, Beg, Rcv

\* A segment stays one when more has been sent and received.
LEMMA PieceGrows ==
    ASSUME NEW s, NEW n \in Nat, NEW iss, NEW peerIss, NEW max \in Nat, NEW max2 \in Nat,
           NEW nxt \in Nat, NEW nxt2 \in Nat,
           max <= max2, max2 <= n + 2, nxt <= nxt2, Piece(s, n, iss, max, peerIss, nxt)
    PROVE  Piece(s, n, iss, max2, peerIss, nxt2)
BY DEF Piece

\* Sending leaves the invariant of the end alone if what it sends is in order.
LEMMA FlowSends ==
    ASSUME NEW v \in View, NEW c, Flow(c, v), NEW d \in Connection(v.sent, v.peerSent),
           Same(c, d), Una(c, v) <= Nxt(d, v), Nxt(d, v) <= Top(d, v),
           Top(c, v) <= Top(d, v), Top(d, v) <= v.sent + 2,
           c.send_fin => Top(d, v) = v.sent + 2 \/ Top(d, v) <= v.sent,
           Top(d, v) = v.sent + 2 => c.send_fin,
           \A s \in d.out : s \in c.out \/ Mine(s, d, v)
    PROVE  Flow(d, v)
<1>1. /\ Una(d, v) = Una(c, v) /\ Beg(d, v) = Beg(c, v) /\ Rcv(d, v) = Rcv(c, v)
  BY DEF Same, Una, Beg, Rcv
<1>2. SendSide(d, v)
  BY <1>1 DEF Flow, SendSide, Same
<1>3. RecvSide(d, v)
  BY <1>1 DEF Flow, RecvSide, Same
<1>4. \A s \in d.out : Mine(s, d, v)
  <2> SUFFICES ASSUME NEW s \in c.out PROVE Mine(s, d, v)
    OBVIOUS
  <2>1. Mine(s, c, v) /\ c \in Connection(v.sent, v.peerSent)
    BY DEF Flow
  <2>2. Rcv(c, v) <= Rcv(c, v) /\ v.sent \in Nat
    BY <2>1, OffsetTypes, ViewTypes
  <2> QED
    BY <1>1, <2>1, <2>2, OffsetTypes, PieceGrows DEF Mine
<1>5. v.peerNxt <= Top(d, v)
  BY ViewTypes, OffsetTypes DEF Flow
<1> QED
  BY <1>1, <1>2, <1>3, <1>4, <1>5 DEF Flow, Same

\* The end of the send queue is the place of the FIN, and what the buffer holds
\* from seq on is what is before it.
LEMMA QueueEnd ==
    ASSUME NEW v \in View, NEW c, Flow(c, v)
    PROVE  /\ BufferEndSeq(c) \in SeqNo
           /\ Minus(BufferEndSeq(c), v.iss) = v.sent + 1
           /\ Len(c.sendQueue) = v.sent + 1 - Beg(c, v)
           /\ \A seq \in SeqNo :
                Minus(seq, v.iss) <= v.sent + 2 =>
                  getBytesAvailable(c, seq) =
                    IF Minus(seq, v.iss) <= v.sent THEN v.sent + 1 - Minus(seq, v.iss) ELSE 0
<1> DEFINE N == v.sent
           b == Beg(c, v)
           L == N + 1 - b
           end == BufferEndSeq(c)
<1>0. /\ c \in Connection(v.sent, v.peerSent) /\ N \in Nat /\ N + 2 <= Half /\ Half \in Nat /\ v.iss \in SeqNo
      /\ b \in Nat /\ c.begin \in SeqNo
  BY ViewTypes, OffsetTypes, ConnectionTypes DEF Flow
<1>1. 1 <= b /\ b <= N + 1 /\ L \in Nat
  <2>1. /\ Una(c, v) \in Nat /\ 1 <= Una(c, v) /\ Una(c, v) <= N + 2
        /\ b = IF Una(c, v) = N + 2 THEN N + 1 ELSE Una(c, v)
    BY <1>0, OffsetTypes DEF Flow, SendSide
  <2> HIDE DEF b
  <2> QED BY <1>0, <2>1
<1>2. Len(c.sendQueue) = L
  <2>1. c.sendQueue = [i \in 1 .. L |-> b + i - 1]
    BY DEF Flow, SendSide
  <2> HIDE DEF b, L
  <2> QED BY <1>1, <2>1
<1>3. end \in SeqNo /\ Minus(end, v.iss) = N + 1
  <2>1. end = Plus(c.begin, L)
    BY <1>2 DEF BufferEndSeq
  <2>2. Minus(c.begin, v.iss) = b
    BY DEF Beg
  <2> HIDE DEF b, end
  <2>3. Minus(c.begin, v.iss) + L < SeqMod
    BY <1>0, <1>1, <2>2, HalfFacts
  <2>4. end \in SeqNo /\ Minus(end, v.iss) = Minus(c.begin, v.iss) + L
    BY <1>0, <1>1, <2>1, <2>3, OffsetPlus
  <2> QED BY <1>0, <1>1, <2>2, <2>4
<1>4. ASSUME NEW seq \in SeqNo, Minus(seq, v.iss) <= N + 2
      PROVE  getBytesAvailable(c, seq) =
                IF Minus(seq, v.iss) <= N THEN N + 1 - Minus(seq, v.iss) ELSE 0
  <2> DEFINE o == Minus(seq, v.iss)
  <2>1. o \in Nat
    BY <1>0, OffsetType
  <2>2. o - (N + 1) < Half /\ (N + 1) - o < Half
    <3> HIDE DEF o
    <3> QED BY <1>0, <1>4, <2>1 DEF o
  <2>3. /\ seqLess(seq, end) <=> o < N + 1
        /\ o <= N + 1 => Minus(end, seq) = N + 1 - o
    <3>1. Minus(end, v.iss) - Minus(seq, v.iss) < Half /\ Minus(seq, v.iss) - Minus(end, v.iss) < Half
      BY <1>3, <2>2
    <3> HIDE DEF end
    <3>2. /\ seqLess(seq, end) <=> Minus(seq, v.iss) < Minus(end, v.iss)
          /\ Minus(seq, v.iss) <= Minus(end, v.iss) =>
               Minus(end, seq) = Minus(end, v.iss) - Minus(seq, v.iss)
      BY <1>0, <1>3, <3>1, Offsets
    <3> QED BY <1>0, <1>3, <2>1, <3>2
  <2>4. getBytesAvailable(c, seq) = IF seqLess(seq, end) THEN Minus(end, seq) ELSE 0
    BY DEF getBytesAvailable
  <2> HIDE DEF o, end
  <2> QED BY <1>0, <2>1, <2>3, <2>4 DEF o
<1> QED
  BY <1>2, <1>3, <1>4

\* sendSegments: the next k items leave, each with its number, and the FIN with the last.
LEMMA SegmentsFlow ==
    ASSUME NEW v \in View, NEW c, Flow(c, v),
           NEW k \in Nat, 1 <= k, Nxt(c, v) + k <= v.sent + 1
    PROVE  LET d == sendSegments(c, k)
           IN  /\ d \in Connection(v.sent, v.peerSent)
               /\ Same(c, d)
               /\ d.snd_max = c.snd_max /\ d.rexmitTimer = c.rexmitTimer
               /\ Nxt(d, v) = IF c.send_fin /\ Nxt(c, v) + k = v.sent + 1
                              THEN v.sent + 2 ELSE Nxt(c, v) + k
               /\ \A s \in d.out :
                     \/ s \in c.out
                     \/ \A max \in Nat : Nxt(d, v) <= max /\ max <= v.sent + 2 =>
                           Piece(s, v.sent, v.iss, max, v.peerIss, Rcv(c, v))
<1> DEFINE N == v.sent
           x == Nxt(c, v)
           b == Beg(c, v)
           next == Plus(c.snd_nxt, k)
           fin == c.send_fin /\ next = c.snd_fin_seq
           data(i) ==
                 Seg(IF fin /\ i = k - 1 THEN {"ACK", "FIN"} ELSE {"ACK"},
                     Plus(c.snd_nxt, i), c.rcv_nxt,
                     c.sendQueue[Minus(c.snd_nxt, c.begin) + i + 1])
           a == IF fin THEN Plus(next, 1) ELSE next
           f == c.afterRto /\ ~seqGE(next, c.snd_max)
           o == c.out \cup {data(i) : i \in 0 .. k - 1}
           d == [c EXCEPT !.snd_nxt = a, !.afterRto = f, !.out = o]
<1>0. /\ c \in Connection(v.sent, v.peerSent) /\ N \in Nat /\ N \in Number /\ N + 2 <= Half /\ Half \in Nat /\ v.iss \in SeqNo
      /\ v.peerIss \in SeqNo
      /\ b \in Nat /\ x \in Nat /\ c.begin \in SeqNo /\ c.snd_nxt \in SeqNo /\ c.snd_fin_seq \in SeqNo
      /\ c.rcv_nxt \in SeqNo /\ c.send_fin \in BOOLEAN
  BY ViewTypes, OffsetTypes, ConnectionTypes DEF Flow, Connection
<1>1. 1 <= b /\ b <= x /\ x + k <= N + 1 /\ x <= N
  <2>1. /\ Una(c, v) \in Nat /\ 1 <= Una(c, v) /\ Una(c, v) <= x
        /\ b = IF Una(c, v) = N + 2 THEN N + 1 ELSE Una(c, v)
    BY <1>0, OffsetTypes DEF Flow, SendSide
  <2>2. x + k <= N + 1
    OBVIOUS
  <2> HIDE DEF b, x
  <2> QED BY <1>0, <2>1, <2>2
<1>2. seqLE(c.begin, c.snd_nxt) /\ Minus(c.snd_nxt, c.begin) = x - b
  <2>1. Minus(c.begin, v.iss) = b /\ Minus(c.snd_nxt, v.iss) = x
    BY DEF Beg, Nxt
  <2> HIDE DEF b, x
  <2>2. Minus(c.begin, v.iss) - Minus(c.snd_nxt, v.iss) < Half /\ Minus(c.snd_nxt, v.iss) - Minus(c.begin, v.iss) < Half
    BY <1>0, <1>1, <2>1
  <2>3. /\ seqLE(c.begin, c.snd_nxt) <=> Minus(c.begin, v.iss) <= Minus(c.snd_nxt, v.iss)
        /\ Minus(c.begin, v.iss) <= Minus(c.snd_nxt, v.iss) =>
              Minus(c.snd_nxt, c.begin) = Minus(c.snd_nxt, v.iss) - Minus(c.begin, v.iss)
    BY <1>0, <2>2, Offsets
  <2> QED BY <1>1, <2>1, <2>3
<1>3. sendSegments(c, k) = d
  BY <1>2 DEF sendSegments
<1>4. next \in SeqNo /\ Minus(next, v.iss) = x + k
  <2>1. Minus(c.snd_nxt, v.iss) = x
    BY DEF Nxt
  <2> HIDE DEF x
  <2>2. Minus(c.snd_nxt, v.iss) + k < SeqMod
    BY <1>0, <1>1, <2>1, HalfFacts
  <2> QED BY <1>0, <2>1, <2>2, OffsetPlus
<1>5. fin <=> c.send_fin /\ x + k = N + 1
  <2> HIDE DEF next, x
  <2>1. c.send_fin => Minus(c.snd_fin_seq, v.iss) = N + 1
    BY DEF Flow, SendSide
  <2>2. c.send_fin => (next = c.snd_fin_seq <=> Minus(next, v.iss) = N + 1)
    <3>1. next = c.snd_fin_seq => Minus(next, v.iss) = Minus(c.snd_fin_seq, v.iss)
      OBVIOUS
    <3>2. Minus(next, v.iss) = Minus(c.snd_fin_seq, v.iss) => next = c.snd_fin_seq
      BY <1>0, <1>4, OffsetType
    <3> QED BY <2>1, <3>1, <3>2
  <2> QED BY <1>4, <2>2
<1>6. a \in SeqNo /\ Minus(a, v.iss) = IF fin THEN N + 2 ELSE x + k
  <2> HIDE DEF next, x
  <2>1. Minus(next, v.iss) + 1 < SeqMod
    BY <1>0, <1>1, <1>4, HalfFacts
  <2>2. Plus(next, 1) \in SeqNo /\ Minus(Plus(next, 1), v.iss) = x + k + 1
    BY <1>0, <1>4, <2>1, OffsetPlus
  <2> HIDE DEF fin
  <2> QED BY <1>0, <1>4, <1>5, <2>2
<1>7. k \in 1 .. getBytesAvailable(c, c.snd_nxt)
  <2>1. x = Minus(c.snd_nxt, v.iss)
    BY DEF Nxt
  <2> HIDE DEF x
  <2>2. getBytesAvailable(c, c.snd_nxt) = N + 1 - x
    BY <1>0, <1>1, <2>1, QueueEnd
  <2> QED BY <1>0, <1>1, <2>2
<1>8. d \in Connection(v.sent, v.peerSent)
  <2>1. sendSegments(c, k) \in Connection(v.sent, v.peerSent)
    BY <1>0, <1>7, SendSegments DEF Sender
  <2> QED BY <1>3, <2>1
<1>9. /\ Same(c, d) /\ d.snd_max = c.snd_max /\ d.rexmitTimer = c.rexmitTimer
      /\ d.snd_nxt = a /\ d.out = o
  <2> HIDE DEF a, f, o
  <2> QED BY <1>0 DEF Connection, Same
<1>10. ASSUME NEW i \in 0 .. k - 1, NEW max \in Nat,
              (IF fin THEN N + 2 ELSE x + k) <= max, max <= N + 2
       PROVE  Piece(data(i), N, v.iss, max, v.peerIss, Rcv(c, v))
  <2> DEFINE fl == IF fin /\ i = k - 1 THEN {"ACK", "FIN"} ELSE {"ACK"}
             p == Plus(c.snd_nxt, i)
             it == c.sendQueue[Minus(c.snd_nxt, c.begin) + i + 1]
  <2>1. p \in SeqNo /\ Minus(p, v.iss) = x + i
    <3>1. Minus(c.snd_nxt, v.iss) = x
      BY DEF Nxt
    <3> HIDE DEF x
    <3>2. Minus(c.snd_nxt, v.iss) + i < SeqMod /\ i \in Nat
      BY <1>0, <1>1, <3>1, HalfFacts
    <3> QED BY <1>0, <3>1, <3>2, OffsetPlus
  <2>2. it = x + i
    <3>1. c.sendQueue = [j \in 1 .. N + 1 - b |-> b + j - 1]
      BY DEF Flow, SendSide
    <3> HIDE DEF x, b
    <3>2. (x - b) + i + 1 \in 1 .. N + 1 - b
      BY <1>0, <1>1
    <3>3. it = b + ((x - b) + i + 1) - 1
      BY <1>2, <3>1, <3>2
    <3> QED BY <1>0, <3>3
  <2>3. data(i) = [flags |-> fl, seqNo |-> p, ackNo |-> c.rcv_nxt, item |-> it]
    BY DEF Seg
  <2>4. Minus(c.rcv_nxt, v.peerIss) \in 1 .. Rcv(c, v)
    BY <1>0, OffsetTypes DEF Flow, RecvSide, Rcv
  <2>5. x + i <= N /\ 1 <= x + i /\ x + i < max /\ x + i \in Nat
    <3> HIDE DEF x, b, fin
    <3> QED BY <1>0, <1>1, <1>10, <1>5
  <2>6. fin /\ i = k - 1 => x + i + 1 = N + 1 /\ max = N + 2
    <3> HIDE DEF x, b, fin
    <3> QED BY <1>0, <1>1, <1>10, <1>5
  <2> DEFINE sg == data(i)
  <2>7. sg.flags = fl /\ sg.seqNo = p /\ sg.ackNo = c.rcv_nxt /\ sg.item = it
    BY <2>3
  <2>8. "FIN" \in fl => fin /\ i = k - 1
    OBVIOUS
  <2>9. fl \in {{"ACK"}, {"ACK", "FIN"}}
    OBVIOUS
  <2> HIDE DEF sg, fl, p, it, x, b, fin
  <2>10. PayloadLength(sg) = 1
    BY <2>2, <2>5, <2>7 DEF PayloadLength
  <2>11. Piece(sg, N, v.iss, max, v.peerIss, Rcv(c, v))
    BY <1>0, <1>10, <2>1, <2>2, <2>4, <2>5, <2>6, <2>7, <2>8, <2>9, <2>10 DEF Piece
  <2> QED BY <2>11 DEF sg
<1>11. Nxt(d, v) = IF fin THEN N + 2 ELSE x + k
  <2> HIDE DEF d, a
  <2> QED BY <1>6, <1>9 DEF Nxt
<1>12. ASSUME NEW s \in d.out
       PROVE  \/ s \in c.out
              \/ \A max \in Nat : Nxt(d, v) <= max /\ max <= v.sent + 2 =>
                           Piece(s, v.sent, v.iss, max, v.peerIss, Rcv(c, v))
  <2>1. s \in o
    <3> HIDE DEF o, d
    <3> QED BY <1>9
  <2>2. CASE s \in {data(i) : i \in 0 .. k - 1}
    <3> HIDE DEF data, d, fin, x
    <3> QED BY <2>2, <1>10, <1>11
  <2> HIDE DEF data
  <2> QED BY <2>1, <2>2
<1> HIDE DEF d, fin, x
<1> QED
  BY <1>3, <1>5, <1>8, <1>9, <1>11, <1>12 DEF x

\* Two sequence numbers are the same if their offsets are.
LEMMA SameOffset ==
    ASSUME NEW o \in SeqNo, NEW a \in SeqNo, NEW b \in SeqNo
    PROVE  a = b <=> Minus(a, o) = Minus(b, o)
BY HalfFacts DEF SeqNo, Minus

\* The numbers of an end that satisfies the invariant.
LEMMA FlowFacts ==
    ASSUME NEW v \in View, NEW c, Flow(c, v)
    PROVE  /\ c \in Connection(v.sent, v.peerSent)
           /\ Una(c, v) \in 1 .. v.sent + 2 /\ Nxt(c, v) \in 1 .. v.sent + 2
           /\ Top(c, v) \in 1 .. v.sent + 2 /\ Rcv(c, v) \in 1 .. v.peerSent + 2
           /\ Una(c, v) <= Nxt(c, v) /\ Nxt(c, v) <= Top(c, v)
           /\ {c.snd_una, c.snd_nxt, c.snd_max, c.rcv_nxt, c.begin, c.snd_fin_seq} \subseteq SeqNo
           /\ c.send_fin \in BOOLEAN /\ c.rexmitTimer \in BOOLEAN
           /\ c.snd_una = c.snd_max <=> Una(c, v) = Top(c, v)
<1>1. /\ c \in Connection(v.sent, v.peerSent)
      /\ Una(c, v) \in Nat /\ Nxt(c, v) \in Nat /\ Top(c, v) \in Nat /\ Rcv(c, v) \in Nat
      /\ v.sent \in Nat /\ v.peerSent \in Nat /\ v.peerMax \in Nat /\ v.iss \in SeqNo
  BY ViewTypes, OffsetTypes DEF Flow
<1>2. /\ {c.snd_una, c.snd_nxt, c.snd_max, c.rcv_nxt, c.begin, c.snd_fin_seq} \subseteq SeqNo
      /\ c.send_fin \in BOOLEAN /\ c.rexmitTimer \in BOOLEAN
  BY <1>1, ConnectionTypes DEF Connection
<1>3. c.snd_una = c.snd_max <=> Una(c, v) = Top(c, v)
  BY <1>1, <1>2, SameOffset DEF Una, Top
<1>4. /\ 1 <= Una(c, v) /\ Una(c, v) <= Nxt(c, v) /\ Nxt(c, v) <= Top(c, v)
      /\ Top(c, v) <= v.sent + 2
      /\ 1 <= Rcv(c, v) /\ Rcv(c, v) <= v.peerMax /\ v.peerMax <= v.peerSent + 2
  BY DEF Flow, SendSide, RecvSide
<1> QED
  BY <1>1, <1>2, <1>3, <1>4

\* sendData: the items leave, and the REXMIT timer runs for them.
LEMMA OutstandingFlow ==
    ASSUME NEW v \in View, NEW c, Flow(c, v),
           NEW k \in Nat, 1 <= k, Nxt(c, v) + k <= v.sent + 1
    PROVE  LET d == Outstanding(sendSegments(c, k))
           IN  Flow(d, v) /\ Sends(c, d, v) /\ TimerExact(d)
<1> DEFINE N == v.sent
           x == Nxt(c, v)
           e == sendSegments(c, k)
           y == IF c.send_fin /\ x + k = N + 1 THEN N + 2 ELSE x + k
           m == Top(c, v)
           t == seqMax(e.snd_max, e.snd_nxt)
           j == IF e.rexmitTimer THEN e.rexmit_count ELSE 0
           d == [e EXCEPT !.snd_max = t, !.rexmitTimer = TRUE, !.rexmit_count = j]
<1>0. /\ N \in Nat /\ N + 2 <= Half /\ Half \in Nat /\ N \in Number /\ v.iss \in SeqNo
      /\ v.peerIss \in SeqNo
      /\ c.send_fin \in BOOLEAN
  BY ViewTypes, FlowFacts
<1>1. /\ x \in Nat /\ m \in Nat /\ 1 <= x /\ x <= m /\ m <= N + 2 /\ Una(c, v) \in Nat
      /\ Una(c, v) <= x
  BY <1>0, FlowFacts
<1>2. /\ e \in Connection(v.sent, v.peerSent)
      /\ Same(c, e)
      /\ e.snd_max = c.snd_max /\ e.rexmitTimer = c.rexmitTimer
      /\ Nxt(e, v) = y
      /\ \A s \in e.out :
            \/ s \in c.out
            \/ \A max \in Nat : y <= max /\ max <= N + 2 =>
                  Piece(s, N, v.iss, max, v.peerIss, Rcv(c, v))
  BY SegmentsFlow
<1> HIDE DEF e
<1>3. /\ Top(e, v) = m /\ e.snd_max \in SeqNo /\ e.snd_nxt \in SeqNo /\ e.rexmit_count \in Nat
  BY <1>2, ConnectionTypes DEF Top
<1> HIDE DEF x, m
<1>4. y \in Nat /\ y <= N + 2 /\ x < y
  BY <1>0, <1>1 DEF x
<1> HIDE DEF y
<1>5. /\ t \in SeqNo
      /\ Minus(t, v.iss) = IF m >= y THEN m ELSE y
  <2>1. Minus(e.snd_max, v.iss) = m /\ Minus(e.snd_nxt, v.iss) = y
    BY <1>2, <1>3 DEF Top, Nxt
  <2>2. Minus(e.snd_max, v.iss) - Minus(e.snd_nxt, v.iss) < Half /\ Minus(e.snd_nxt, v.iss) - Minus(e.snd_max, v.iss) < Half
    BY <1>0, <1>1, <1>4, <2>1
  <2>3. Minus(t, v.iss) = IF Minus(e.snd_max, v.iss) >= Minus(e.snd_nxt, v.iss)
                          THEN Minus(e.snd_max, v.iss) ELSE Minus(e.snd_nxt, v.iss)
    BY <1>0, <1>3, <2>2, Offsets
  <2> QED BY <1>3, <2>1, <2>3, SeqMaxType
<1>6. Outstanding(e) = d
  BY DEF Outstanding
<1>7. j \in Nat
  BY <1>3
<1> HIDE DEF t, j
<1>8. /\ d \in Connection(v.sent, v.peerSent)
      /\ Same(e, d) /\ d.out = e.out /\ d.snd_nxt = e.snd_nxt /\ d.snd_max = t /\ d.rexmitTimer = TRUE
  BY <1>2, <1>5, <1>7 DEF Connection, Same
<1> HIDE DEF d
<1>9. Same(c, d) /\ Nxt(d, v) = y /\ Top(d, v) = (IF m >= y THEN m ELSE y) /\ Rcv(d, v) = Rcv(c, v)
  BY <1>2, <1>5, <1>8 DEF Same, Nxt, Top, Rcv
<1>10. Sends(c, d, v)
  BY <1>1, <1>4, <1>9 DEF Sends, m
<1>11. /\ c.send_fin => Top(d, v) = N + 2 \/ Top(d, v) <= N
       /\ Top(d, v) = N + 2 => c.send_fin
  <2>1. /\ c.send_fin => m = N + 2 \/ m <= N
        /\ m = N + 2 => c.send_fin
    BY DEF Flow, SendSide, m
  <2>2. x + k <= N + 1
    BY DEF x
  <2> QED BY <1>0, <1>1, <1>9, <2>1, <2>2 DEF y
<1>12. \A s \in d.out : s \in c.out \/ Mine(s, d, v)
  <2>1. Top(d, v) \in Nat /\ y <= Top(d, v) /\ Top(d, v) <= N + 2
    BY <1>1, <1>4, <1>9
  <2> QED BY <1>2, <1>8, <1>9, <2>1 DEF Mine
<1>13. Flow(d, v)
  <2>1. Una(c, v) <= Nxt(d, v) /\ Nxt(d, v) <= Top(d, v) /\ Top(c, v) <= Top(d, v) /\ Top(d, v) <= v.sent + 2
    BY <1>1, <1>4, <1>9 DEF m
  <2> QED BY <1>8, <1>9, <1>11, <1>12, <2>1, FlowSends
<1>14. TimerExact(d)
  <2>1. Una(d, v) = Una(c, v)
    BY <1>9 DEF Una, Same
  <2>2. Una(d, v) # Top(d, v)
    BY <1>1, <1>4, <1>9, <2>1
  <2>3. d.snd_una # d.snd_max
    BY <1>13, <2>2, FlowFacts
  <2> QED BY <1>8, <2>3 DEF TimerExact
<1> QED
  BY <1>6, <1>10, <1>13, <1>14 DEF e

\* A change of snd_nxt within what is outstanding.
LEMMA NxtFlow ==
    ASSUME NEW v \in View, NEW c, Flow(c, v), NEW a \in SeqNo,
           Una(c, v) <= Minus(a, v.iss), Minus(a, v.iss) <= Top(c, v)
    PROVE  LET d == [c EXCEPT !.snd_nxt = a]
           IN  /\ Flow(d, v) /\ Sends(c, d, v) /\ d.snd_nxt = a /\ Nxt(d, v) = Minus(a, v.iss)
               /\ Top(d, v) = Top(c, v) /\ d.snd_max = c.snd_max
               /\ TimerExact(c) => TimerExact(d)
<1> DEFINE d == [c EXCEPT !.snd_nxt = a]
<1>1. c \in Connection(v.sent, v.peerSent) /\ Top(c, v) \in Nat /\ Top(c, v) <= v.sent + 2
  BY FlowFacts, OffsetTypes DEF Flow, SendSide
<1>2. /\ d \in Connection(v.sent, v.peerSent) /\ Same(c, d) /\ d.snd_nxt = a
      /\ d.snd_max = c.snd_max /\ d.out = c.out /\ d.rexmitTimer = c.rexmitTimer
  BY <1>1 DEF Connection, Same
<1> HIDE DEF d
<1>3. Nxt(d, v) = Minus(a, v.iss) /\ Top(d, v) = Top(c, v)
  BY <1>2 DEF Nxt, Top
<1>4. Sends(c, d, v)
  BY <1>1, <1>2, <1>3 DEF Sends
<1>5. Flow(d, v)
  <2>1. /\ c.send_fin => Top(d, v) = v.sent + 2 \/ Top(d, v) <= v.sent
        /\ Top(d, v) = v.sent + 2 => c.send_fin
    BY <1>3 DEF Flow, SendSide
  <2> QED BY <1>1, <1>2, <1>3, <2>1, FlowSends
<1>6. TimerExact(c) => TimerExact(d)
  BY <1>2 DEF TimerExact, Same
<1> QED
  BY <1>2, <1>3, <1>4, <1>5, <1>6 DEF d

\* Sends is transitive.
LEMMA SendsTwice ==
    ASSUME NEW v \in View, NEW c, NEW d, NEW e, Flow(c, v), Flow(d, v), Flow(e, v),
           Sends(c, d, v), Sends(d, e, v),
           \/ Top(e, v) # Top(d, v)
           \/ Nxt(e, v) = Nxt(d, v)
           \/ Top(d, v) = Top(c, v)
    PROVE  Sends(c, e, v)
<1>1. Same(c, e)
  BY DEF Sends, Same
<1>2. Top(c, v) \in Nat /\ Top(d, v) \in Nat /\ Top(e, v) \in Nat
  BY OffsetTypes DEF Flow
<1> QED
  BY <1>1, <1>2 DEF Sends

\* A change of the counters and of the REXMIT timer.
LEMMA QuietFlow ==
    ASSUME NEW v \in View, NEW c, Flow(c, v), NEW d \in Connection(v.sent, v.peerSent),
           Same(c, d), d.snd_nxt = c.snd_nxt, d.snd_max = c.snd_max, d.out = c.out
    PROVE  /\ Flow(d, v) /\ Sends(c, d, v) /\ Nxt(d, v) = Nxt(c, v) /\ Top(d, v) = Top(c, v)
           /\ Una(d, v) = Una(c, v)
<1>1. Nxt(d, v) = Nxt(c, v) /\ Top(d, v) = Top(c, v) /\ Una(d, v) = Una(c, v)
  BY DEF Nxt, Top, Una, Same
<1>2. /\ Una(c, v) <= Nxt(c, v) /\ Nxt(c, v) <= Top(c, v) /\ Top(c, v) <= v.sent + 2
      /\ Top(c, v) \in Nat
      /\ c.send_fin => Top(d, v) = v.sent + 2 \/ Top(d, v) <= v.sent
      /\ Top(d, v) = v.sent + 2 => c.send_fin
  BY <1>1, OffsetTypes DEF Flow, SendSide
<1>3. Flow(d, v)
  BY <1>1, <1>2, FlowSends
<1>4. Sends(c, d, v)
  BY <1>1, <1>2 DEF Sends
<1> QED
  BY <1>1, <1>3, <1>4

\* An acknowledgement.
LEMMA AckFlow ==
    ASSUME NEW v \in View, NEW c, Flow(c, v)
    PROVE  LET d == sendAck(c)
           IN  /\ Flow(d, v) /\ Sends(c, d, v) /\ Nxt(d, v) = Nxt(c, v) /\ Top(d, v) = Top(c, v)
               /\ d.rexmitTimer = c.rexmitTimer /\ d.snd_max = c.snd_max /\ d.snd_nxt = c.snd_nxt
<1> DEFINE s == Seg({"ACK"}, c.snd_nxt, c.rcv_nxt, 0)
           o == c.out \cup {s}
           d == [c EXCEPT !.out = o]
<1>0. /\ c \in Connection(v.sent, v.peerSent) /\ v.sent \in Nat /\ v.sent \in Number
      /\ Nxt(c, v) \in Nat /\ Top(c, v) \in Nat /\ Rcv(c, v) \in Nat
      /\ 1 <= Una(c, v) /\ Una(c, v) \in Nat
      /\ Una(c, v) <= Nxt(c, v) /\ Nxt(c, v) <= Top(c, v) /\ Top(c, v) <= v.sent + 2
      /\ 1 <= Rcv(c, v)
  BY ViewTypes, OffsetTypes DEF Flow, SendSide, RecvSide
<1>1. sendAck(c) = d
  BY DEF sendAck, Emit
<1>2. d \in Connection(v.sent, v.peerSent)
  <2>1. sendAck(c) \in Connection(v.sent, v.peerSent)
    BY <1>0, SendControl DEF Sender
  <2> QED BY <1>1, <2>1
<1>3. Mine(s, c, v)
  <2>1. /\ s.flags = {"ACK"} /\ s.seqNo = c.snd_nxt /\ s.ackNo = c.rcv_nxt /\ s.item = 0
    BY DEF Seg
  <2> HIDE DEF s
  <2>2. Minus(s.seqNo, v.iss) \in 1 .. Top(c, v) /\ Minus(s.ackNo, v.peerIss) \in 1 .. Rcv(c, v)
    <3>1. Minus(s.seqNo, v.iss) = Nxt(c, v) /\ Minus(s.ackNo, v.peerIss) = Rcv(c, v)
      BY <2>1 DEF Nxt, Rcv
    <3> QED BY <1>0, <3>1
  <2> QED BY <2>1, <2>2 DEF Mine, Piece
<1> HIDE DEF s
<1>4. Same(c, d) /\ d.out = o /\ d.snd_nxt = c.snd_nxt /\ d.snd_max = c.snd_max
      /\ d.rexmitTimer = c.rexmitTimer
  <2> HIDE DEF o
  <2> QED BY <1>0 DEF Connection, Same
<1> HIDE DEF d
<1>5. Nxt(d, v) = Nxt(c, v) /\ Top(d, v) = Top(c, v) /\ Rcv(d, v) = Rcv(c, v)
  BY <1>4 DEF Nxt, Top, Rcv, Same
<1>6. \A r \in d.out : r \in c.out \/ Mine(r, d, v)
  BY <1>3, <1>4, <1>5 DEF Mine
<1>7. Flow(d, v)
  <2>1. /\ c.send_fin => Top(d, v) = v.sent + 2 \/ Top(d, v) <= v.sent
        /\ Top(d, v) = v.sent + 2 => c.send_fin
    BY <1>5 DEF Flow, SendSide
  <2> QED BY <1>0, <1>2, <1>4, <1>5, <1>6, <2>1, FlowSends
<1>8. Sends(c, d, v)
  BY <1>0, <1>4, <1>5 DEF Sends
<1> QED
  BY <1>1, <1>4, <1>5, <1>7, <1>8

\* sendData sends what the buffer holds and the window allows.
LEMMA DataFlow ==
    ASSUME NEW v \in View, NEW c, Flow(c, v), NEW win \in Windows
    PROVE  LET d == sendData(c, win)
           IN  /\ Flow(d, v) /\ Sends(c, d, v)
               /\ TimerExact(c) => TimerExact(d)
<1> DEFINE d == IF c.afterRto THEN c ELSE [c EXCEPT !.snd_nxt = c.snd_max]
           e == sendData(c, win)
<1>0. /\ c \in Connection(v.sent, v.peerSent) /\ v.sent \in Nat /\ v.sent \in Number /\ v.iss \in SeqNo
      /\ v.sent + 2 <= Half /\ Half \in Nat
      /\ c.snd_max \in SeqNo
      /\ Una(c, v) \in Nat /\ Nxt(c, v) \in Nat /\ Top(c, v) \in Nat
      /\ Una(c, v) <= Nxt(c, v) /\ Nxt(c, v) <= Top(c, v) /\ Top(c, v) <= v.sent + 2
  BY ViewTypes, FlowFacts, OffsetTypes
<1>1. /\ Flow(d, v) /\ Sends(c, d, v) /\ Top(d, v) = Top(c, v)
      /\ TimerExact(c) => TimerExact(d)
  <2>1. CASE c.afterRto
    <3>1. d = c /\ Sends(c, c, v)
      BY <1>0, <2>1 DEF Sends, Same
    <3> HIDE DEF d
    <3> QED BY <3>1
  <2>2. CASE ~c.afterRto
    <3> DEFINE a == c.snd_max
               g == [c EXCEPT !.snd_nxt = a]
    <3>1. a \in SeqNo /\ Una(c, v) <= Minus(a, v.iss) /\ Minus(a, v.iss) <= Top(c, v)
      BY <1>0 DEF Top
    <3>2. d = g
      BY <2>2
    <3> HIDE DEF d, a
    <3>3. /\ Flow(g, v) /\ Sends(c, g, v) /\ Top(g, v) = Top(c, v)
          /\ TimerExact(c) => TimerExact(g)
      BY <3>1, NxtFlow
    <3> QED BY <3>2, <3>3
  <2> QED BY <2>1, <2>2
<1>2. e = sendDataFromNxt(d, win)
  BY DEF sendData
<1> HIDE DEF d, e
<1>3. CASE BytesToSend(d, win) <= 0
  <2>1. e = d
    BY <1>2, <1>3 DEF sendDataFromNxt
  <2> QED BY <1>1, <2>1 DEF e
<1>4. CASE ~(BytesToSend(d, win) <= 0)
  <2> DEFINE k == BytesToSend(d, win)
             u == Minus(d.snd_nxt, d.snd_una)
  <2>1. d.snd_nxt \in SeqNo /\ d.snd_una \in SeqNo /\ Nxt(d, v) \in 1 .. v.sent + 2
    BY <1>1, FlowFacts
  <2>2. u \in Nat /\ win \in Nat
    BY <2>1, OffsetType, PairAssumption
  <2> DEFINE g == getBytesAvailable(d, d.snd_nxt)
  <2>3. g = IF Nxt(d, v) <= v.sent THEN v.sent + 1 - Nxt(d, v) ELSE 0
    <3>1. Minus(d.snd_nxt, v.iss) = Nxt(d, v) /\ Nxt(d, v) <= v.sent + 2
      BY <1>0, <2>1 DEF Nxt
    <3> QED BY <1>1, <2>1, <3>1, QueueEnd
  <2>4. k = IF win - u < g THEN win - u ELSE g
    BY DEF BytesToSend
  <2>5. k \in Nat /\ 1 <= k /\ Nxt(d, v) + k <= v.sent + 1
    <3> HIDE DEF k, u, g
    <3>1. k \in Int /\ ~(k <= 0)
      BY <1>0, <1>4, <2>1, <2>2, <2>3, <2>4 DEF k
    <3> QED BY <1>0, <2>1, <2>2, <2>3, <2>4, <3>1
  <2> DEFINE f == Outstanding(sendSegments(d, k))
  <2>6. e = f
    BY <1>2, <1>4 DEF sendDataFromNxt
  <2> HIDE DEF k
  <2>7. Flow(f, v) /\ Sends(d, f, v) /\ TimerExact(f)
    BY <1>1, <2>5, OutstandingFlow
  <2> HIDE DEF f
  <2>8. Sends(c, f, v)
    BY <1>1, <2>7, SendsTwice
  <2> QED BY <2>6, <2>7, <2>8 DEF e
<1> QED
  BY <1>3, <1>4

\* The FIN segment at the place of the FIN.
LEMMA FinPiece ==
    ASSUME NEW v \in View, NEW c, Rcv(c, v) \in Nat, 1 <= Rcv(c, v), Nxt(c, v) = v.sent + 1,
           NEW max, max = v.sent + 2
    PROVE  Piece(Seg({"FIN", "ACK"}, c.snd_nxt, c.rcv_nxt, 0), v.sent, v.iss, max, v.peerIss,
                 Rcv(c, v))
<1> DEFINE s == Seg({"FIN", "ACK"}, c.snd_nxt, c.rcv_nxt, 0)
<1>1. /\ s.flags = {"FIN", "ACK"} /\ s.seqNo = c.snd_nxt /\ s.ackNo = c.rcv_nxt /\ s.item = 0
  BY DEF Seg
<1> HIDE DEF s
<1>2. PayloadLength(s) = 0
  BY <1>1 DEF PayloadLength
<1>3. Minus(s.seqNo, v.iss) = v.sent + 1 /\ Minus(s.ackNo, v.peerIss) = Rcv(c, v)
  BY <1>1 DEF Nxt, Rcv
<1>4. s.flags = {"ACK", "FIN"}
  BY <1>1
<1> HIDE DEF Piece
<1>5. Piece(s, v.sent, v.iss, max, v.peerIss, Rcv(c, v))
  BY <1>1, <1>2, <1>3, <1>4, ViewTypes DEF Piece
<1> QED
  BY <1>5 DEF s

\* retransmitOneSegment finds something to retransmit.
LEMMA RetransmitFlow ==
    ASSUME NEW v \in View, NEW c, Flow(c, v), c.snd_una # c.snd_max, NEW called_at_rto \in BOOLEAN
    PROVE  LET d == retransmitOneSegment(c, called_at_rto)
           IN  /\ Flow(d, v) /\ Sends(c, d, v) /\ Top(d, v) = Top(c, v)
               /\ TimerExact(c) => TimerExact(d)
<1> DEFINE N == v.sent
           u == Una(c, v)
           m == Top(c, v)
           a == c.snd_una
           c1 == [c EXCEPT !.snd_nxt = a]
           end == BufferEndSeq(c)
           c2 == sendSegments(c1, 1)
           d == retransmitOneSegment(c, called_at_rto)
<1>0. /\ c \in Connection(v.sent, v.peerSent) /\ N \in Nat /\ N \in Number /\ v.iss \in SeqNo
      /\ N + 2 <= Half /\ Half \in Nat
      /\ a \in SeqNo /\ c.snd_max \in SeqNo /\ c.snd_nxt \in SeqNo /\ c.snd_fin_seq \in SeqNo
      /\ u \in Nat /\ m \in Nat /\ 1 <= u /\ u < m /\ m <= N + 2
      /\ c.send_fin => m = N + 2 \/ m <= N
      /\ m = N + 2 => c.send_fin
      /\ c.send_fin => Minus(c.snd_fin_seq, v.iss) = N + 1
  <2>1. /\ c.send_fin => m = N + 2 \/ m <= N
        /\ m = N + 2 => c.send_fin
        /\ c.send_fin => Minus(c.snd_fin_seq, v.iss) = N + 1
    BY DEF Flow, SendSide
  <2>2. u # m /\ u \in 1 .. N + 2 /\ m \in 1 .. N + 2 /\ u <= Nxt(c, v) /\ Nxt(c, v) <= m
        /\ Nxt(c, v) \in 1 .. N + 2 /\ N \in Nat
    BY FlowFacts, ViewTypes
  <2> HIDE DEF u, m
  <2>3. u \in Nat /\ m \in Nat /\ 1 <= u /\ u < m /\ m <= N + 2
    BY <2>2
  <2> QED BY <2>1, <2>3, FlowFacts, ViewTypes
<1>1. Minus(a, v.iss) = u
  BY DEF Una
<1> HIDE DEF u, a
<1>2. /\ Flow(c1, v) /\ Sends(c, c1, v) /\ Nxt(c1, v) = u
      /\ Top(c1, v) = m /\ c1.snd_max = c.snd_max /\ c1.snd_nxt = a
      /\ TimerExact(c) => TimerExact(c1)
  <2>1. Una(c, v) <= Minus(a, v.iss) /\ Minus(a, v.iss) <= Top(c, v)
    BY <1>0, <1>1 DEF u
  <2> QED BY <1>0, <1>1, <2>1, NxtFlow
<1>3. getBytesAvailable(c1, a) = IF u <= N THEN N + 1 - u ELSE 0
  BY <1>0, <1>1, <1>2, QueueEnd
<1> HIDE DEF m
<1>4. CASE u <= N
  <2>1. getBytesAvailable(c1, c.snd_una) # 0
    BY <1>0, <1>3, <1>4 DEF a
  <2> DEFINE y == IF c1.send_fin /\ u + 1 = N + 1 THEN N + 2 ELSE u + 1
             b == seqMax(c.snd_nxt, c2.snd_nxt)
             c3 == [c2 EXCEPT !.snd_nxt = b]
  <2>2. d = IF called_at_rto THEN c2 ELSE c3
    BY <2>1 DEF retransmitOneSegment, a
  <2> HIDE DEF c1, d
  <2>3. /\ c2 \in Connection(v.sent, v.peerSent)
        /\ Same(c1, c2)
        /\ c2.snd_max = c1.snd_max /\ c2.rexmitTimer = c1.rexmitTimer
        /\ Nxt(c2, v) = y
        /\ \A s \in c2.out :
              \/ s \in c1.out
              \/ \A max \in Nat : y <= max /\ max <= N + 2 =>
                    Piece(s, N, v.iss, max, v.peerIss, Rcv(c1, v))
    BY <1>0, <1>2, <1>4, SegmentsFlow
  <2> HIDE DEF c2
  <2>4. c1.send_fin = c.send_fin
    BY <1>2 DEF Sends, Same
  <2>5. u <= y /\ y <= m /\ y \in Nat
    BY <1>0, <1>4, <2>4
  <2> HIDE DEF y
  <2>6. Top(c2, v) = m /\ Una(c1, v) = u /\ Rcv(c2, v) = Rcv(c1, v) /\ Una(c2, v) = u
    BY <1>1, <1>2, <2>3 DEF Top, Una, Rcv, Sends, Same, a
  <2>7. \A s \in c2.out : s \in c1.out \/ Mine(s, c2, v)
    BY <1>0, <2>3, <2>5, <2>6 DEF Mine
  <2>8. Flow(c2, v)
    <3>1. /\ Una(c1, v) <= Nxt(c2, v) /\ Nxt(c2, v) <= Top(c2, v) /\ Top(c1, v) <= Top(c2, v)
          /\ Top(c2, v) <= v.sent + 2
          /\ c1.send_fin => Top(c2, v) = v.sent + 2 \/ Top(c2, v) <= v.sent
          /\ Top(c2, v) = v.sent + 2 => c1.send_fin
      BY <1>0, <1>2, <2>3, <2>4, <2>5, <2>6
    <3> QED BY <1>2, <2>3, <2>7, <3>1, FlowSends
  <2>9. /\ Sends(c, c2, v)
        /\ TimerExact(c) => TimerExact(c2)
    <3>1. Sends(c1, c2, v)
      BY <1>0, <1>2, <2>3, <2>6 DEF Sends
    <3>2. Sends(c, c2, v)
      BY <1>2, <2>6, <2>8, <3>1, SendsTwice DEF m
    <3> QED BY <1>2, <2>3, <3>2 DEF TimerExact, Same
  <2>10. CASE called_at_rto
    BY <2>2, <2>6, <2>8, <2>9, <2>10 DEF d, m
  <2>11. CASE ~called_at_rto
    <3>0. c2.snd_nxt \in SeqNo /\ Nxt(c, v) \in Nat /\ u <= Nxt(c, v) /\ Nxt(c, v) <= m
      BY <1>0, <2>3, FlowFacts, ConnectionTypes, OffsetTypes DEF u, m
    <3>1. b \in SeqNo /\ Minus(b, v.iss) = IF Nxt(c, v) >= y THEN Nxt(c, v) ELSE y
      <4>1. Minus(c.snd_nxt, v.iss) = Nxt(c, v) /\ Minus(c2.snd_nxt, v.iss) = y
        BY <2>3 DEF Nxt
      <4>2. Minus(c.snd_nxt, v.iss) - Minus(c2.snd_nxt, v.iss) < Half /\ Minus(c2.snd_nxt, v.iss) - Minus(c.snd_nxt, v.iss) < Half
        BY <1>0, <2>5, <3>0, <4>1
      <4>3. Minus(b, v.iss) = IF Minus(c.snd_nxt, v.iss) >= Minus(c2.snd_nxt, v.iss)
                              THEN Minus(c.snd_nxt, v.iss) ELSE Minus(c2.snd_nxt, v.iss)
        BY <1>0, <3>0, <4>2, Offsets
      <4> QED BY <1>0, <3>0, <4>1, <4>3, SeqMaxType
    <3> HIDE DEF b
    <3>2. Una(c2, v) <= Minus(b, v.iss) /\ Minus(b, v.iss) <= Top(c2, v)
      BY <1>0, <2>5, <2>6, <3>0, <3>1
    <3>3. /\ Flow(c3, v) /\ Sends(c2, c3, v) /\ Top(c3, v) = m
          /\ TimerExact(c2) => TimerExact(c3)
      BY <2>6, <2>8, <3>1, <3>2, NxtFlow
    <3> HIDE DEF c3
    <3>4. Sends(c, c3, v)
      BY <2>6, <2>8, <2>9, <3>3, SendsTwice DEF m
    <3> QED BY <2>2, <2>9, <2>11, <3>3, <3>4 DEF d, m
  <2> QED BY <2>10, <2>11
<1>5. CASE ~(u <= N)
  <2>1. u = N + 1 /\ m = N + 2 /\ c.send_fin
    BY <1>0, <1>5
  <2>2. getBytesAvailable(c1, c.snd_una) = 0
    BY <1>3, <1>5 DEF a
  <2>3. end \in SeqNo /\ Minus(end, v.iss) = N + 1
    BY QueueEnd
  <2>4. c.snd_fin_seq = end
    BY <1>0, <2>1, <2>3, SameOffset
  <2> HIDE DEF end
  <2> DEFINE d1 == [c1 EXCEPT !.snd_nxt = end]
             b == Plus(end, 1)
             s == Seg({"FIN", "ACK"}, d1.snd_nxt, d1.rcv_nxt, 0)
             o == d1.out \cup {s}
             d2 == [d1 EXCEPT !.out = o]
             d3 == [d2 EXCEPT !.snd_nxt = b, !.snd_max = b]
  <2>5. d = [sendFin(d1) EXCEPT !.snd_nxt = b, !.snd_max = b]
    BY <2>1, <2>2, <2>4 DEF retransmitOneSegment, a, end
  <2>6. sendFin(d1) = d2
    BY DEF sendFin, Emit
  <2> HIDE DEF c1
  <2>7. /\ Flow(d1, v) /\ Sends(c1, d1, v) /\ d1.snd_nxt = end /\ Nxt(d1, v) = N + 1
        /\ Top(d1, v) = m /\ d1.snd_max = c1.snd_max
        /\ TimerExact(c1) => TimerExact(d1)
    <3>1. Una(c1, v) = u
      BY <1>2 DEF Sends, Same, Una, u
    <3>2. Una(c1, v) <= Minus(end, v.iss) /\ Minus(end, v.iss) <= Top(c1, v)
      BY <1>0, <1>2, <2>1, <2>3, <3>1
    <3> QED BY <1>2, <2>3, <3>2, NxtFlow
  <2> HIDE DEF d1, d
  <2>8. b \in SeqNo /\ Minus(b, v.iss) = N + 2
    <3>1. Minus(end, v.iss) + 1 < SeqMod
      BY <1>0, <2>3, HalfFacts
    <3> QED BY <1>0, <2>3, <3>1, OffsetPlus
  <2>9. b = c.snd_max
    <3>1. Minus(c.snd_max, v.iss) = N + 2
      BY <2>1 DEF m, Top
    <3> QED BY <1>0, <2>8, <3>1, SameOffset
  <2> HIDE DEF b
  <2>10. d1 \in Connection(v.sent, v.peerSent) /\ d1.rcv_nxt \in SeqNo
    BY <2>7, FlowFacts
  <2>11. s \in Segment(0 .. N)
    <3>1. 0 \in 0 .. N /\ {"FIN", "ACK"} \in SUBSET Flag
      BY <1>0 DEF Flag
    <3>2. d1.snd_nxt \in SeqNo
      BY <2>3, <2>7
    <3> QED BY <1>0, <2>10, <3>1, <3>2, SegType
  <2>12. Piece(s, N, v.iss, m, v.peerIss, Rcv(d1, v))
    <3>1. Rcv(d1, v) \in Nat /\ 1 <= Rcv(d1, v)
      BY <2>7, <2>10, OffsetTypes DEF Flow, RecvSide
    <3> QED BY <2>1, <2>7, <3>1, FinPiece
  <2> HIDE DEF s
  <2>13. o \in Outgoing(v.sent)
    BY <2>10, <2>11 DEF Outgoing, Connection
  <2> HIDE DEF o
  <2>14. /\ d3 \in Connection(v.sent, v.peerSent) /\ Same(d1, d3) /\ d3.snd_nxt = b /\ d3.snd_max = b
         /\ d3.out = o /\ d3.rexmitTimer = d1.rexmitTimer
    BY <2>8, <2>10, <2>13 DEF Connection, Same
  <2> HIDE DEF d3
  <2>15. Nxt(d3, v) = N + 2 /\ Top(d3, v) = m /\ Rcv(d3, v) = Rcv(d1, v) /\ d1.send_fin
    <3>1. d1.send_fin
      BY <1>2, <2>1, <2>7 DEF Sends, Same
    <3> QED BY <2>1, <2>8, <2>14, <3>1 DEF Nxt, Top, Rcv, Same
  <2>16. \A r \in d3.out : r \in d1.out \/ Mine(r, d3, v)
    BY <2>12, <2>14, <2>15 DEF Mine, o
  <2>17. Flow(d3, v)
    <3>1. Una(d1, v) <= N + 2
      BY <1>0, <2>7, FlowFacts
    <3> QED BY <1>0, <2>1, <2>7, <2>14, <2>15, <2>16, <3>1, FlowSends
  <2>18. Sends(d1, d3, v)
    BY <1>0, <2>7, <2>14, <2>15 DEF Sends
  <2>19. Sends(c, d1, v)
    BY <1>2, <2>7, SendsTwice DEF m
  <2>20. Sends(c, d3, v)
    BY <2>7, <2>15, <2>17, <2>18, <2>19, SendsTwice DEF m
  <2>21. TimerExact(c) => TimerExact(d3)
    BY <1>2, <2>7, <2>9, <2>14 DEF TimerExact, Same
  <2>22. d = d3
    BY <2>5, <2>6 DEF d3
  <2> QED BY <2>15, <2>17, <2>20, <2>21, <2>22 DEF d, m
<1> QED
  BY <1>4, <1>5

\* The count of duplicate ACKs.
LEMMA DupAcksFlow ==
    ASSUME NEW v \in View, NEW c, Flow(c, v), NEW k \in DupAcks
    PROVE  LET d == [c EXCEPT !.dupacks = k]
           IN  /\ Flow(d, v) /\ Sends(c, d, v) /\ Nxt(d, v) = Nxt(c, v) /\ Top(d, v) = Top(c, v)
               /\ d.snd_una = c.snd_una /\ d.snd_max = c.snd_max
               /\ d.rexmitTimer = c.rexmitTimer
<1> DEFINE d == [c EXCEPT !.dupacks = k]
<1>1. c \in Connection(v.sent, v.peerSent)
  BY DEF Flow
<1>2. /\ d \in Connection(v.sent, v.peerSent) /\ Same(c, d)
      /\ d.snd_nxt = c.snd_nxt /\ d.snd_max = c.snd_max /\ d.out = c.out
      /\ d.rexmitTimer = c.rexmitTimer /\ d.snd_una = c.snd_una
  BY <1>1 DEF Connection, Same
<1> HIDE DEF d
<1> QED
  BY <1>2, QuietFlow DEF d

\* An ACK of something new: afterwards the REXMIT timer is right.
LEMMA NewAckFlow ==
    ASSUME NEW v \in View, NEW c, Flow(c, v), NEW win \in Windows
    PROVE  LET d == receivedDataAck(c, win)
           IN  Flow(d, v) /\ Sends(c, d, v) /\ TimerExact(d)
<1> DEFINE c1 == IF c.snd_una = c.snd_max THEN [c EXCEPT !.rexmitTimer = FALSE]
                                          ELSE startRexmitTimer(c)
           c2 == sendData(c1, win)
           c3 == [c2 EXCEPT !.dupacks = 0]
<1>0. c \in Connection(v.sent, v.peerSent) /\ 0 \in DupAcks
  BY ConnectionAssumption DEF Flow, DupAcks
<1>1. /\ c1 \in Connection(v.sent, v.peerSent) /\ Same(c, c1)
      /\ c1.snd_nxt = c.snd_nxt /\ c1.snd_max = c.snd_max /\ c1.out = c.out
      /\ c1.snd_una = c.snd_una
      /\ c1.rexmitTimer <=> c.snd_una # c.snd_max
  <2>1. CASE c.snd_una = c.snd_max
    <3>1. c1 = [c EXCEPT !.rexmitTimer = FALSE]
      BY <2>1
    <3> HIDE DEF c1
    <3> QED BY <1>0, <2>1, <3>1 DEF Connection, Same
  <2>2. CASE c.snd_una # c.snd_max
    <3>1. c1 = [c EXCEPT !.rexmitTimer = TRUE, !.rexmit_count = 0]
      BY <2>2 DEF startRexmitTimer
    <3> HIDE DEF c1
    <3> QED BY <1>0, <2>2, <3>1 DEF Connection, Same
  <2> QED BY <2>1, <2>2
<1> HIDE DEF c1
<1>2. Flow(c1, v) /\ Sends(c, c1, v) /\ Top(c1, v) = Top(c, v) /\ TimerExact(c1)
  BY <1>1, QuietFlow DEF TimerExact
<1>3. Flow(c2, v) /\ Sends(c1, c2, v) /\ TimerExact(c2)
  BY <1>2, DataFlow
<1> HIDE DEF c2
<1>4. /\ Flow(c3, v) /\ Sends(c2, c3, v) /\ Top(c3, v) = Top(c2, v) /\ Nxt(c3, v) = Nxt(c2, v)
      /\ TimerExact(c3)
  BY <1>0, <1>3, DupAcksFlow DEF TimerExact
<1> HIDE DEF c3
<1>5. Sends(c, c2, v)
  BY <1>2, <1>3, SendsTwice
<1>6. Sends(c, c3, v)
  BY <1>3, <1>4, <1>5, SendsTwice
<1>7. receivedDataAck(c, win) = c3
  BY DEF receivedDataAck, c1, c2, c3
<1> QED
  BY <1>4, <1>6, <1>7

\* A duplicate ACK while something is outstanding.
LEMMA DuplicateAckFlow ==
    ASSUME NEW v \in View, NEW c, Flow(c, v), NEW win \in Windows, c.snd_una # c.snd_max,
           TimerExact(c)
    PROVE  LET d == receivedDuplicateAck(c, win)
           IN  Flow(d, v) /\ Sends(c, d, v) /\ TimerExact(d)
<1> DEFINE k == IF c.dupacks > DUPTHRESH THEN c.dupacks ELSE c.dupacks + 1
           c1 == [c EXCEPT !.dupacks = k]
           c2 == IF c1.dupacks = DUPTHRESH THEN retransmitOneSegment(c1, FALSE) ELSE c1
           c3 == sendData(c2, win)
<1>1. k \in DupAcks
  <2>1. c.dupacks \in 0 .. DUPTHRESH + 1
    BY ConnectionTypes DEF DupAcks, Flow
  <2> QED BY <2>1, ConnectionAssumption DEF DupAcks
<1>2. /\ Flow(c1, v) /\ Sends(c, c1, v) /\ Top(c1, v) = Top(c, v) /\ TimerExact(c1)
      /\ c1.snd_una # c1.snd_max
  <2> HIDE DEF k
  <2> QED BY <1>1, DupAcksFlow DEF TimerExact
<1> HIDE DEF c1
<1>3. Flow(c2, v) /\ Sends(c1, c2, v) /\ Top(c2, v) = Top(c1, v) /\ TimerExact(c2)
  <2>1. Sends(c1, c1, v)
    <3>1. Top(c1, v) \in Nat
      BY <1>2, OffsetTypes DEF Flow
    <3> QED BY <3>1 DEF Sends, Same
  <2> QED BY <1>2, <2>1, RetransmitFlow
<1> HIDE DEF c2
<1>4. Flow(c3, v) /\ Sends(c2, c3, v) /\ TimerExact(c3)
  BY <1>3, DataFlow
<1> HIDE DEF c3
<1>5. Sends(c, c2, v)
  BY <1>2, <1>3, SendsTwice
<1>6. Sends(c, c3, v)
  BY <1>2, <1>3, <1>4, <1>5, SendsTwice
<1>7. receivedDuplicateAck(c, win) \in {c1, c3}
  BY DEF receivedDuplicateAck, c1, c2, c3
<1> QED
  BY <1>2, <1>4, <1>6, <1>7

\* What an acknowledgement does not touch.
SameEnd(c, d) ==
    /\ d.state = c.state /\ d.active = c.active /\ d.failed = c.failed /\ d.ind = c.ind
    /\ d.iss = c.iss /\ d.send_fin = c.send_fin /\ d.snd_fin_seq = c.snd_fin_seq
    /\ d.rcv_nxt = c.rcv_nxt /\ d.receiveQueue = c.receiveQueue
    /\ d.fin_rcvd = c.fin_rcvd /\ d.rcv_fin_seq = c.rcv_fin_seq
    /\ d.connEstabTimer = c.connEstabTimer /\ d.synRexmitTimer = c.synRexmitTimer
    /\ d.the2MSLTimer = c.the2MSLTimer /\ d.toApp = c.toApp

\* The items a to n in a row.
Items(a, n) == [i \in 1 .. n + 1 - a |-> a + i - 1]

\* What is left of them when those before item a + k have gone.
LEMMA ItemsLeft ==
    ASSUME NEW n \in Nat, NEW a \in Nat, NEW k \in Nat, a + k <= n + 1
    PROVE  SubSeq(Items(a, n), k + 1, Len(Items(a, n))) = Items(a + k, n)
<1> DEFINE q == Items(a, n)
           r == Items(a + k, n)
           L == n + 1 - a
<1>1. L \in Nat /\ n + 1 - (a + k) \in Nat /\ n + 1 - (a + k) = L - k
  OBVIOUS
<1>2. q = [i \in 1 .. L |-> a + i - 1] /\ r = [i \in 1 .. L - k |-> a + k + i - 1]
  BY <1>1 DEF Items
<1>3. q \in Seq(Nat) /\ Len(q) = L
  <2>1. \A i \in 1 .. L : a + i - 1 \in Nat
    BY <1>1
  <2> HIDE DEF L, q
  <2> QED BY <1>1, <1>2, <2>1
<1> DEFINE p == SubSeq(q, k + 1, L)
<1>4. p = [i \in 1 .. L - k |-> q[i + k]]
  <2> HIDE DEF L, q
  <2> QED BY <1>1, <1>3
<1>5. ASSUME NEW i \in 1 .. L - k PROVE q[i + k] = a + k + i - 1
  <2>1. i + k \in 1 .. L
    BY <1>1
  <2> HIDE DEF L, q
  <2> QED BY <1>1, <1>2, <2>1
<1> HIDE DEF q, r, L, p
<1>6. p = r
  BY <1>2, <1>4, <1>5
<1> QED
  BY <1>3, <1>6 DEF p, q, r

\* An ACK of something new: snd_una moves up to it and what it covers leaves the
\* queue.
LEMMA UnaFlow ==
    ASSUME NEW v \in View, NEW c, Flow(c, v), NEW s \in Segment(0 .. v.peerSent), Theirs(s, v),
           Una(c, v) < Minus(s.ackNo, v.iss)
    PROVE  LET fin == AcksFin(c, s)
               d == discardUpTo(
                       [c EXCEPT !.snd_una = s.ackNo,
                                 !.snd_nxt = seqMax(@, s.ackNo),
                                 !.fin_ack_rcvd = @ \/ fin],
                       IF fin THEN c.snd_fin_seq ELSE s.ackNo)
           IN  /\ Flow(d, v) /\ SameEnd(c, d) /\ Una(d, v) = Minus(s.ackNo, v.iss)
               /\ Top(d, v) = Top(c, v) /\ d.snd_una = s.ackNo
<1> DEFINE N == v.sent
           fin == AcksFin(c, s)
           j == Minus(s.ackNo, v.iss)
           u == Una(c, v)
           x == Nxt(c, v)
           m == Top(c, v)
           a == seqMax(c.snd_nxt, s.ackNo)
           f == c.fin_ack_rcvd \/ fin
           c0 == [c EXCEPT !.snd_una = s.ackNo, !.snd_nxt = a, !.fin_ack_rcvd = f]
           q == IF fin THEN c.snd_fin_seq ELSE s.ackNo
           d == discardUpTo(c0, q)
           end == BufferEndSeq(c)
<1>0. /\ c \in Connection(v.sent, v.peerSent) /\ N \in Nat /\ N \in Number /\ v.iss \in SeqNo
      /\ N + 2 <= Half /\ Half \in Nat /\ v.peerNxt \in Nat
      /\ s.ackNo \in SeqNo /\ c.snd_nxt \in SeqNo /\ c.begin \in SeqNo /\ c.snd_fin_seq \in SeqNo
      /\ c.snd_una \in SeqNo
      /\ c.send_fin \in BOOLEAN /\ c.fin_ack_rcvd \in BOOLEAN
      /\ j \in Nat
  BY ViewTypes, FlowFacts, ConnectionTypes, OffsetType DEF Segment
<1>1. /\ u \in Nat /\ x \in Nat /\ m \in Nat /\ 1 <= u /\ u <= x /\ x <= m /\ m <= N + 2
      /\ u < j /\ j <= m /\ j <= v.peerNxt
  <2>1. u \in 1 .. N + 2 /\ x \in 1 .. N + 2 /\ m \in 1 .. N + 2 /\ u <= x /\ x <= m
    BY FlowFacts
  <2>2. j \in 1 .. v.peerNxt
    BY DEF Theirs, Piece
  <2>3. u < j /\ v.peerNxt <= m
    BY DEF Flow
  <2> HIDE DEF u, x, m, j
  <2> QED BY <1>0, <2>1, <2>2, <2>3
<1>2. /\ Beg(c, v) = u
      /\ c.sendQueue = Items(u, N)
      /\ c.send_fin => Minus(c.snd_fin_seq, v.iss) = N + 1
      /\ m = N + 2 => c.send_fin
      /\ c.send_fin => m = N + 2 \/ m <= N
      /\ ~c.fin_ack_rcvd
  <2>1. u # N + 2
    <3> HIDE DEF u, m, j
    <3> QED BY <1>0, <1>1
  <2>2. Beg(c, v) = IF u = N + 2 THEN N + 1 ELSE u
    BY DEF Flow, SendSide
  <2>3. c.sendQueue = [i \in 1 .. N + 1 - Beg(c, v) |-> Beg(c, v) + i - 1]
    BY DEF Flow, SendSide
  <2>4. Beg(c, v) = u
    BY <2>1, <2>2
  <2>5. c.sendQueue = Items(u, N)
    <3> HIDE DEF u
    <3> QED BY <2>3, <2>4 DEF Items
  <2>6. /\ c.send_fin => Minus(c.snd_fin_seq, v.iss) = N + 1
        /\ m = N + 2 => c.send_fin
        /\ c.send_fin => m = N + 2 \/ m <= N
        /\ c.fin_ack_rcvd <=> u = N + 2
    BY DEF Flow, SendSide
  <2> QED BY <2>1, <2>4, <2>5, <2>6
<1>3. fin <=> j = N + 2
  <2>1. c.send_fin => Plus(c.snd_fin_seq, 1) \in SeqNo /\ Minus(Plus(c.snd_fin_seq, 1), v.iss) = N + 2
    <3> SUFFICES ASSUME c.send_fin
                 PROVE  Plus(c.snd_fin_seq, 1) \in SeqNo /\ Minus(Plus(c.snd_fin_seq, 1), v.iss) = N + 2
      OBVIOUS
    <3>1. Minus(c.snd_fin_seq, v.iss) + 1 < SeqMod
      BY <1>0, <1>2, HalfFacts
    <3>2. /\ Plus(c.snd_fin_seq, 1) \in SeqNo
          /\ Minus(Plus(c.snd_fin_seq, 1), v.iss) = Minus(c.snd_fin_seq, v.iss) + 1
      BY <1>0, <3>1, OffsetPlus
    <3> QED BY <1>0, <1>2, <3>2
  <2>2. c.send_fin => (fin <=> j = N + 2)
    <3>1. fin <=> c.send_fin /\ s.ackNo = Plus(c.snd_fin_seq, 1)
      BY DEF AcksFin
    <3> HIDE DEF fin
    <3> QED BY <1>0, <2>1, <3>1, SameOffset
  <2>3. ~c.send_fin => ~fin /\ j # N + 2
    <3>1. ~c.send_fin => m # N + 2
      BY <1>2
    <3>2. fin => c.send_fin
      BY DEF AcksFin
    <3> HIDE DEF m, j
    <3> QED BY <1>0, <1>1, <3>1, <3>2
  <2> QED BY <2>2, <2>3
<1> DEFINE y == IF j = N + 2 THEN N + 1 ELSE j
<1>4. /\ q \in SeqNo /\ Minus(q, v.iss) = y
      /\ u <= y /\ y <= N + 1 /\ y \in Nat
  <2>1. j = N + 2 => fin /\ c.send_fin
    BY <1>3 DEF AcksFin
  <2>2. q \in SeqNo /\ Minus(q, v.iss) = y
    <3> HIDE DEF fin
    <3> QED BY <1>0, <1>2, <1>3, <2>1
  <2>3. u <= y /\ y <= N + 1 /\ y \in Nat
    <3> HIDE DEF u, m, j
    <3> QED BY <1>0, <1>1
  <2> QED BY <2>2, <2>3
<1>5. /\ a \in SeqNo /\ Minus(a, v.iss) = IF x >= j THEN x ELSE j
  <2>1. Minus(c.snd_nxt, v.iss) = x /\ Minus(s.ackNo, v.iss) = j
    BY DEF Nxt
  <2> HIDE DEF j, x, u, m
  <2>2. Minus(c.snd_nxt, v.iss) - Minus(s.ackNo, v.iss) < Half /\ Minus(s.ackNo, v.iss) - Minus(c.snd_nxt, v.iss) < Half
    BY <1>0, <1>1, <2>1
  <2>3. Minus(a, v.iss) = IF Minus(c.snd_nxt, v.iss) >= Minus(s.ackNo, v.iss)
                          THEN Minus(c.snd_nxt, v.iss) ELSE Minus(s.ackNo, v.iss)
    BY <1>0, <2>2, Offsets
  <2> QED BY <1>0, <2>1, <2>3, SeqMaxType
<1>6. f \in BOOLEAN /\ (f <=> j = N + 2)
  BY <1>0, <1>2, <1>3 DEF AcksFin
<1> HIDE DEF a, f, fin, q
<1>7. /\ c0 \in Connection(v.sent, v.peerSent)
      /\ c0.snd_una = s.ackNo /\ c0.snd_nxt = a /\ c0.fin_ack_rcvd = f
      /\ c0.snd_max = c.snd_max /\ c0.begin = c.begin /\ c0.sendQueue = c.sendQueue
      /\ SameEnd(c, c0) /\ c0.out = c.out
  BY <1>0, <1>5, <1>6 DEF Connection, SameEnd
<1> HIDE DEF c0
<1>8. end \in SeqNo /\ Minus(end, v.iss) = N + 1 /\ Len(c.sendQueue) = N + 1 - u
      /\ BufferEndSeq(c0) = end
  <2>1. BufferEndSeq(c0) = end
    BY <1>7 DEF BufferEndSeq
  <2>2. end \in SeqNo /\ Minus(end, v.iss) = N + 1 /\ Len(c.sendQueue) = N + 1 - u
    BY <1>2, QueueEnd
  <2> QED BY <2>1, <2>2
<1> HIDE DEF end
<1>9. /\ seqLE(c.begin, q) /\ seqLE(q, end) /\ Minus(q, c.begin) = y - u
  <2>1. Minus(c.begin, v.iss) = u
    BY <1>2 DEF Beg
  <2> HIDE DEF j, u, x, m, y
  <2>0. /\ u \in Nat /\ y \in Nat /\ 1 <= u /\ u <= y /\ y <= N + 1 /\ N \in Nat /\ Half \in Nat
        /\ N + 2 <= Half
    BY <1>0, <1>1, <1>4
  <2>2. /\ Minus(c.begin, v.iss) - Minus(q, v.iss) < Half /\ Minus(q, v.iss) - Minus(c.begin, v.iss) < Half
        /\ Minus(end, v.iss) - Minus(q, v.iss) < Half /\ Minus(q, v.iss) - Minus(end, v.iss) < Half
        /\ Minus(c.begin, v.iss) <= Minus(q, v.iss) /\ Minus(q, v.iss) <= Minus(end, v.iss)
    <3>1. Minus(q, v.iss) = y /\ Minus(end, v.iss) = N + 1
      BY <1>4, <1>8
    <3> QED BY <2>0, <2>1, <3>1
  <2>3. /\ seqLE(c.begin, q) /\ Minus(q, c.begin) = Minus(q, v.iss) - Minus(c.begin, v.iss)
    BY <1>0, <1>4, <2>2, Offsets
  <2>4. seqLE(q, end)
    BY <1>0, <1>4, <1>8, <2>2, Offsets
  <2> QED BY <1>4, <2>1, <2>3, <2>4
<1> DEFINE g == SubSeq(c.sendQueue, y - u + 1, Len(c.sendQueue))
           e == [c0 EXCEPT !.begin = q, !.sendQueue = g]
<1>10. d = e
  BY <1>7, <1>8, <1>9 DEF discardUpTo
<1>11. d \in Connection(v.sent, v.peerSent)
  BY <1>0, <1>4, <1>7, Discard DEF Sender
<1>12. g = Items(y, N)
  <2>1. y - u \in Nat /\ u + (y - u) = y /\ y <= N + 1
    <3> HIDE DEF y, u
    <3> QED BY <1>0, <1>1, <1>4
  <2> HIDE DEF y, u
  <2>2. u \in Nat /\ N \in Nat
    BY <1>0, <1>1
  <2>3. SubSeq(Items(u, N), (y - u) + 1, Len(Items(u, N))) = Items(u + (y - u), N)
    BY <2>1, <2>2, ItemsLeft
  <2> QED BY <1>2, <2>1, <2>3
<1> HIDE DEF g
<1>13. /\ d.begin = q /\ d.sendQueue = g
       /\ d.snd_una = s.ackNo /\ d.snd_nxt = a /\ d.fin_ack_rcvd = f
       /\ d.snd_max = c.snd_max
       /\ SameEnd(c, d) /\ d.out = c.out
  <2>1. /\ e.begin = q /\ e.sendQueue = g
        /\ e.snd_una = c0.snd_una /\ e.snd_nxt = c0.snd_nxt /\ e.fin_ack_rcvd = c0.fin_ack_rcvd
        /\ e.snd_max = c0.snd_max /\ SameEnd(c0, e) /\ e.out = c0.out
    BY <1>7 DEF Connection, SameEnd
  <2> HIDE DEF e, d
  <2>2. SameEnd(c, e)
    BY <1>7, <2>1 DEF SameEnd
  <2> QED BY <1>7, <1>10, <2>1, <2>2
<1> HIDE DEF d
<1>14. /\ Una(d, v) = j /\ Nxt(d, v) = (IF x >= j THEN x ELSE j) /\ Top(d, v) = m /\ Beg(d, v) = y
       /\ Rcv(d, v) = Rcv(c, v)
  BY <1>4, <1>5, <1>13 DEF Una, Nxt, Top, Beg, Rcv, SameEnd
<1>15. SendSide(d, v)
  <2>1. d.sendQueue = [i \in 1 .. N + 1 - y |-> y + i - 1]
    <3> HIDE DEF y
    <3> QED BY <1>12, <1>13 DEF Items
  <2>2. /\ d.send_fin = c.send_fin /\ d.snd_fin_seq = c.snd_fin_seq
    BY <1>13 DEF SameEnd
  <2>3. y = IF j = N + 2 THEN N + 1 ELSE j
    OBVIOUS
  <2> HIDE DEF j, x, m, u, y
  <2> QED BY <1>0, <1>1, <1>2, <1>6, <1>13, <1>14, <2>1, <2>2, <2>3 DEF SendSide
<1>16. RecvSide(d, v)
  BY <1>13, <1>14 DEF RecvSide, SameEnd, Flow
<1>17. \A r \in d.out : Mine(r, d, v)
  BY <1>13, <1>14 DEF Mine, Flow
<1>18. Flow(d, v)
  <2>1. v.peerNxt <= m /\ ~c.failed /\ c.iss = v.iss
    BY DEF Flow
  <2> HIDE DEF j, m
  <2> QED BY <1>1, <1>11, <1>13, <1>14, <1>15, <1>16, <1>17, <2>1 DEF Flow, SameEnd
<1> QED
  BY <1>13, <1>14, <1>18 DEF d, c0, a, f, fin, q

\* d differs from c in the state, the indications, the timers and the counters only.
SameFlow(c, d) ==
    /\ d.failed = c.failed /\ d.iss = c.iss
    /\ d.snd_una = c.snd_una /\ d.snd_nxt = c.snd_nxt /\ d.snd_max = c.snd_max
    /\ d.begin = c.begin /\ d.sendQueue = c.sendQueue
    /\ d.send_fin = c.send_fin /\ d.snd_fin_seq = c.snd_fin_seq
    /\ d.fin_ack_rcvd = c.fin_ack_rcvd
    /\ d.rcv_nxt = c.rcv_nxt /\ d.receiveQueue = c.receiveQueue
    /\ d.fin_rcvd = c.fin_rcvd /\ d.rcv_fin_seq = c.rcv_fin_seq
    /\ d.toApp = c.toApp /\ d.out = c.out

\* That leaves the invariant of the end alone.
LEMMA SameFlowFlow ==
    ASSUME NEW v \in View, NEW c, Flow(c, v), NEW d \in Connection(v.sent, v.peerSent),
           SameFlow(c, d)
    PROVE  /\ Flow(d, v) /\ Una(d, v) = Una(c, v) /\ Nxt(d, v) = Nxt(c, v)
           /\ Top(d, v) = Top(c, v) /\ Rcv(d, v) = Rcv(c, v)
<1>1. /\ Una(d, v) = Una(c, v) /\ Nxt(d, v) = Nxt(c, v)
      /\ Top(d, v) = Top(c, v) /\ Rcv(d, v) = Rcv(c, v) /\ Beg(d, v) = Beg(c, v)
  BY DEF SameFlow, Una, Nxt, Top, Rcv, Beg
<1>2. SendSide(d, v)
  BY <1>1 DEF Flow, SameFlow, SendSide
<1>3. RecvSide(d, v)
  BY <1>1 DEF Flow, SameFlow, RecvSide
<1>4. \A s \in d.out : Mine(s, d, v)
  BY <1>1 DEF Flow, SameFlow, Mine
<1> QED
  BY <1>1, <1>2, <1>3, <1>4 DEF Flow, SameFlow

\* snd_max moves forward only, together with snd_nxt.
Forward(c, d, v) ==
    /\ Top(c, v) <= Top(d, v)
    /\ Top(d, v) = Top(c, v) \/ Nxt(d, v) = Top(d, v)

\* What a handler that only sends and processes acknowledgements leaves alone.
LEMMA SameIsSameEnd ==
    ASSUME NEW c, NEW d, Same(c, d)
    PROVE  SameEnd(c, d) /\ d.snd_una = c.snd_una
BY DEF Same, SameEnd

\* Step five, on an established connection: snd_una moves up to what the peer has
\* acknowledged, which was sent, and unless text comes with the segment, the REXMIT
\* timer is right afterwards.
LEMMA AckFiveFlow ==
    ASSUME NEW v \in View, NEW c, Flow(c, v), TimerExact(c), c.state # "SYN_RCVD",
           NEW s \in Segment(0 .. v.peerSent), Theirs(s, v), NEW win \in Windows
    PROVE  LET d == processAckInEstabEtc(c, s, win)
               j == Minus(s.ackNo, v.iss)
           IN  /\ ~AcksUnsent(c, s)
               /\ Flow(d, v) /\ SameEnd(c, d) /\ Forward(c, d, v)
               /\ Una(d, v) = IF Una(c, v) < j THEN j ELSE Una(c, v)
               /\ PayloadLength(s) # 0 => Top(d, v) = Top(c, v)
               /\ PayloadLength(s) = 0 \/ Una(d, v) = Una(c, v) => TimerExact(d)
<1> DEFINE j == Minus(s.ackNo, v.iss)
           u == Una(c, v)
           m == Top(c, v)
           fin == AcksFin(c, s)
           c1 == discardUpTo(
                       [c EXCEPT !.snd_una = s.ackNo,
                                 !.snd_nxt = seqMax(@, s.ackNo),
                                 !.fin_ack_rcvd = @ \/ fin],
                       IF fin THEN c.snd_fin_seq ELSE s.ackNo)
           d == processAckInEstabEtc(c, s, win)
<1>0. /\ j \in Nat /\ 1 <= j /\ j <= v.peerNxt /\ v.peerNxt <= m /\ u \in Nat /\ u <= m
      /\ m \in Nat /\ m <= v.sent + 2 /\ v.sent + 2 <= Half /\ Half \in Nat /\ v.sent \in Nat
      /\ v.peerNxt \in Nat /\ 1 <= u
      /\ s.ackNo \in SeqNo /\ c.snd_una \in SeqNo /\ c.snd_max \in SeqNo /\ v.iss \in SeqNo
  <2>1. j \in 1 .. v.peerNxt
    BY DEF Theirs, Piece
  <2>2. s.ackNo \in SeqNo
    BY DEF Segment
  <2>3. v.peerNxt <= m
    BY DEF Flow
  <2>4. u \in 1 .. v.sent + 2 /\ m \in 1 .. v.sent + 2 /\ u <= Nxt(c, v) /\ Nxt(c, v) <= m
        /\ Nxt(c, v) \in 1 .. v.sent + 2
    BY FlowFacts
  <2> HIDE DEF j, u, m
  <2> QED BY <2>1, <2>2, <2>3, <2>4, ViewTypes, FlowFacts
<1>1. /\ seqGE(c.snd_una, s.ackNo) <=> j <= u
      /\ seqLE(s.ackNo, c.snd_max)
      /\ c.snd_una = s.ackNo <=> u = j
  <2>1. Minus(c.snd_una, v.iss) = u /\ Minus(c.snd_max, v.iss) = m /\ Minus(s.ackNo, v.iss) = j
    BY DEF Una, Top
  <2> HIDE DEF j, u, m
  <2>2. /\ Minus(c.snd_una, v.iss) - Minus(s.ackNo, v.iss) < Half
        /\ Minus(s.ackNo, v.iss) - Minus(c.snd_una, v.iss) < Half
        /\ Minus(c.snd_max, v.iss) - Minus(s.ackNo, v.iss) < Half
        /\ Minus(s.ackNo, v.iss) - Minus(c.snd_max, v.iss) < Half
        /\ Minus(s.ackNo, v.iss) <= Minus(c.snd_max, v.iss)
    BY <1>0, <2>1
  <2>3. /\ seqGE(c.snd_una, s.ackNo) <=> Minus(c.snd_una, v.iss) >= Minus(s.ackNo, v.iss)
        /\ c.snd_una = s.ackNo <=> Minus(c.snd_una, v.iss) = Minus(s.ackNo, v.iss)
    BY <1>0, <2>2, Offsets
  <2>4. seqLE(s.ackNo, c.snd_max)
    BY <1>0, <2>2, Offsets
  <2> QED BY <1>0, <2>1, <2>3, <2>4
<1>2. ~AcksUnsent(c, s)
  BY <1>1 DEF AcksUnsent
<1>3. CASE j <= u
  <2>0. /\ seqGE(c.snd_una, s.ackNo)
        /\ (IF u < j THEN j ELSE u) = u
    <3> HIDE DEF j, u, m
    <3> QED BY <1>0, <1>1, <1>3
  <2>1. CASE c.snd_una = s.ackNo /\ PayloadLength(s) = 0 /\ c.snd_una # c.snd_max
    <3>1. d = receivedDuplicateAck(c, win)
      BY <2>0, <2>1 DEF processAckInEstabEtc
    <3> DEFINE e == receivedDuplicateAck(c, win)
    <3>2. Flow(e, v) /\ Sends(c, e, v) /\ TimerExact(e)
      BY <2>1, DuplicateAckFlow
    <3> HIDE DEF e, d
    <3>3. d = e
      BY <3>1 DEF e
    <3>4. Una(d, v) = u /\ SameEnd(c, d) /\ Forward(c, d, v)
      BY <3>2, <3>3, SameIsSameEnd DEF Una, Sends, Forward
    <3> QED BY <1>2, <2>0, <2>1, <3>2, <3>3, <3>4 DEF d
  <2>2. CASE ~(c.snd_una = s.ackNo /\ PayloadLength(s) = 0 /\ c.snd_una # c.snd_max)
    <3> DEFINE e == [c EXCEPT !.dupacks = 0]
    <3>1. d = e
      BY <2>0, <2>2 DEF processAckInEstabEtc
    <3>2. 0 \in DupAcks
      BY ConnectionAssumption DEF DupAcks
    <3>3. /\ Flow(e, v) /\ Sends(c, e, v) /\ Top(e, v) = Top(c, v)
          /\ e.snd_una = c.snd_una /\ e.snd_max = c.snd_max /\ e.rexmitTimer = c.rexmitTimer
      BY <3>2, DupAcksFlow
    <3> HIDE DEF e, d
    <3>4. Una(d, v) = u /\ SameEnd(c, d) /\ Forward(c, d, v) /\ TimerExact(d)
      BY <3>1, <3>3, SameIsSameEnd DEF Una, Sends, Forward, TimerExact
    <3> QED BY <1>2, <2>0, <3>1, <3>3, <3>4 DEF d
  <2> QED BY <2>1, <2>2
<1>4. CASE u < j
  <2>0. /\ ~seqGE(c.snd_una, s.ackNo)
        /\ (IF u < j THEN j ELSE u) = j
    <3> HIDE DEF j, u, m
    <3> QED BY <1>0, <1>1, <1>4
  <2>1. /\ Flow(c1, v) /\ SameEnd(c, c1) /\ Una(c1, v) = j /\ Top(c1, v) = m
    BY <1>4, UnaFlow
  <2>2. d = IF PayloadLength(s) = 0 THEN receivedDataAck(c1, win) ELSE c1
    BY <2>0 DEF processAckInEstabEtc
  <2> HIDE DEF c1, d
  <2>3. CASE PayloadLength(s) = 0
    <3> DEFINE e == receivedDataAck(c1, win)
    <3>1. Flow(e, v) /\ Sends(c1, e, v) /\ TimerExact(e)
      BY <2>1, NewAckFlow
    <3> HIDE DEF e
    <3>2. d = e
      BY <2>2, <2>3 DEF e
    <3>3. Una(d, v) = j
      BY <2>1, <3>1, <3>2 DEF Una, Sends, Same
    <3>4. SameEnd(c, d)
      BY <2>1, <3>1, <3>2 DEF SameEnd, Sends, Same
    <3>5. Forward(c, d, v)
      BY <2>1, <3>1, <3>2 DEF Sends, Forward
    <3> QED BY <1>2, <2>0, <2>3, <3>1, <3>2, <3>3, <3>4, <3>5 DEF d
  <2>4. CASE PayloadLength(s) # 0
    <3>1. d = c1
      BY <2>2, <2>4
    <3>2. u # j
      <4> HIDE DEF u, j
      <4> QED BY <1>0, <1>4
    <3>3. Forward(c, d, v)
      <4> HIDE DEF u, j
      <4> QED BY <1>0, <2>1, <3>1 DEF Forward
    <3> QED BY <1>2, <2>0, <2>1, <2>4, <3>1, <3>2, <3>3 DEF d
  <2> QED BY <2>3, <2>4
<1>5. j <= u \/ u < j
  <2> HIDE DEF j, u
  <2> QED BY <1>0
<1> QED
  BY <1>3, <1>4, <1>5

\* The first r - 1 items and then k more.
LEMMA DeliverMore ==
    ASSUME NEW n \in Nat, NEW r \in Nat, NEW k \in Nat, 1 <= r, r + k <= n + 1
    PROVE  Delivered(r, n) \o [j \in 1 .. k |-> r + j - 1] = Delivered(r + k, n)
<1> DEFINE L == r - 1
           p == [i \in 1 .. L |-> i]
           q == [j \in 1 .. k |-> r + j - 1]
           t == [i \in 1 .. L + k |-> i]
<1>1. L \in Nat /\ L + k \in Nat
  OBVIOUS
<1>2. Delivered(r, n) = p /\ Delivered(r + k, n) = t
  <2>1. r # n + 2 /\ r + k # n + 2 /\ (r + k) - 1 = L + k
    OBVIOUS
  <2>2. Delivered(r, n) = [i \in 1 .. r - 1 |-> i] /\ Delivered(r + k, n) = [i \in 1 .. (r + k) - 1 |-> i]
    BY <2>1 DEF Delivered
  <2> QED BY <2>1, <2>2
<1>3. p \in Seq(Nat) /\ Len(p) = L
  <2> HIDE DEF L
  <2> QED BY <1>1
<1>4. q \in Seq(Nat) /\ Len(q) = k
  <2>1. \A j \in 1 .. k : r + j - 1 \in Nat
    OBVIOUS
  <2> QED BY <2>1
<1>5. p \o q = [i \in 1 .. L + k |-> IF i <= L THEN p[i] ELSE q[i - L]]
  <2> HIDE DEF L, p, q
  <2>1. p \o q \in Seq(Nat) /\ Len(p \o q) = L + k
    BY <1>1, <1>3, <1>4
  <2>2. \A i \in 1 .. L + k : (p \o q)[i] = IF i <= L THEN p[i] ELSE q[i - L]
    BY <1>1, <1>3, <1>4
  <2> DEFINE z == p \o q
  <2>3. z = [i \in 1 .. L + k |-> z[i]]
    <3> HIDE DEF z
    <3>1. z \in Seq(Nat) /\ Len(z) = L + k
      BY <2>1 DEF z
    <3> HIDE DEF L
    <3> QED BY <3>1
  <2> HIDE DEF p, q
  <2> QED BY <2>2, <2>3
<1>6. ASSUME NEW i \in 1 .. L + k
      PROVE  (IF i <= L THEN p[i] ELSE q[i - L]) = i
  <2>1. CASE i <= L
    <3>1. i \in 1 .. L
      BY <1>1, <2>1
    <3> HIDE DEF L
    <3> QED BY <2>1, <3>1
  <2>2. CASE ~(i <= L)
    <3>1. i - L \in 1 .. k /\ r + (i - L) - 1 = i
      BY <1>1, <2>2
    <3> HIDE DEF L
    <3> QED BY <2>2, <3>1
  <2> QED BY <2>1, <2>2
<1> HIDE DEF p, q, L
<1> QED
  BY <1>2, <1>5, <1>6 DEF q

\* What a handler of text does not touch.
SameSend(c, d) ==
    /\ d.state = c.state /\ d.active = c.active /\ d.failed = c.failed /\ d.ind = c.ind
    /\ d.iss = c.iss /\ d.snd_una = c.snd_una
    /\ d.begin = c.begin /\ d.sendQueue = c.sendQueue
    /\ d.send_fin = c.send_fin /\ d.snd_fin_seq = c.snd_fin_seq
    /\ d.fin_ack_rcvd = c.fin_ack_rcvd
    /\ d.fin_rcvd = c.fin_rcvd /\ d.rcv_fin_seq = c.rcv_fin_seq
    /\ d.connEstabTimer = c.connEstabTimer /\ d.synRexmitTimer = c.synRexmitTimer
    /\ d.the2MSLTimer = c.the2MSLTimer

\* The offsets of what waits in the receive queue: a text that is inside the window is
\* not before rcv_nxt.
LEMMA WindowOffset ==
    ASSUME NEW o \in SeqNo, NEW a \in SeqNo, NEW b \in SeqNo,
           Minus(a, o) <= Half, Minus(b, o) <= Half, Minus(b, a) \in 0 .. RcvWnd - 1
    PROVE  Minus(a, o) <= Minus(b, o)
BY HalfFacts, ConnectionAssumption DEF SeqNo, Minus

\* insertBytesFromSegment delivers the next items of the stream, in their order.
LEMMA InsertFlow ==
    ASSUME NEW v \in View, NEW c, Flow(c, v), Waiting(0, c),
           NEW s \in Segment(0 .. v.peerSent), Theirs(s, v), s.item # 0,
           Minus(s.seqNo, c.rcv_nxt) \in 0 .. RcvWnd - 1
    PROVE  LET d == insertBytesFromSegment(c, s)
           IN  /\ Flow(d, v) /\ SameSend(c, d)
               /\ d.snd_nxt = c.snd_nxt /\ d.snd_max = c.snd_max
               /\ d.rexmitTimer = c.rexmitTimer
               /\ Rcv(c, v) <= Rcv(d, v) /\ Rcv(c, v) <= v.peerSent
               /\ Rcv(d, v) <= v.peerSent + 1
               /\ Waiting(1, d)
<1> DEFINE N == v.sent
           P == v.peerSent
           J == v.peerIss
           r == Rcv(c, v)
           a == c.rcv_nxt
           q == c.receiveQueue \cup {<<s.seqNo, s.item>>}
           has(x) == \E z \in q : z[1] = x
           k == CHOOSE i \in 0 .. Cardinality(q) :
                    /\ \A j \in 0 .. i - 1 : has(Plus(a, j))
                    /\ ~has(Plus(a, i))
           item(j) == (CHOOSE z \in q : z[1] = Plus(a, j - 1))[2]
           b == Plus(a, k)
           p == {z \in q : \A j \in 0 .. k - 1 : z[1] # Plus(a, j)}
           t == c.toApp \o [j \in 1 .. k |-> item(j)]
           d == [c EXCEPT !.rcv_nxt = b, !.receiveQueue = p, !.toApp = t]
           dd == insertBytesFromSegment(c, s)
<1>0. /\ N \in Nat /\ P \in Nat /\ P + 2 <= Half /\ Half \in Nat /\ SeqMod = 2 * Half
      /\ J \in SeqNo /\ a \in SeqNo /\ s.seqNo \in SeqNo /\ s.item \in Nat /\ s.item >= 1
      /\ r \in Nat /\ 1 <= r /\ r <= P + 2 /\ r <= v.peerMax /\ v.peerMax \in Nat /\ v.peerMax <= P + 2
      /\ c \in Connection(N, P) /\ c.receiveQueue \in Received(P)
      /\ RcvWnd \in Nat /\ RcvWnd < Half /\ v \in View
  <2>1. s.seqNo \in SeqNo /\ s.item \in 0 .. v.peerSent
    BY DEF Segment
  <2>2. r \in 1 .. P + 2 /\ a \in SeqNo /\ c \in Connection(N, P)
    BY FlowFacts
  <2>3. r <= v.peerMax /\ v.peerMax <= P + 2
    BY DEF Flow, RecvSide
  <2>4. c.receiveQueue \in Received(P)
    BY <2>2, ConnectionTypes
  <2>5. /\ N \in Nat /\ P \in Nat /\ P + 2 <= Half /\ Half \in Nat /\ SeqMod = 2 * Half
        /\ J \in SeqNo /\ v.peerMax \in Nat
    BY ViewTypes, HalfFacts
  <2>6. RcvWnd \in Nat /\ RcvWnd < Half
    BY HalfFacts, ConnectionAssumption
  <2> HIDE DEF r
  <2>7. s.item \in Nat /\ s.item >= 1 /\ r \in Nat /\ 1 <= r /\ r <= P + 2
    BY <2>1, <2>2, <2>5
  <2> QED BY <2>1, <2>2, <2>3, <2>4, <2>5, <2>6, <2>7
<1>1. dd = d
  BY DEF insertBytesFromSegment
<1>2. dd \in Receiver(c, N, P) /\ Waiting(1, dd)
  BY <1>0, Insert
<1>3. q \in Received(P)
  <2> DEFINE T == 1 .. P
  <2>1. s.item \in T /\ c.receiveQueue \in SUBSET (SeqNo \X T)
    BY <1>0 DEF Received, Segment
  <2> HIDE DEF T
  <2>2. q \in SUBSET (SeqNo \X T)
    BY <1>0, <2>1
  <2> QED BY <2>2 DEF T, Received
<1>4. ASSUME NEW z \in q
      PROVE  /\ z[1] \in SeqNo /\ z[2] \in 1 .. P
             /\ Minus(z[1], J) = z[2] /\ z[2] < v.peerMax
             /\ Minus(z[1], a) \in 0 .. RcvWnd - 1
  <2>1. z[1] \in SeqNo /\ z[2] \in 1 .. P
    BY <1>0, <1>3, Pairs
  <2>2. CASE z \in c.receiveQueue
    BY <2>1, <2>2 DEF Flow, RecvSide, Waiting
  <2>3. CASE z = <<s.seqNo, s.item>>
    <3>1. s.item = Minus(s.seqNo, J) /\ s.item < v.peerMax
      BY DEF Theirs, Piece
    <3> QED BY <2>1, <2>3, <3>1
  <2> QED BY <2>2, <2>3
<1> HIDE DEF q
<1>5. r <= P
  <2>1. Minus(a, J) = r
    BY DEF Rcv
  <2>2. Minus(s.seqNo, J) = s.item /\ s.item <= P
    BY DEF Theirs, Piece
  <2> HIDE DEF a, r
  <2>3. Minus(a, J) <= Half /\ Minus(s.seqNo, J) <= Half
    BY <1>0, <2>1, <2>2
  <2>4. Minus(a, J) <= Minus(s.seqNo, J)
    BY <1>0, <2>3, WindowOffset DEF a
  <2> QED BY <1>0, <2>1, <2>2, <2>4
<1> HIDE DEF a
<1>6. \E i \in 0 .. Cardinality(q) :
          /\ i <= RcvWnd
          /\ \A j \in 0 .. i - 1 : has(Plus(a, j))
          /\ ~has(Plus(a, i))
  <2>1. \A z \in q : Minus(z[1], a) \in 0 .. RcvWnd - 1
    BY <1>4
  <2>2. a \in SeqNo /\ P \in Nat
    BY <1>0 DEF a
  <2> HIDE DEF r, P
  <2> QED BY <1>3, <2>1, <2>2, NextGap DEF P
<1>7. PICK e \in 0 .. Cardinality(q) :
          /\ e <= RcvWnd
          /\ \A j \in 0 .. e - 1 : has(Plus(a, j))
          /\ ~has(Plus(a, e))
  BY <1>6
<1>8. /\ k \in 0 .. Cardinality(q)
      /\ \A j \in 0 .. k - 1 : has(Plus(a, j))
      /\ ~has(Plus(a, k))
  <2> HIDE DEF has
  <2> QED BY <1>7
<1>9. k \in Nat /\ k <= RcvWnd
  <2> HIDE DEF has, k
  <2>1. k \in Nat /\ e \in Nat
    BY <1>7, <1>8
  <2>2. ~(k > e)
    <3> SUFFICES ASSUME k > e PROVE FALSE
      OBVIOUS
    <3>1. e \in 0 .. k - 1
      BY <2>1
    <3> QED BY <1>7, <1>8, <3>1
  <2> QED BY <1>0, <1>7, <2>1, <2>2
<1> HIDE DEF k
<1>10. ASSUME NEW j \in 0 .. k - 1
       PROVE  /\ j \in Nat /\ Minus(Plus(a, j), J) = r + j
              /\ \A z \in q : z[1] = Plus(a, j) => z[2] = r + j
              /\ r + j <= P /\ r + j < v.peerMax
  <2>1. j \in Nat /\ j < RcvWnd
    BY <1>0, <1>9
  <2>2. Minus(a, J) = r /\ a \in SeqNo
    BY <1>0 DEF Rcv, a
  <2> HIDE DEF r
  <2>3. Minus(a, J) + j < SeqMod
    BY <1>0, <2>1, <2>2
  <2>4. Minus(Plus(a, j), J) = r + j
    BY <1>0, <2>1, <2>2, <2>3, OffsetPlus
  <2>5. \A z \in q : z[1] = Plus(a, j) => z[2] = r + j
    BY <1>4, <2>4
  <2>6. PICK z \in q : z[1] = Plus(a, j)
    BY <1>8
  <2>7. z[2] = r + j /\ z[2] \in 1 .. P /\ z[2] < v.peerMax
    BY <1>4, <2>5, <2>6
  <2> QED BY <1>0, <2>1, <2>4, <2>5, <2>7
<1>11. r + k <= P + 1 /\ r + k <= v.peerMax
  <2>1. CASE k = 0
    <3> HIDE DEF r
    <3> QED BY <1>0, <1>5, <2>1
  <2>2. CASE k # 0
    <3>1. k - 1 \in 0 .. k - 1
      BY <1>9, <2>2
    <3>2. r + (k - 1) <= P /\ r + (k - 1) < v.peerMax
      BY <1>10, <3>1
    <3> HIDE DEF r
    <3> QED BY <1>0, <1>9, <3>2
  <2> QED BY <2>1, <2>2
<1>12. [j \in 1 .. k |-> item(j)] = [j \in 1 .. k |-> r + j - 1]
  <2>1. ASSUME NEW j \in 1 .. k PROVE item(j) = r + j - 1
    <3>1. j - 1 \in 0 .. k - 1
      BY <1>9
    <3>2. has(Plus(a, j - 1))
      BY <1>8, <3>1
    <3>3. /\ (CHOOSE z \in q : z[1] = Plus(a, j - 1)) \in q
          /\ (CHOOSE z \in q : z[1] = Plus(a, j - 1))[1] = Plus(a, j - 1)
      BY <3>2
    <3>4. item(j) = r + (j - 1)
      BY <1>10, <3>1, <3>3
    <3> HIDE DEF r, item
    <3> QED BY <1>0, <3>4
  <2> HIDE DEF item
  <2> QED BY <2>1
<1>13. c.toApp = Delivered(r, P)
  BY DEF Flow, RecvSide
<1>14. t = Delivered(r + k, P)
  <2>1. r + k <= P + 1
    BY <1>11
  <2> HIDE DEF r
  <2>2. Delivered(r, P) \o [j \in 1 .. k |-> r + j - 1] = Delivered(r + k, P)
    BY <1>0, <1>9, <2>1, DeliverMore
  <2> HIDE DEF item
  <2> QED BY <1>12, <1>13, <2>2 DEF r
<1>15. b \in SeqNo /\ Minus(b, J) = r + k
  <2>1. Minus(a, J) = r /\ a \in SeqNo
    BY <1>0 DEF Rcv, a
  <2> HIDE DEF r
  <2>2. Minus(a, J) + k < SeqMod
    BY <1>0, <1>9, <1>11, <2>1
  <2> QED BY <1>0, <1>9, <2>1, <2>2, OffsetPlus
<1>16. \A z \in p : z \in q
  OBVIOUS
<1> HIDE DEF b, p, t
<1>17. /\ d.rcv_nxt = b /\ d.receiveQueue = p /\ d.toApp = t
       /\ SameSend(c, d) /\ d.out = c.out
       /\ d.snd_nxt = c.snd_nxt /\ d.snd_max = c.snd_max /\ d.rexmitTimer = c.rexmitTimer
  BY <1>0 DEF Connection, SameSend
<1>18. d \in Connection(N, P) /\ Waiting(1, d)
  <2> HIDE DEF d, dd
  <2> QED BY <1>1, <1>2 DEF Receiver
<1> HIDE DEF d, dd
<1>19. /\ Rcv(d, v) = r + k
       /\ Una(d, v) = Una(c, v) /\ Nxt(d, v) = Nxt(c, v) /\ Top(d, v) = Top(c, v)
       /\ Beg(d, v) = Beg(c, v)
  BY <1>15, <1>17 DEF Rcv, Una, Nxt, Top, Beg, SameSend
<1>20. SendSide(d, v)
  BY <1>17, <1>19 DEF Flow, SendSide, SameSend
<1>21. RecvSide(d, v)
  <2>1. \A z \in d.receiveQueue : Minus(z[1], v.peerIss) = z[2] /\ z[2] <= v.peerSent /\ z[2] < v.peerMax
    <3> SUFFICES ASSUME NEW z \in p PROVE Minus(z[1], J) = z[2] /\ z[2] <= P /\ z[2] < v.peerMax
      BY <1>17
    <3>1. z[2] \in 1 .. P /\ Minus(z[1], J) = z[2] /\ z[2] < v.peerMax
      BY <1>4, <1>16
    <3> QED BY <1>0, <3>1
  <2>2. d.toApp = Delivered(Rcv(d, v), v.peerSent)
    BY <1>14, <1>17, <1>19
  <2>3. 1 <= Rcv(d, v) /\ Rcv(d, v) <= v.peerMax /\ v.peerMax <= v.peerSent + 2
    <3> HIDE DEF r
    <3> QED BY <1>0, <1>9, <1>11, <1>19
  <2>4. d.fin_rcvd => /\ Minus(d.rcv_fin_seq, v.peerIss) = v.peerSent + 1
                      /\ v.peerMax = v.peerSent + 2
    BY <1>17 DEF SameSend, Flow, RecvSide
  <2> QED BY <2>1, <2>2, <2>3, <2>4 DEF RecvSide
<1>22. \A z \in d.out : Mine(z, d, v)
  <2> SUFFICES ASSUME NEW z \in c.out PROVE Mine(z, d, v)
    BY <1>17
  <2>1. Mine(z, c, v)
    BY DEF Flow
  <2>2. Rcv(c, v) <= Rcv(d, v) /\ Rcv(d, v) \in Nat /\ Rcv(c, v) \in Nat
    <3>1. r <= r + k /\ r + k \in Nat
      <4> HIDE DEF r
      <4> QED BY <1>0, <1>9
    <3> QED BY <1>0, <1>19, <3>1
  <2>3. Top(c, v) <= Top(c, v) /\ Top(c, v) \in Nat /\ Top(c, v) <= N + 2
    BY <1>0, OffsetTypes DEF Flow, SendSide
  <2> QED BY <1>0, <1>19, <2>1, <2>2, <2>3, PieceGrows DEF Mine
<1>23. Flow(d, v)
  BY <1>17, <1>18, <1>19, <1>20, <1>21, <1>22 DEF Flow, SameSend
<1>24. r <= r + k
  <2> HIDE DEF r
  <2> QED BY <1>0, <1>9
<1> QED
  BY <1>1, <1>5, <1>11, <1>17, <1>18, <1>19, <1>23, <1>24 DEF dd

\* performStateTransition changes the state, the timers and the indications only, and
\* these as follows.
LEMMA TransitionFrame ==
    ASSUME NEW n, NEW m, NEW c \in Connection(n, m), ~c.failed, NEW event
    PROVE  LET d == performStateTransition(c, event)
               st == NextState(c, event)
           IN  /\ d \in Connection(n, m) /\ SameFlow(c, d) /\ d.state = st
               /\ d.active = c.active
               /\ st = c.state => d = c
               /\ st # c.state =>
                     d.ind = CASE st = "CLOSE_WAIT" -> Append(c.ind, "PEER_CLOSED")
                               [] st = "TIME_WAIT" -> Append(c.ind, "CLOSED")
                               [] st = "CLOSED" /\ c.state # "TIME_WAIT" /\ event # "ABORT" ->
                                     Append(c.ind, "CLOSED")
                               [] OTHER -> c.ind
               /\ st # "CLOSED" => d.the2MSLTimer = c.the2MSLTimer /\ d.rexmitTimer = c.rexmitTimer
               /\ st # c.state /\ st = "CLOSED" => d.the2MSLTimer = 0 /\ ~d.rexmitTimer
<1> DEFINE st == NextState(c, event)
           b == [c EXCEPT !.state = st]
           e == cancelSetupTimers(b)
           f == sendIndicationToApp(b, "PEER_CLOSED")
           g == cancelSetupTimers(f)
           h == sendIndicationToApp(b, "CLOSED")
           c1 == [e EXCEPT !.the2MSLTimer = 0, !.rexmitTimer = FALSE]
           k == sendIndicationToApp(c1, "CLOSED")
           d == performStateTransition(c, event)
<1>0. d \in Connection(n, m)
  BY Transition
<1>1. CASE st = c.state
  <2>1. d = c
    BY <1>1 DEF performStateTransition, enterState
  <2> HIDE DEF d
  <2>2. SameFlow(c, d)
    BY <2>1 DEF SameFlow
  <2> HIDE DEF st
  <2> QED BY <1>0, <1>1, <2>1, <2>2 DEF d, st
<1>2. CASE st # c.state
  <2>1. d = stateEntered(b, c.state, event)
    BY <1>2 DEF performStateTransition, enterState
  <2>2. st \in State
    BY NextStateFacts, ConnectionTypes
  <2> HIDE DEF st
  <2>3. /\ b.state = st /\ SameFlow(c, b) /\ b.ind = c.ind /\ b.active = c.active
        /\ b.the2MSLTimer = c.the2MSLTimer /\ b.rexmitTimer = c.rexmitTimer
        /\ b \in Connection(n, m)
    BY <2>2 DEF Connection, SameFlow
  <2> HIDE DEF b
  <2>4. /\ e.state = st /\ SameFlow(c, e) /\ e.ind = c.ind /\ e.active = c.active
        /\ e.the2MSLTimer = c.the2MSLTimer /\ e.rexmitTimer = c.rexmitTimer
        /\ e \in Connection(n, m)
    <3>1. e \in Connection(n, m)
      BY <2>3, CancelStep
    <3>2. /\ e.state = b.state /\ SameFlow(b, e) /\ e.ind = b.ind /\ e.active = b.active
          /\ e.the2MSLTimer = b.the2MSLTimer /\ e.rexmitTimer = b.rexmitTimer
      BY <2>3 DEF cancelSetupTimers, Connection, SameFlow
    <3> HIDE DEF e
    <3> QED BY <2>3, <3>1, <3>2 DEF SameFlow
  <2>5. CASE st \in {"LISTEN", "ESTABLISHED", "LAST_ACK", "FIN_WAIT_1",
                      "FIN_WAIT_2", "CLOSING"}
    <3>1. d = e
      BY <2>1, <2>3, <2>5 DEF stateEntered
    <3> HIDE DEF d, e
    <3> QED BY <1>0, <1>2, <2>4, <2>5, <3>1 DEF d, st
  <2>6. CASE st = "CLOSE_WAIT"
    <3>1. d = g
      BY <2>1, <2>3, <2>6 DEF stateEntered
    <3>2. f \in Connection(n, m)
      BY <2>3, IndicationStep DEF Indication
    <3>3. /\ f.state = b.state /\ SameFlow(b, f) /\ f.ind = Append(b.ind, "PEER_CLOSED")
          /\ f.active = b.active
          /\ f.the2MSLTimer = b.the2MSLTimer /\ f.rexmitTimer = b.rexmitTimer
      BY <2>3 DEF sendIndicationToApp, Connection, SameFlow
    <3> HIDE DEF f
    <3>4. /\ g.state = f.state /\ SameFlow(f, g) /\ g.ind = f.ind /\ g.active = f.active
          /\ g.the2MSLTimer = f.the2MSLTimer /\ g.rexmitTimer = f.rexmitTimer
      BY <3>2 DEF cancelSetupTimers, Connection, SameFlow
    <3> HIDE DEF g, d
    <3>5. SameFlow(c, g)
      BY <2>3, <3>3, <3>4 DEF SameFlow
    <3> QED BY <1>0, <1>2, <2>3, <2>6, <3>1, <3>3, <3>4, <3>5 DEF d, st
  <2>7. CASE st = "TIME_WAIT"
    <3>1. d = h
      BY <2>1, <2>3, <2>7 DEF stateEntered
    <3>2. h \in Connection(n, m)
      BY <2>3, IndicationStep DEF Indication
    <3>3. /\ h.state = b.state /\ SameFlow(b, h) /\ h.ind = Append(b.ind, "CLOSED")
          /\ h.active = b.active
          /\ h.the2MSLTimer = b.the2MSLTimer /\ h.rexmitTimer = b.rexmitTimer
      BY <2>3 DEF sendIndicationToApp, Connection, SameFlow
    <3> HIDE DEF h, d
    <3>5. SameFlow(c, h)
      BY <2>3, <3>3 DEF SameFlow
    <3> QED BY <1>0, <1>2, <2>3, <2>7, <3>1, <3>3, <3>5 DEF d, st
  <2>8. CASE st = "CLOSED"
    <3>1. d = IF c.state # "TIME_WAIT" /\ event # "ABORT" THEN k ELSE c1
      BY <2>1, <2>3, <2>8 DEF stateEntered
    <3>2. /\ c1.state = e.state /\ SameFlow(e, c1) /\ c1.ind = e.ind /\ c1.active = e.active
          /\ c1.the2MSLTimer = 0 /\ ~c1.rexmitTimer
          /\ c1 \in Connection(n, m)
      <4>1. 0 \in Ticks
        BY ConnectionAssumption DEF Ticks
      <4> HIDE DEF e
      <4> QED BY <2>4, <4>1 DEF Connection, SameFlow
    <3> HIDE DEF c1
    <3>3. /\ k.state = c1.state /\ SameFlow(c1, k) /\ k.ind = Append(c1.ind, "CLOSED")
          /\ k.active = c1.active
          /\ k.the2MSLTimer = c1.the2MSLTimer /\ k.rexmitTimer = c1.rexmitTimer
      BY <3>2 DEF sendIndicationToApp, Connection, SameFlow
    <3> HIDE DEF k, d, e
    <3>4. SameFlow(c, c1) /\ SameFlow(c, k)
      BY <2>4, <3>2, <3>3 DEF SameFlow
    <3> QED BY <1>0, <1>2, <2>4, <2>8, <3>1, <3>2, <3>3, <3>4 DEF d, st
  <2>9. CASE st \in {"INIT", "SYN_SENT", "SYN_RCVD"}
    <3>1. d = b
      BY <2>1, <2>3, <2>9 DEF stateEntered
    <3> HIDE DEF d
    <3> QED BY <1>0, <1>2, <2>3, <2>9, <3>1 DEF d, st
  <2> QED
    BY <2>2, <2>5, <2>6, <2>7, <2>8, <2>9 DEF State
<1> QED
  BY <1>1, <1>2

\* Step seven, as far as the text concerns the stream; what the receive side needs is
\* that the text of the segment is inside the window.
LEMMA TextFlow ==
    ASSUME NEW v \in View, NEW c, Flow(c, v), NEW s \in Segment(0 .. v.peerSent), Theirs(s, v),
           NEW win \in Windows, NEW c0,
           c.state \in Opening \cup Finishing => Waiting(0, c),
           c.state \notin Opening \cup Finishing => Rcv(c, v) = v.peerSent + 2,
           s.item # 0 => Minus(s.seqNo, c.rcv_nxt) \in 0 .. RcvWnd - 1,
           TimerExact(c) \/ (s.item # 0 /\ seqGreater(c.snd_una, c0.snd_una))
    PROVE  LET d == processText(c, s, win, c0)
           IN  /\ Flow(d, v) /\ SameSend(c, d) /\ Forward(c, d, v) /\ TimerExact(d)
               /\ Rcv(c, v) <= Rcv(d, v)
               /\ Rcv(d, v) = Rcv(c, v) \/ Rcv(d, v) <= v.peerSent + 1
               /\ s.item = 0 => d = c
               /\ s.item # 0 => Rcv(c, v) <= v.peerSent
<1> DEFINE d == processText(c, s, win, c0)
           c1 == insertBytesFromSegment(c, s)
           r1 == receivedDataAck(c1, win)
           c2 == IF seqGreater(c.snd_una, c0.snd_una) THEN r1 ELSE c1
           a2 == sendAck(c2)
<1>0. Rcv(c, v) \in Nat /\ Top(c, v) \in Nat
  BY OffsetTypes DEF Flow
<1>1. CASE s.item = 0
  <2>1. d = c
    BY <1>1 DEF processText, PayloadLength
  <2>2. SameSend(c, c) /\ Forward(c, c, v)
    BY <1>0 DEF SameSend, Forward
  <2> HIDE DEF d
  <2> QED BY <1>0, <1>1, <2>1, <2>2 DEF d
<1>2. CASE s.item # 0
  <2>0. Rcv(c, v) <= v.peerSent
    <3>1. /\ Minus(s.seqNo, v.peerIss) = s.item /\ s.item <= v.peerSent /\ s.seqNo \in SeqNo
          /\ s.item \in Nat
      BY <1>2, ViewTypes DEF Theirs, Piece, Segment
    <3>2. /\ Minus(c.rcv_nxt, v.peerIss) = Rcv(c, v) /\ Rcv(c, v) \in 1 .. v.peerSent + 2
          /\ c.rcv_nxt \in SeqNo
      BY FlowFacts DEF Rcv
    <3>3. Minus(c.rcv_nxt, v.peerIss) <= Minus(s.seqNo, v.peerIss)
      <4>1. Minus(c.rcv_nxt, v.peerIss) <= Half /\ Minus(s.seqNo, v.peerIss) <= Half
        BY <3>1, <3>2, ViewTypes
      <4> QED BY <1>2, <3>1, <3>2, <4>1, ViewTypes, WindowOffset
    <3> QED BY <3>1, <3>2, <3>3, ViewTypes
  <2>1. c.state \in Opening \cup Finishing
    BY <1>0, <2>0, ViewTypes
  <2>2. d = IF c1.rcv_nxt = c.rcv_nxt THEN a2 ELSE c2
    BY <1>2, <2>1 DEF processText, PayloadLength, Opening, Finishing
  <2>3. /\ Flow(c1, v) /\ SameSend(c, c1)
        /\ c1.snd_nxt = c.snd_nxt /\ c1.snd_max = c.snd_max
        /\ c1.rexmitTimer = c.rexmitTimer
        /\ Rcv(c, v) <= Rcv(c1, v)
        /\ Rcv(c1, v) <= v.peerSent + 1
    BY <1>2, <2>1, InsertFlow
  <2> HIDE DEF c1
  <2>4. Top(c1, v) = Top(c, v) /\ (TimerExact(c) => TimerExact(c1))
    BY <2>3 DEF Top, TimerExact, SameSend
  <2>5. Flow(r1, v) /\ Sends(c1, r1, v) /\ TimerExact(r1)
    BY <2>3, NewAckFlow
  <2> HIDE DEF r1
  <2>6. Flow(c2, v) /\ Sends(c1, c2, v) /\ TimerExact(c2)
    <3>1. CASE seqGreater(c.snd_una, c0.snd_una)
      BY <2>5, <3>1
    <3>2. CASE ~seqGreater(c.snd_una, c0.snd_una)
      <4>1. c2 = c1 /\ TimerExact(c1)
        BY <2>4, <3>2
      <4>2. Sends(c1, c1, v)
        <5>1. Top(c1, v) \in Nat
          BY <1>0, <2>4
        <5> QED BY <5>1 DEF Sends, Same
      <4> QED BY <2>3, <4>1, <4>2
    <3> QED BY <3>1, <3>2
  <2> HIDE DEF c2
  <2>7. /\ Flow(a2, v) /\ Sends(c2, a2, v) /\ Nxt(a2, v) = Nxt(c2, v) /\ Top(a2, v) = Top(c2, v)
        /\ a2.rexmitTimer = c2.rexmitTimer /\ a2.snd_max = c2.snd_max
    BY <2>6, AckFlow
  <2> HIDE DEF a2
  <2>8. Flow(d, v) /\ Same(c1, d) /\ Forward(c1, d, v) /\ TimerExact(d)
    <3>1. TimerExact(a2) /\ Same(c1, a2) /\ Forward(c1, a2, v)
      BY <2>6, <2>7 DEF TimerExact, Sends, Same, Forward
    <3>2. Same(c1, c2) /\ Forward(c1, c2, v)
      BY <2>6 DEF Sends, Forward
    <3> HIDE DEF d
    <3> QED BY <2>2, <2>6, <2>7, <3>1, <3>2
  <2> HIDE DEF d
  <2>9. Rcv(d, v) = Rcv(c1, v) /\ SameSend(c, d) /\ Forward(c, d, v)
    BY <2>3, <2>4, <2>8 DEF Rcv, SameSend, Same, Forward
  <2> QED BY <1>2, <2>0, <2>3, <2>8, <2>9 DEF d
<1> QED
  BY <1>1, <1>2

\* The first n items, however the FIN after them is counted.
LEMMA DeliveredAll ==
    ASSUME NEW n \in Nat
    PROVE  Delivered(n + 2, n) = Delivered(n + 1, n)
<1>1. n + 1 # n + 2 /\ (n + 1) - 1 = n
  OBVIOUS
<1>2. Delivered(n + 2, n) = [i \in 1 .. n |-> i] /\ Delivered(n + 1, n) = [i \in 1 .. (n + 1) - 1 |-> i]
  BY <1>1 DEF Delivered
<1> QED
  BY <1>1, <1>2

\* A FIN of the peer has the number after its last item, and it has been sent.
LEMMA FinSeq ==
    ASSUME NEW v \in View, NEW s \in Segment(0 .. v.peerSent), Theirs(s, v), Has(s, "FIN")
    PROVE  /\ Plus(s.seqNo, PayloadLength(s)) \in SeqNo
           /\ Minus(Plus(s.seqNo, PayloadLength(s)), v.peerIss) = v.peerSent + 1
           /\ v.peerMax = v.peerSent + 2
<1>1. /\ Minus(s.seqNo, v.peerIss) + PayloadLength(s) = v.peerSent + 1
      /\ v.peerMax = v.peerSent + 2
  BY DEF Theirs, Piece, Has
<1>2. s.seqNo \in SeqNo /\ PayloadLength(s) \in Nat
  BY DEF Segment, PayloadLength
<1>3. v.peerSent + 1 < SeqMod
  BY ViewTypes, HalfFacts
<1>4. Minus(s.seqNo, v.peerIss) + PayloadLength(s) < SeqMod
  BY <1>1, <1>3
<1> QED
  BY <1>1, <1>2, <1>4, ViewTypes, OffsetPlus

\* Step eight consumes the FIN of the peer after its last item.
LEMMA FinFlow ==
    ASSUME NEW v \in View, NEW c, Flow(c, v), NEW s \in Segment(0 .. v.peerSent), Theirs(s, v),
           NEW old, c.state \in Finishing => c.the2MSLTimer = 0
    PROVE  LET d == processFin(c, s, old)
               fin == FinInSequence(c, s, old)
           IN  /\ Flow(d, v)
               /\ d.state = c.state /\ d.ind = c.ind /\ d.active = c.active
               /\ d.snd_una = c.snd_una /\ d.snd_nxt = c.snd_nxt /\ d.snd_max = c.snd_max
               /\ d.send_fin = c.send_fin /\ d.snd_fin_seq = c.snd_fin_seq
               /\ d.fin_ack_rcvd = c.fin_ack_rcvd /\ d.rexmitTimer = c.rexmitTimer
               /\ fin => Rcv(c, v) = v.peerSent + 1 /\ Rcv(d, v) = v.peerSent + 2
               /\ ~fin => Rcv(d, v) = Rcv(c, v)
               /\ c.state # "TIME_WAIT" =>
                     d.the2MSLTimer = IF fin /\ (\/ c.state = "FIN_WAIT_1" /\ c.fin_ack_rcvd
                                                 \/ c.state = "FIN_WAIT_2")
                                      THEN MSL2 ELSE c.the2MSLTimer
               /\ c.state = "TIME_WAIT" => d.the2MSLTimer \in {MSL2, c.the2MSLTimer}
<1> DEFINE N == v.sent
           P == v.peerSent
           fin == FinInSequence(c, s, old)
           b == Plus(c.rcv_nxt, 1)
           e == Plus(s.seqNo, PayloadLength(s))
           c1 == [c EXCEPT !.rcv_nxt = b]
           t1 == [c1 EXCEPT !.the2MSLTimer = MSL2]
           w1 == [c EXCEPT !.fin_rcvd = TRUE, !.rcv_fin_seq = e]
           d == processFin(c, s, old)
<1>0. /\ c \in Connection(N, P) /\ N \in Nat /\ P \in Nat /\ v.peerIss \in SeqNo /\ P + 2 <= Half
      /\ Half \in Nat /\ SeqMod = 2 * Half
      /\ c.rcv_nxt \in SeqNo /\ c.rcv_fin_seq \in SeqNo
      /\ Rcv(c, v) \in 1 .. P + 2 /\ Rcv(c, v) <= v.peerMax /\ v.peerMax <= P + 2
  BY ViewTypes, FlowFacts, HalfFacts, ConnectionTypes DEF Flow, RecvSide
<1>1. fin => Rcv(c, v) = P + 1 /\ v.peerMax = P + 2
  <2>1. c.fin_rcvd => Minus(c.rcv_fin_seq, v.peerIss) = P + 1 /\ v.peerMax = P + 2
    BY DEF Flow, RecvSide
  <2>2. Has(s, "FIN") => Minus(e, v.peerIss) = P + 1 /\ v.peerMax = P + 2
    BY FinSeq
  <2> HIDE DEF e
  <2>3. Rcv(c, v) = Minus(c.rcv_nxt, v.peerIss)
    BY DEF Rcv
  <2> QED BY <2>1, <2>2, <2>3 DEF FinInSequence, e
<1>2. CASE fin
  <2>1. b \in SeqNo /\ Minus(b, v.peerIss) = P + 2
    <3>1. Minus(c.rcv_nxt, v.peerIss) = P + 1
      BY <1>1, <1>2 DEF Rcv
    <3>2. Minus(c.rcv_nxt, v.peerIss) + 1 < SeqMod
      BY <1>0, <3>1
    <3> QED BY <1>0, <3>1, <3>2, OffsetPlus
  <2> HIDE DEF b, fin
  <2>2. MSL2 \in Ticks
    BY ConnectionAssumption DEF Ticks
  <2>3. /\ c1 \in Connection(N, P) /\ c1.rcv_nxt = b /\ SameSend(c, c1)
        /\ c1.snd_nxt = c.snd_nxt /\ c1.snd_max = c.snd_max /\ c1.rexmitTimer = c.rexmitTimer
        /\ c1.receiveQueue = c.receiveQueue /\ c1.toApp = c.toApp /\ c1.out = c.out
    BY <1>0, <2>1 DEF Connection, SameSend
  <2> HIDE DEF c1
  <2>4. /\ t1 \in Connection(N, P) /\ SameFlow(c1, t1) /\ t1.state = c1.state /\ t1.ind = c1.ind
        /\ t1.active = c1.active /\ t1.rexmitTimer = c1.rexmitTimer /\ t1.the2MSLTimer = MSL2
    BY <2>2, <2>3 DEF Connection, SameFlow
  <2>5. Flow(c1, v)
    <3>1. /\ Rcv(c1, v) = P + 2 /\ Una(c1, v) = Una(c, v) /\ Nxt(c1, v) = Nxt(c, v)
          /\ Top(c1, v) = Top(c, v) /\ Beg(c1, v) = Beg(c, v)
      BY <2>1, <2>3 DEF Rcv, Una, Nxt, Top, Beg, SameSend
    <3>2. SendSide(c1, v)
      BY <2>3, <3>1 DEF Flow, SendSide, SameSend
    <3>3. RecvSide(c1, v)
      <4>1. c1.toApp = Delivered(P + 2, P)
        BY <1>0, <1>1, <1>2, <2>3, DeliveredAll DEF Flow, RecvSide
      <4>2. 1 <= P + 2 /\ P + 2 <= v.peerMax /\ v.peerMax <= v.peerSent + 2
        BY <1>0, <1>1, <1>2
      <4>3. /\ \A q \in c.receiveQueue :
                 Minus(q[1], v.peerIss) = q[2] /\ q[2] <= v.peerSent /\ q[2] < v.peerMax
            /\ c.fin_rcvd => /\ Minus(c.rcv_fin_seq, v.peerIss) = v.peerSent + 1
                             /\ v.peerMax = v.peerSent + 2
        BY DEF Flow, RecvSide
      <4> QED BY <2>3, <3>1, <4>1, <4>2, <4>3 DEF RecvSide, SameSend
    <3>4. \A z \in c1.out : Mine(z, c1, v)
      <4> SUFFICES ASSUME NEW z \in c.out PROVE Mine(z, c1, v)
        BY <2>3
      <4>1. Mine(z, c, v)
        BY DEF Flow
      <4>2. Rcv(c, v) <= P + 2 /\ P + 2 \in Nat /\ Rcv(c, v) \in Nat
        BY <1>0
      <4>3. Top(c, v) <= Top(c, v) /\ Top(c, v) \in Nat /\ Top(c, v) <= N + 2
        BY <1>0, OffsetTypes DEF Flow, SendSide
      <4> QED BY <1>0, <3>1, <4>1, <4>2, <4>3, PieceGrows DEF Mine
    <3> QED BY <2>3, <3>1, <3>2, <3>3, <3>4 DEF Flow, SameSend
  <2>6. Rcv(c1, v) = P + 2
    BY <2>1, <2>3 DEF Rcv
  <2>7. Flow(t1, v) /\ Rcv(t1, v) = P + 2
    BY <2>4, <2>5, <2>6, SameFlowFlow
  <2> HIDE DEF t1
  <2>8. CASE (c.state = "FIN_WAIT_1" /\ c.fin_ack_rcvd) \/ c.state = "FIN_WAIT_2"
    <3>1. d = start2MSLTimer(c1)
      BY <1>2, <2>8 DEF processFin, c1, b, fin
    <3>2. d = t1
      BY <2>3, <2>8, <3>1 DEF start2MSLTimer, t1, SameSend, Finishing
    <3> HIDE DEF d
    <3>3. d.the2MSLTimer = MSL2
      BY <2>4, <3>2
    <3> QED BY <1>1, <1>2, <2>3, <2>4, <2>7, <2>8, <3>2, <3>3 DEF d, SameSend, SameFlow, fin
  <2>9. CASE c.state = "TIME_WAIT"
    <3>1. d = t1
      BY <1>2, <2>9 DEF processFin, t1, c1, b, fin
    <3> HIDE DEF d
    <3> QED BY <1>1, <1>2, <2>3, <2>4, <2>7, <2>9, <3>1 DEF d, SameSend, SameFlow, fin
  <2>10. CASE /\ ~((c.state = "FIN_WAIT_1" /\ c.fin_ack_rcvd) \/ c.state = "FIN_WAIT_2")
              /\ c.state # "TIME_WAIT"
    <3>1. d = c1
      BY <1>2, <2>10 DEF processFin, c1, b, fin
    <3> HIDE DEF d
    <3> QED BY <1>1, <1>2, <2>3, <2>5, <2>6, <2>10, <3>1 DEF d, SameSend, fin
  <2> QED BY <2>8, <2>9, <2>10
<1>3. CASE ~fin /\ Has(s, "FIN")
  <2>1. d = w1
    BY <1>3 DEF processFin
  <2>2. e \in SeqNo /\ Minus(e, v.peerIss) = P + 1 /\ v.peerMax = P + 2
    BY <1>3, FinSeq
  <2> HIDE DEF e, fin
  <2>3. /\ w1 \in Connection(N, P) /\ w1.fin_rcvd = TRUE /\ w1.rcv_fin_seq = e
        /\ w1.state = c.state /\ w1.active = c.active /\ w1.failed = c.failed /\ w1.ind = c.ind
        /\ w1.iss = c.iss /\ w1.snd_una = c.snd_una
        /\ w1.begin = c.begin /\ w1.sendQueue = c.sendQueue
        /\ w1.send_fin = c.send_fin /\ w1.snd_fin_seq = c.snd_fin_seq
        /\ w1.fin_ack_rcvd = c.fin_ack_rcvd /\ w1.the2MSLTimer = c.the2MSLTimer
        /\ w1.snd_nxt = c.snd_nxt /\ w1.snd_max = c.snd_max /\ w1.rexmitTimer = c.rexmitTimer
        /\ w1.rcv_nxt = c.rcv_nxt
        /\ w1.receiveQueue = c.receiveQueue /\ w1.toApp = c.toApp /\ w1.out = c.out
    BY <1>0, <2>2 DEF Connection
  <2> HIDE DEF w1, d
  <2>4. /\ Rcv(w1, v) = Rcv(c, v) /\ Una(w1, v) = Una(c, v) /\ Nxt(w1, v) = Nxt(c, v)
        /\ Top(w1, v) = Top(c, v) /\ Beg(w1, v) = Beg(c, v)
    BY <2>3 DEF Rcv, Una, Nxt, Top, Beg
  <2>5. SendSide(w1, v)
    BY <2>3, <2>4 DEF Flow, SendSide
  <2>6. RecvSide(w1, v)
    BY <2>2, <2>3, <2>4 DEF Flow, RecvSide
  <2>7. \A z \in w1.out : Mine(z, w1, v)
    BY <2>3, <2>4 DEF Flow, Mine
  <2>8. Flow(w1, v)
    BY <2>3, <2>4, <2>5, <2>6, <2>7 DEF Flow
  <2> QED BY <1>3, <2>1, <2>3, <2>4, <2>8 DEF d, fin
<1>4. CASE ~fin /\ ~Has(s, "FIN")
  <2>1. d = c
    BY <1>4 DEF processFin
  <2> HIDE DEF d, fin
  <2> QED BY <1>4, <2>1 DEF d, fin
<1> QED
  BY <1>2, <1>3, <1>4

\* The application is told CLOSED last, and of the close of its peer only when the FIN
\* has been consumed.
Closing(i) == \A k \in 1 .. Len(i) : i[k] = "CLOSED" => k = Len(i)

\* What the indications say.
ToldRight(c, v) ==
    /\ c.state # "TIME_WAIT" => ~Says(c.ind, "CLOSED")
    /\ Closing(c.ind)
    /\ Says(c.ind, "PEER_CLOSED") => Rcv(c, v) = v.peerSent + 2
    /\ ~Says(c.ind, "CONNECTION_RESET")

\* How far each state has come in the two streams, between two events.
Control(c, v) ==
    /\ c.state \in {"ESTABLISHED", "CLOSE_WAIT"} => Top(c, v) <= v.sent + 1
    /\ c.state \in {"FIN_WAIT_1", "CLOSING", "LAST_ACK"} =>
          Top(c, v) = v.sent + 2 /\ Una(c, v) < v.sent + 2
    /\ c.state \in {"FIN_WAIT_2", "TIME_WAIT"} => Una(c, v) = v.sent + 2
    /\ c.state = "ESTABLISHED" => Rcv(c, v) <= v.peerSent + 1
    /\ c.state \in FinConsumed => Rcv(c, v) = v.peerSent + 2
    /\ c.the2MSLTimer > 0 <=> c.state = "TIME_WAIT"
    /\ TimerExact(c)
    /\ ToldRight(c, v)

\* The same after step five of the handler of a segment, which found the connection
\* as c0; SYN_RCVD stands for a connection that this segment establishes.
Acked(c, c0, s, v) ==
    /\ c.state \in Synchronized \cup {"SYN_RCVD"}
    /\ c.state \in {"SYN_RCVD", "ESTABLISHED", "CLOSE_WAIT"} =>
          /\ Una(c, v) <= v.sent + 1
          /\ c0.snd_nxt \in SeqNo /\ Minus(c0.snd_nxt, v.iss) # v.sent + 2
          /\ Top(c, v) <= v.sent + 1 \/ Nxt(c, v) = Top(c, v)
          /\ s.item # 0 => Top(c, v) <= v.sent + 1
    /\ c.state = "SYN_RCVD" => ~c.send_fin
    /\ c.state \in {"FIN_WAIT_1", "CLOSING", "LAST_ACK"} => Top(c, v) = v.sent + 2
    /\ c.state = "LAST_ACK" => Una(c, v) < v.sent + 2
    /\ c.state \in {"FIN_WAIT_2", "TIME_WAIT"} => Una(c, v) = v.sent + 2
    /\ c.state \in Opening => Rcv(c, v) <= v.peerSent + 1
    /\ c.state \in FinConsumed => Rcv(c, v) = v.peerSent + 2
    /\ c.the2MSLTimer > 0 <=> \/ c.state = "TIME_WAIT"
                              \/ c.state = "CLOSING" /\ c.fin_ack_rcvd
    /\ ToldRight(c, v)

\* Appending an indication.
LEMMA SaysAppend ==
    ASSUME NEW S, NEW i \in Seq(S), NEW x \in S, NEW y
    PROVE  /\ Says(Append(i, x), y) <=> Says(i, y) \/ x = y
           /\ ~Says(i, "CLOSED") => Closing(Append(i, x))
<1>1. /\ Append(i, x) \in Seq(S) /\ Len(Append(i, x)) = Len(i) + 1 /\ Len(i) \in Nat
      /\ Append(i, x)[Len(i) + 1] = x
      /\ \A k \in 1 .. Len(i) : Append(i, x)[k] = i[k]
  OBVIOUS
<1> DEFINE j == Append(i, x)
           n == Len(i)
<1>2. \A k \in 1 .. n : k \in 1 .. n + 1
  BY <1>1
<1>3. \A k \in 1 .. n + 1 : k \in 1 .. n \/ k = n + 1
  BY <1>1
<1>4. n + 1 \in 1 .. n + 1
  BY <1>1
<1> HIDE DEF j, n
<1>5. Len(j) = n + 1 /\ j[n + 1] = x /\ \A k \in 1 .. n : j[k] = i[k]
  BY <1>1 DEF j, n
<1>6. Says(j, y) <=> Says(i, y) \/ x = y
  BY <1>2, <1>3, <1>4, <1>5 DEF Says, n
<1>7. ~Says(i, "CLOSED") => Closing(j)
  BY <1>3, <1>5 DEF Says, Closing, n
<1> QED
  BY <1>6, <1>7 DEF j

\* Steps seven and eight, and the event they lead to.
LEMMA AfterAckFlow ==
    ASSUME NEW v \in View, NEW c, Flow(c, v), NEW c0, NEW s \in Segment(0 .. v.peerSent),
           Theirs(s, v), NEW win \in Windows, Acked(c, c0, s, v),
           c.state \in Opening \cup Finishing => Waiting(0, c),
           s.item # 0 => Minus(s.seqNo, c.rcv_nxt) \in 0 .. RcvWnd - 1,
           TimerExact(c) \/ (s.item # 0 /\ seqGreater(c.snd_una, c0.snd_una))
    PROVE  LET d == processAfterText(processText(c, s, win, c0), s, c0)
           IN  /\ Flow(d, v) /\ d.state \in Synchronized /\ Control(d, v)
               /\ Top(c, v) <= Top(d, v) /\ Rcv(c, v) <= Rcv(d, v)
               /\ d.send_fin = c.send_fin
<1> DEFINE N == v.sent
           P == v.peerSent
           c2 == processText(c, s, win, c0)
           fin == FinInSequence(c2, s, c0.rcv_nxt)
           c3 == processFin(c2, s, c0.rcv_nxt)
           c4 == ackNewText(c3, fin, c0)
           event == SegmentEvent(c4, fin, c0)
           st == NextState(c4, event)
           d == processAfterText(c2, s, c0)
<1>0. /\ N \in Nat /\ P \in Nat /\ v.iss \in SeqNo
      /\ Rcv(c, v) \in Nat /\ Una(c, v) \in Nat /\ Top(c, v) \in Nat
      /\ c.state \in Synchronized \cup {"SYN_RCVD"}
  BY ViewTypes, OffsetTypes DEF Flow, Acked
<1>1. /\ Flow(c2, v) /\ SameSend(c, c2) /\ Forward(c, c2, v) /\ TimerExact(c2)
      /\ Rcv(c, v) <= Rcv(c2, v)
      /\ Rcv(c2, v) = Rcv(c, v) \/ Rcv(c2, v) <= P + 1
      /\ s.item = 0 => c2 = c
      /\ s.item # 0 => Rcv(c, v) <= P
  <2>1. c.state \notin Opening \cup Finishing => Rcv(c, v) = P + 2
    BY <1>0 DEF Acked, Opening, Finishing, FinConsumed, Synchronized
  <2> HIDE DEF c2
  <2> QED BY <2>1, TextFlow DEF c2
<1> HIDE DEF c2
<1>2. c2.state \in Finishing => c2.the2MSLTimer = 0
  <2>1. c2.state = c.state /\ c2.the2MSLTimer = c.the2MSLTimer
    BY <1>1 DEF SameSend
  <2>2. c.state \in Finishing => ~(c.the2MSLTimer > 0)
    BY DEF Acked, Finishing
  <2>3. c.the2MSLTimer \in Ticks
    BY ConnectionTypes DEF Flow
  <2> QED BY <2>1, <2>2, <2>3, ConnectionAssumption DEF Ticks
<1>3. /\ Flow(c3, v)
      /\ c3.state = c2.state /\ c3.ind = c2.ind /\ c3.active = c2.active
      /\ c3.snd_una = c2.snd_una /\ c3.snd_nxt = c2.snd_nxt /\ c3.snd_max = c2.snd_max
      /\ c3.send_fin = c2.send_fin /\ c3.snd_fin_seq = c2.snd_fin_seq
      /\ c3.fin_ack_rcvd = c2.fin_ack_rcvd /\ c3.rexmitTimer = c2.rexmitTimer
      /\ fin => Rcv(c2, v) = P + 1 /\ Rcv(c3, v) = P + 2
      /\ ~fin => Rcv(c3, v) = Rcv(c2, v)
      /\ c2.state # "TIME_WAIT" =>
            c3.the2MSLTimer = IF fin /\ (\/ c2.state = "FIN_WAIT_1" /\ c2.fin_ack_rcvd
                                         \/ c2.state = "FIN_WAIT_2")
                              THEN MSL2 ELSE c2.the2MSLTimer
      /\ c2.state = "TIME_WAIT" => c3.the2MSLTimer \in {MSL2, c2.the2MSLTimer}
  BY <1>1, <1>2, FinFlow
<1> HIDE DEF c3, fin
<1>4. /\ Flow(c4, v)
      /\ c4.state = c.state /\ c4.ind = c.ind
      /\ Una(c4, v) = Una(c, v) /\ Nxt(c4, v) = Nxt(c2, v) /\ Top(c4, v) = Top(c2, v)
      /\ c4.send_fin = c.send_fin /\ c4.snd_fin_seq = c.snd_fin_seq
      /\ c4.fin_ack_rcvd = c.fin_ack_rcvd /\ TimerExact(c4)
      /\ fin => Rcv(c2, v) = P + 1 /\ Rcv(c4, v) = P + 2
      /\ ~fin => Rcv(c4, v) = Rcv(c2, v)
      /\ c4.the2MSLTimer = c3.the2MSLTimer
  <2> DEFINE a == sendAck(c3)
  <2>1. /\ Flow(a, v) /\ Sends(c3, a, v) /\ Nxt(a, v) = Nxt(c3, v) /\ Top(a, v) = Top(c3, v)
        /\ a.rexmitTimer = c3.rexmitTimer /\ a.snd_max = c3.snd_max
    BY <1>3, AckFlow
  <2>2. c4 \in {a, c3}
    BY DEF ackNewText, receiveSeqChanged
  <2> HIDE DEF a, c4
  <2>3. /\ Flow(c4, v) /\ c4.state = c3.state /\ c4.ind = c3.ind /\ c4.snd_una = c3.snd_una
        /\ Nxt(c4, v) = Nxt(c3, v) /\ Top(c4, v) = Top(c3, v)
        /\ c4.send_fin = c3.send_fin /\ c4.snd_fin_seq = c3.snd_fin_seq
        /\ c4.fin_ack_rcvd = c3.fin_ack_rcvd /\ c4.rexmitTimer = c3.rexmitTimer
        /\ c4.snd_max = c3.snd_max /\ c4.rcv_nxt = c3.rcv_nxt
        /\ c4.the2MSLTimer = c3.the2MSLTimer
    BY <1>3, <2>1, <2>2 DEF Sends, Same
  <2>4. Nxt(c3, v) = Nxt(c2, v) /\ Top(c3, v) = Top(c2, v) /\ Una(c4, v) = Una(c2, v)
        /\ Una(c2, v) = Una(c, v) /\ Rcv(c4, v) = Rcv(c3, v)
    BY <1>1, <1>3, <2>3 DEF Nxt, Top, Una, Rcv, SameSend
  <2>5. TimerExact(c4)
    BY <1>1, <1>3, <2>3 DEF TimerExact
  <2> QED BY <1>1, <1>3, <2>3, <2>4, <2>5 DEF SameSend
<1> HIDE DEF c4
<1>5. /\ Una(c4, v) \in 1 .. N + 2 /\ Nxt(c4, v) \in 1 .. N + 2 /\ Top(c4, v) \in 1 .. N + 2
      /\ Rcv(c4, v) \in 1 .. P + 2 /\ Nxt(c4, v) <= Top(c4, v)
      /\ Top(c4, v) = N + 2 => c4.send_fin
      /\ c4.fin_ack_rcvd <=> Una(c4, v) = N + 2
      /\ ~c4.failed /\ c4 \in Connection(N, P)
      /\ c4.send_fin => /\ c4.snd_fin_seq \in SeqNo /\ Minus(c4.snd_fin_seq, v.iss) = N + 1
      /\ c4.snd_nxt \in SeqNo /\ c4.the2MSLTimer \in Ticks /\ c4.ind \in Seq(Indication)
  BY <1>4, FlowFacts, ConnectionTypes DEF Flow, SendSide
\* the timer of TIME_WAIT
<1>6. c4.the2MSLTimer > 0 <=>
         \/ c.state = "TIME_WAIT"
         \/ c.state = "CLOSING" /\ c.fin_ack_rcvd
         \/ fin /\ c.state = "FIN_WAIT_1" /\ c.fin_ack_rcvd
         \/ fin /\ c.state = "FIN_WAIT_2"
  <2>1. /\ c2.state = c.state /\ c2.fin_ack_rcvd = c.fin_ack_rcvd
        /\ c2.the2MSLTimer = c.the2MSLTimer
    BY <1>1 DEF SameSend
  <2>2. c.the2MSLTimer > 0 <=> \/ c.state = "TIME_WAIT"
                               \/ c.state = "CLOSING" /\ c.fin_ack_rcvd
    BY DEF Acked
  <2>3. MSL2 > 0
    BY ConnectionAssumption
  <2> QED BY <1>3, <1>4, <2>1, <2>2, <2>3
\* the FIN is consumed only by states that wait for it
<1>7. /\ fin => c.state \notin FinConsumed
      /\ ~fin /\ c.state \in Opening => Rcv(c4, v) <= P + 1
      /\ c.state \in FinConsumed => Rcv(c4, v) = P + 2
      /\ Rcv(c, v) <= Rcv(c4, v) /\ Top(c, v) <= Top(c4, v)
      /\ Says(c.ind, "PEER_CLOSED") => Rcv(c4, v) = P + 2
  <2>1. /\ c.state \in Opening => Rcv(c, v) <= P + 1
        /\ c.state \in FinConsumed => Rcv(c, v) = P + 2
        /\ Says(c.ind, "PEER_CLOSED") => Rcv(c, v) = P + 2
    BY DEF Acked, ToldRight
  <2>2. Rcv(c2, v) \in Nat /\ Top(c, v) <= Top(c2, v)
    BY <1>1, OffsetTypes DEF Flow, Forward
  <2> QED BY <1>0, <1>1, <1>4, <1>5, <2>1, <2>2
\* a FIN that leaves now makes the event a CLOSE
<1>8. c4.send_fin => (Nxt(c4, v) = N + 2 <=> c4.snd_nxt = Plus(c4.snd_fin_seq, 1))
  <2> SUFFICES ASSUME c4.send_fin
               PROVE  Nxt(c4, v) = N + 2 <=> c4.snd_nxt = Plus(c4.snd_fin_seq, 1)
    OBVIOUS
  <2>1. Minus(c4.snd_fin_seq, v.iss) + 1 < SeqMod
    BY <1>0, <1>5, ViewTypes, HalfFacts
  <2>2. /\ Plus(c4.snd_fin_seq, 1) \in SeqNo
        /\ Minus(Plus(c4.snd_fin_seq, 1), v.iss) = N + 2
    BY <1>0, <1>5, <2>1, OffsetPlus
  <2> QED BY <1>0, <1>5, <2>2, SameOffset DEF Nxt
<1>9. ASSUME c.state \in {"SYN_RCVD", "ESTABLISHED", "CLOSE_WAIT"}
      PROVE  /\ DeferredClose(c4, c0.snd_nxt) =>
                   /\ c.state # "SYN_RCVD" /\ Top(c4, v) = N + 2 /\ Una(c4, v) < N + 2
             /\ ~DeferredClose(c4, c0.snd_nxt) => Top(c4, v) <= N + 1
  <2>1. /\ Una(c, v) <= N + 1
        /\ c0.snd_nxt \in SeqNo /\ Minus(c0.snd_nxt, v.iss) # N + 2
        /\ Top(c, v) <= N + 1 \/ Nxt(c, v) = Top(c, v)
        /\ s.item # 0 => Top(c, v) <= N + 1
        /\ c.state = "SYN_RCVD" => ~c.send_fin
    BY <1>9 DEF Acked
  <2>2. Top(c4, v) <= N + 1 \/ Nxt(c4, v) = Top(c4, v)
    BY <1>1, <1>4, <2>1 DEF Forward
  <2>3. Nxt(c4, v) = N + 2 => c4.snd_nxt # c0.snd_nxt
    BY <2>1 DEF Nxt
  <2>4. DeferredClose(c4, c0.snd_nxt) <=> c4.send_fin /\ Nxt(c4, v) = N + 2
    BY <1>4, <1>8, <1>9, <2>3 DEF DeferredClose
  <2>5. DeferredClose(c4, c0.snd_nxt) =>
           c.state # "SYN_RCVD" /\ Top(c4, v) = N + 2 /\ Una(c4, v) < N + 2
    BY <1>0, <1>4, <1>5, <2>1, <2>4
  <2>6. ~DeferredClose(c4, c0.snd_nxt) => Top(c4, v) <= N + 1
    BY <1>0, <1>5, <2>2, <2>4
  <2> QED BY <2>5, <2>6
<1>10. /\ d = performStateTransition(c4, event)
       /\ d \in Connection(N, P) /\ SameFlow(c4, d) /\ d.state = st
       /\ st = c.state => d = c4
       /\ st # c.state =>
                     d.ind = CASE st = "CLOSE_WAIT" -> Append(c4.ind, "PEER_CLOSED")
                               [] st = "TIME_WAIT" -> Append(c4.ind, "CLOSED")
                               [] st = "CLOSED" /\ c4.state # "TIME_WAIT" /\ event # "ABORT" ->
                                     Append(c4.ind, "CLOSED")
                               [] OTHER -> c4.ind
       /\ st # "CLOSED" => d.the2MSLTimer = c4.the2MSLTimer /\ d.rexmitTimer = c4.rexmitTimer
  <2>1. d = performStateTransition(c4, event)
    BY DEF processAfterText, concludeSegment, c3, c4, fin
  <2> HIDE DEF d, event
  <2> QED BY <1>4, <1>5, <2>1, TransitionFrame
<1> HIDE DEF d
<1>11. /\ Flow(d, v) /\ Una(d, v) = Una(c4, v)
       /\ Top(d, v) = Top(c4, v) /\ Rcv(d, v) = Rcv(c4, v) /\ d.send_fin = c.send_fin
  BY <1>4, <1>10, SameFlowFlow DEF SameFlow
\* it remains to look at the state that is entered
<1> DEFINE Right == /\ st \in Synchronized
                    /\ st \in {"ESTABLISHED", "CLOSE_WAIT"} => Top(c4, v) <= N + 1
                    /\ st \in {"FIN_WAIT_1", "CLOSING", "LAST_ACK"} =>
                          Top(c4, v) = N + 2 /\ Una(c4, v) < N + 2
                    /\ st \in {"FIN_WAIT_2", "TIME_WAIT"} => Una(c4, v) = N + 2
                    /\ st = "ESTABLISHED" => Rcv(c4, v) <= P + 1
                    /\ st \in FinConsumed => Rcv(c4, v) = P + 2
                    /\ c4.the2MSLTimer > 0 <=> st = "TIME_WAIT"
                    /\ c.state = "TIME_WAIT" => st = "TIME_WAIT"
<1>12. ASSUME c.state \in {"SYN_RCVD", "ESTABLISHED", "CLOSE_WAIT"} PROVE Right
  <2>1. /\ ~(c4.the2MSLTimer > 0)
        /\ c4.state = c.state
    BY <1>4, <1>6, <1>12
  <2>2. CASE DeferredClose(c4, c0.snd_nxt)
    <3>1. event = "CLOSE"
      BY <2>2 DEF SegmentEvent
    <3> HIDE DEF event
    <3>2. \/ c.state = "ESTABLISHED" /\ st = "FIN_WAIT_1"
          \/ c.state = "CLOSE_WAIT" /\ st = "LAST_ACK"
      BY <1>9, <1>12, <2>1, <2>2, <3>1 DEF NextState
    <3>3. c.state = "CLOSE_WAIT" => Rcv(c4, v) = P + 2
      BY <1>7 DEF FinConsumed
    <3> HIDE DEF st
    <3> QED BY <1>9, <1>12, <2>1, <2>2, <3>2, <3>3 DEF FinConsumed, Synchronized
  <2>3. CASE ~DeferredClose(c4, c0.snd_nxt) /\ fin
    <3>1. event = "RCV_FIN"
      BY <1>12, <2>1, <2>3 DEF SegmentEvent
    <3> HIDE DEF event
    <3>2. c.state # "CLOSE_WAIT"
      BY <1>7, <2>3 DEF FinConsumed
    <3>3. st = "CLOSE_WAIT"
      BY <1>12, <2>1, <3>1, <3>2 DEF NextState
    <3> HIDE DEF st
    <3> QED BY <1>4, <1>9, <1>12, <2>1, <2>3, <3>3 DEF Synchronized
  <2>4. CASE ~DeferredClose(c4, c0.snd_nxt) /\ ~fin
    <3>1. event = IF c.state = "SYN_RCVD" THEN "RCV_ACK" ELSE "IGNORE"
      BY <1>12, <2>1, <2>4 DEF SegmentEvent
    <3> HIDE DEF event
    <3>2. st = IF c.state = "SYN_RCVD" THEN "ESTABLISHED" ELSE c.state
      BY <1>12, <2>1, <3>1 DEF NextState
    <3>3. /\ c.state \in Opening => Rcv(c4, v) <= P + 1
          /\ c.state = "CLOSE_WAIT" => Rcv(c4, v) = P + 2
      BY <1>7, <2>4 DEF FinConsumed
    <3> HIDE DEF st
    <3> QED BY <1>9, <1>12, <2>1, <2>4, <3>2, <3>3 DEF Opening, Synchronized, FinConsumed
  <2> QED BY <2>2, <2>3, <2>4
<1>13. ASSUME c.state \in {"FIN_WAIT_1", "FIN_WAIT_2", "CLOSING", "LAST_ACK", "TIME_WAIT"}
       PROVE  Right
  <2>1. /\ ~DeferredClose(c4, c0.snd_nxt) /\ c4.state = c.state
        /\ c4.fin_ack_rcvd <=> c.fin_ack_rcvd
        /\ c.fin_ack_rcvd <=> Una(c4, v) = N + 2
    BY <1>4, <1>5, <1>13 DEF DeferredClose
  <2>2. /\ c.state \in {"FIN_WAIT_1", "CLOSING", "LAST_ACK"} => Top(c4, v) = N + 2
        /\ c.state = "LAST_ACK" => Una(c4, v) < N + 2
        /\ c.state \in {"FIN_WAIT_2", "TIME_WAIT"} => Una(c4, v) = N + 2
    <3>1. /\ c.state \in {"FIN_WAIT_1", "CLOSING", "LAST_ACK"} => Top(c, v) = N + 2
          /\ c.state = "LAST_ACK" => Una(c, v) < N + 2
          /\ c.state \in {"FIN_WAIT_2", "TIME_WAIT"} => Una(c, v) = N + 2
      BY DEF Acked
    <3> QED BY <1>0, <1>4, <1>5, <1>7, <3>1
  <2>3. CASE fin
    <3>1. c.state \in Finishing
      BY <1>7, <1>13, <2>3 DEF FinConsumed, Finishing
    <3>2. event = IF c.state = "FIN_WAIT_1" /\ c.fin_ack_rcvd THEN "RCV_FIN_ACK" ELSE "RCV_FIN"
      BY <2>1, <2>3 DEF SegmentEvent
    <3> HIDE DEF event
    <3>3. st = IF c.state = "FIN_WAIT_1" /\ ~c.fin_ack_rcvd THEN "CLOSING" ELSE "TIME_WAIT"
      BY <2>1, <3>1, <3>2 DEF NextState, Finishing
    <3> HIDE DEF st
    <3> QED BY <1>0, <1>4, <1>5, <1>6, <2>1, <2>2, <2>3, <3>1, <3>3 DEF Finishing, Synchronized
  <2>4. CASE ~fin
    <3>1. event = IF c.state \in {"FIN_WAIT_1", "CLOSING"} /\ c.fin_ack_rcvd
                  THEN "RCV_ACK" ELSE "IGNORE"
      BY <1>13, <2>1, <2>4 DEF SegmentEvent
    <3> HIDE DEF event
    <3>2. st = IF c.state = "FIN_WAIT_1" /\ c.fin_ack_rcvd THEN "FIN_WAIT_2"
               ELSE IF c.state = "CLOSING" /\ c.fin_ack_rcvd THEN "TIME_WAIT" ELSE c.state
      BY <1>13, <2>1, <3>1 DEF NextState
    <3>3. c.state \in FinConsumed => Rcv(c4, v) = P + 2
      BY <1>7
    <3> HIDE DEF st
    <3> QED BY <1>0, <1>5, <1>6, <1>13, <2>1, <2>2, <2>4, <3>2, <3>3 DEF FinConsumed, Synchronized
  <2> QED BY <2>3, <2>4
<1>14. Right
  BY <1>0, <1>12, <1>13 DEF Synchronized
<1> HIDE DEF st
<1>15. ToldRight(d, v)
  <2>1. /\ c.state # "TIME_WAIT" => ~Says(c4.ind, "CLOSED")
        /\ Closing(c4.ind)
        /\ Says(c4.ind, "PEER_CLOSED") => Rcv(c4, v) = P + 2
        /\ ~Says(c4.ind, "CONNECTION_RESET")
    BY <1>4, <1>7 DEF Acked, ToldRight
  <2>2. CASE st = c.state
    <3>1. d.ind = c4.ind /\ d.state = c.state
      BY <1>10, <2>2
    <3> QED BY <1>11, <2>1, <3>1 DEF ToldRight
  <2>3. CASE st # c.state
    <3>1. c.state # "TIME_WAIT"
      BY <1>14, <2>3
    <3>2. CASE st = "CLOSE_WAIT"
      <4>1. d.ind = Append(c4.ind, "PEER_CLOSED") /\ d.state = "CLOSE_WAIT"
        BY <1>10, <2>3, <3>2
      <4>2. Rcv(d, v) = P + 2
        BY <1>11, <1>14, <3>2 DEF FinConsumed
      <4>3. "PEER_CLOSED" \in Indication
        BY DEF Indication
      <4> QED BY <1>5, <2>1, <3>1, <4>1, <4>2, <4>3, SaysAppend DEF ToldRight
    <3>3. CASE st = "TIME_WAIT"
      <4>1. d.ind = Append(c4.ind, "CLOSED") /\ d.state = "TIME_WAIT"
        BY <1>10, <2>3, <3>3
      <4>2. Rcv(d, v) = P + 2
        BY <1>11, <1>14, <3>3 DEF FinConsumed
      <4>3. "CLOSED" \in Indication
        BY DEF Indication
      <4> QED BY <1>5, <2>1, <3>1, <4>1, <4>2, <4>3, SaysAppend DEF ToldRight
    <3>4. CASE st \notin {"CLOSE_WAIT", "TIME_WAIT"}
      <4>1. st # "CLOSED"
        BY <1>14 DEF Synchronized
      <4>2. d.ind = c4.ind
        BY <1>10, <2>3, <3>4, <4>1
      <4> QED BY <1>11, <2>1, <3>1, <4>2 DEF ToldRight
    <3> QED BY <3>2, <3>3, <3>4
  <2> QED BY <2>2, <2>3
<1>16. TimerExact(d)
  <2>1. st # "CLOSED"
    BY <1>14 DEF Synchronized
  <2> QED BY <1>4, <1>10, <2>1 DEF TimerExact, SameFlow
<1>17. Control(d, v)
  <2>1. d.the2MSLTimer = c4.the2MSLTimer
    BY <1>10, <1>14 DEF Synchronized
  <2> QED BY <1>10, <1>11, <1>14, <1>15, <1>16, <2>1 DEF Control
<1> QED
  BY <1>7, <1>10, <1>11, <1>14, <1>17 DEF d, c2

\* Control depends on few fields.
LEMMA ControlKept ==
    ASSUME NEW v, NEW c, NEW d, Control(c, v), d.state = c.state, d.ind = c.ind,
           (d.the2MSLTimer > 0) = (c.the2MSLTimer > 0), TimerExact(d),
           Top(d, v) = Top(c, v), Una(d, v) = Una(c, v), Rcv(d, v) = Rcv(c, v)
    PROVE  Control(d, v)
BY DEF Control, ToldRight

\* The ACK of our FIN.
LEMMA AcksFinFlow ==
    ASSUME NEW v \in View, NEW c, Flow(c, v), NEW s \in Segment(0 .. v.peerSent), Theirs(s, v)
    PROVE  AcksFin(c, s) <=> Minus(s.ackNo, v.iss) = v.sent + 2
<1> DEFINE j == Minus(s.ackNo, v.iss)
           N == v.sent
<1>0. /\ N \in Nat /\ v.iss \in SeqNo /\ s.ackNo \in SeqNo /\ c.snd_fin_seq \in SeqNo
      /\ N + 2 <= Half /\ Half \in Nat /\ SeqMod = 2 * Half
      /\ Top(c, v) \in 1 .. N + 2
  BY ViewTypes, FlowFacts, HalfFacts DEF Segment
<1>1. j \in Nat /\ j <= Top(c, v)
  <2>1. j \in 1 .. v.peerNxt /\ v.peerNxt <= Top(c, v) /\ v.peerNxt \in Nat
    BY ViewTypes DEF Theirs, Piece, Flow
  <2> HIDE DEF j
  <2> QED BY <1>0, <2>1
<1>2. /\ c.send_fin => Minus(c.snd_fin_seq, v.iss) = N + 1
      /\ Top(c, v) = N + 2 => c.send_fin
  BY DEF Flow, SendSide
<1>3. CASE c.send_fin
  <2>1. Minus(c.snd_fin_seq, v.iss) + 1 < SeqMod
    BY <1>0, <1>2, <1>3
  <2>2. /\ Plus(c.snd_fin_seq, 1) \in SeqNo
        /\ Minus(Plus(c.snd_fin_seq, 1), v.iss) = N + 2
    BY <1>0, <1>2, <1>3, <2>1, OffsetPlus
  <2>3. s.ackNo = Plus(c.snd_fin_seq, 1) <=> j = N + 2
    BY <1>0, <2>2, SameOffset
  <2> QED BY <1>3, <2>3 DEF AcksFin
<1>4. CASE ~c.send_fin
  <2>1. j # N + 2
    <3> HIDE DEF j
    <3> QED BY <1>0, <1>1, <1>2, <1>4
  <2> QED BY <1>4, <2>1 DEF AcksFin
<1> QED
  BY <1>3, <1>4

\* What a handler of an established connection leaves: the connection lives on, or it
\* is closed.
Outcome(c, d, v) ==
    /\ Flow(d, v)
    /\ d.state \in Synchronized \cup {"CLOSED"}
    /\ d.state \in Synchronized => Control(d, v)
    /\ Closing(d.ind)
    /\ Says(d.ind, "PEER_CLOSED") => Rcv(d, v) = v.peerSent + 2
    /\ Top(c, v) <= Top(d, v) /\ Rcv(c, v) <= Rcv(d, v)
    /\ d.send_fin = c.send_fin

\* A connection that lives on.
LEMMA LivesOn ==
    ASSUME NEW v \in View, NEW c, NEW d, Flow(d, v), d.state \in Synchronized, Control(d, v),
           Top(c, v) <= Top(d, v), Rcv(c, v) <= Rcv(d, v), d.send_fin = c.send_fin
    PROVE  Outcome(c, d, v) /\ ~Says(d.ind, "CONNECTION_RESET")
BY DEF Outcome, Control, ToldRight

\* An acknowledgement leaves an established connection as it is.
LEMMA AckControl ==
    ASSUME NEW v \in View, NEW c, Flow(c, v), c.state \in Synchronized, Control(c, v)
    PROVE  Outcome(c, sendAck(c), v) /\ ~Says(sendAck(c).ind, "CONNECTION_RESET")
           /\ sendAck(c).state = c.state
<1> DEFINE d == sendAck(c)
<1>1. /\ Flow(d, v) /\ Sends(c, d, v) /\ Nxt(d, v) = Nxt(c, v) /\ Top(d, v) = Top(c, v)
      /\ d.rexmitTimer = c.rexmitTimer /\ d.snd_max = c.snd_max
  BY AckFlow
<1> HIDE DEF d
<1>2. /\ d.state = c.state /\ d.ind = c.ind /\ d.the2MSLTimer = c.the2MSLTimer
      /\ Una(d, v) = Una(c, v) /\ Rcv(d, v) = Rcv(c, v) /\ d.send_fin = c.send_fin
      /\ d.snd_una = c.snd_una
  BY <1>1 DEF Sends, Same, Una, Rcv
<1>3. TimerExact(d)
  BY <1>1, <1>2 DEF TimerExact, Control
<1>4. Control(d, v)
  BY <1>1, <1>2, <1>3, ControlKept
<1>5. Top(c, v) \in Nat /\ Rcv(c, v) \in Nat
  BY OffsetTypes DEF Flow
<1> QED
  BY <1>1, <1>2, <1>4, <1>5, LivesOn DEF d

\* Steps five to eight on an established connection.
LEMMA EstablishedFlow ==
    ASSUME NEW v \in View, NEW c, Flow(c, v), c.state \in Synchronized, Control(c, v),
           NEW s \in Segment(0 .. v.peerSent), Theirs(s, v), NEW win \in Windows,
           c.state \in Opening \cup Finishing => Waiting(0, c),
           s.item # 0 => Minus(s.seqNo, c.rcv_nxt) \in 0 .. RcvWnd - 1
    PROVE  LET d == processAckTextFin(c, s, win)
           IN  Outcome(c, d, v) /\ ~Says(d.ind, "CONNECTION_RESET")
<1> DEFINE N == v.sent
           P == v.peerSent
           b == processAckInEstabEtc(c, s, win)
           k == sendAck(c)
           w == [k EXCEPT !.the2MSLTimer = MSL2]
           w2 == [b EXCEPT !.the2MSLTimer = MSL2]
           c1 == processAck(c, s, win)
           d == processAckTextFin(c, s, win)
           j == Minus(s.ackNo, v.iss)
<1>0. /\ N \in Nat /\ P \in Nat /\ c.state # "SYN_RCVD" /\ c \in Connection(N, P)
      /\ MSL2 \in Ticks /\ MSL2 > 0 /\ j \in Nat
      /\ Una(c, v) \in Nat /\ Top(c, v) \in Nat /\ Rcv(c, v) \in Nat
      /\ c.the2MSLTimer \in Ticks
  <2>1. j \in Nat
    BY ViewTypes, OffsetType DEF Segment
  <2> HIDE DEF j
  <2>2. N \in Nat /\ P \in Nat
    BY ViewTypes
  <2>3. c \in Connection(N, P)
    BY DEF Flow
  <2>4. c.state # "SYN_RCVD"
    BY DEF Synchronized
  <2>5. MSL2 \in Ticks /\ MSL2 > 0
    BY ConnectionAssumption DEF Ticks
  <2>6. c.the2MSLTimer \in Ticks
    BY <2>3 DEF Connection
  <2>7. Una(c, v) \in Nat /\ Top(c, v) \in Nat /\ Rcv(c, v) \in Nat
    BY <2>2, <2>3, OffsetTypes
  <2> QED BY <2>1, <2>2, <2>3, <2>4, <2>5, <2>6, <2>7
<1>1. /\ ~AcksUnsent(c, s)
      /\ Flow(b, v) /\ SameEnd(c, b) /\ Forward(c, b, v)
      /\ Una(b, v) = IF Una(c, v) < j THEN j ELSE Una(c, v)
      /\ PayloadLength(s) # 0 => Top(b, v) = Top(c, v)
      /\ PayloadLength(s) = 0 \/ Una(b, v) = Una(c, v) => TimerExact(b)
  BY <1>0, AckFiveFlow DEF Control
<1> HIDE DEF j
<1>2. AcksFin(c, s) <=> j = N + 2
  BY AcksFinFlow DEF j
<1> HIDE DEF b
<1>3. CASE c.state = "LAST_ACK" /\ AcksFin(c, s)
  <2>1. c1 = b
    BY <1>1, <1>3 DEF processAck, timeWaitAfterClosing, SameEnd, b
  <2>2. d = performStateTransition(c1, "RCV_ACK")
    BY <1>1, <1>3 DEF processAckTextFin
  <2> HIDE DEF d, c1
  <2>3. b.state = "LAST_ACK" /\ b.ind = c.ind /\ b.send_fin = c.send_fin /\ b.rcv_nxt = c.rcv_nxt
    BY <1>1, <1>3 DEF SameEnd
  <2>4. NextState(b, "RCV_ACK") = "CLOSED"
    BY <2>3 DEF NextState
  <2>5. b \in Connection(N, P) /\ ~b.failed
    BY <1>1 DEF Flow
  <2> DEFINE e == performStateTransition(b, "RCV_ACK")
  <2>6. /\ d \in Connection(N, P) /\ SameFlow(b, d) /\ d.state = "CLOSED"
        /\ d.ind = Append(c.ind, "CLOSED")
    <3>1. /\ e \in Connection(N, P) /\ SameFlow(b, e) /\ e.state = "CLOSED"
          /\ e.ind = Append(b.ind, "CLOSED")
      <4> HIDE DEF b
      <4>1. /\ e \in Connection(N, P) /\ SameFlow(b, e) /\ e.state = NextState(b, "RCV_ACK")
            /\ NextState(b, "RCV_ACK") # b.state =>
                 e.ind = CASE NextState(b, "RCV_ACK") = "CLOSE_WAIT" -> Append(b.ind, "PEER_CLOSED")
                           [] NextState(b, "RCV_ACK") = "TIME_WAIT" -> Append(b.ind, "CLOSED")
                           [] NextState(b, "RCV_ACK") = "CLOSED" /\ b.state # "TIME_WAIT"
                              /\ "RCV_ACK" # "ABORT" -> Append(b.ind, "CLOSED")
                           [] OTHER -> b.ind
        BY <1>0, <2>5, TransitionFrame
      <4> HIDE DEF e
      <4> QED BY <4>1, <2>3, <2>4
    <3>2. d = e
      BY <2>1, <2>2
    <3> QED BY <2>3, <3>1, <3>2
  <2>7. /\ Flow(d, v) /\ Top(d, v) = Top(b, v) /\ Rcv(d, v) = Rcv(b, v)
    BY <1>1, <2>6, SameFlowFlow
  <2>8. Rcv(b, v) = Rcv(c, v)
    BY <2>3 DEF Rcv
  <2>9. /\ ~Says(c.ind, "CLOSED") /\ Rcv(c, v) = P + 2 /\ ~Says(c.ind, "CONNECTION_RESET")
    BY <1>3 DEF Control, ToldRight, FinConsumed
  <2>10. Closing(d.ind) /\ ~Says(d.ind, "CONNECTION_RESET")
    <3>1. c.ind \in Seq(Indication) /\ "CLOSED" \in Indication
      BY <1>0, ConnectionTypes DEF Indication
    <3> QED BY <2>6, <2>9, <3>1, SaysAppend
  <2>11. Outcome(c, d, v)
    <3>1. d.send_fin = c.send_fin
      BY <2>3, <2>6 DEF SameFlow
    <3>2. Top(c, v) <= Top(d, v) /\ Rcv(c, v) <= Rcv(d, v) /\ Rcv(d, v) = P + 2
      BY <1>0, <1>1, <2>7, <2>8, <2>9 DEF Forward
    <3> QED BY <2>6, <2>7, <2>10, <3>1, <3>2 DEF Outcome, Synchronized
  <2> QED BY <2>10, <2>11 DEF d
<1>4. CASE ~(c.state = "LAST_ACK" /\ AcksFin(c, s))
  <2>1. d = processAfterText(processText(c1, s, win, c), s, c)
    BY <1>1, <1>4 DEF processAckTextFin
  <2>2. /\ Flow(c1, v) /\ Acked(c1, c, s, v)
        /\ c1.state = c.state /\ c1.rcv_nxt = c.rcv_nxt /\ c1.receiveQueue = c.receiveQueue
        /\ c1.send_fin = c.send_fin /\ Top(c, v) <= Top(c1, v) /\ Rcv(c1, v) = Rcv(c, v)
        /\ TimerExact(c1) \/ (s.item # 0 /\ seqGreater(c1.snd_una, c.snd_una))
    <3>1. CASE c.state = "TIME_WAIT"
      <4>1. c1 = w
        BY <3>1 DEF processAck
      <4>2. /\ Flow(k, v) /\ Sends(c, k, v) /\ Top(k, v) = Top(c, v)
            /\ k.rexmitTimer = c.rexmitTimer /\ k.snd_max = c.snd_max
        BY AckFlow
      <4> HIDE DEF k, c1
      <4>3. /\ w \in Connection(N, P) /\ SameFlow(k, w) /\ w.state = k.state /\ w.ind = k.ind
            /\ w.the2MSLTimer = MSL2 /\ w.rexmitTimer = k.rexmitTimer
        BY <1>0, <4>2 DEF Flow, Connection, SameFlow
      <4> HIDE DEF w
      <4>4. /\ Flow(w, v) /\ Una(w, v) = Una(k, v) /\ Top(w, v) = Top(k, v) /\ Rcv(w, v) = Rcv(k, v)
        BY <4>2, <4>3, SameFlowFlow
      <4>5. /\ w.state = c.state /\ w.ind = c.ind /\ w.rcv_nxt = c.rcv_nxt
            /\ w.receiveQueue = c.receiveQueue /\ w.send_fin = c.send_fin
            /\ w.snd_una = c.snd_una /\ w.snd_max = c.snd_max /\ w.rexmitTimer = c.rexmitTimer
            /\ Una(w, v) = Una(c, v) /\ Top(w, v) = Top(c, v) /\ Rcv(w, v) = Rcv(c, v)
        BY <4>2, <4>3, <4>4 DEF Sends, Same, SameFlow, Una, Rcv
      <4>6. TimerExact(w) /\ ToldRight(w, v)
        BY <4>5 DEF Control, TimerExact, ToldRight
      <4>7. Acked(w, c, s, v)
        BY <1>0, <3>1, <4>3, <4>5, <4>6 DEF Acked, Control, FinConsumed, Opening, Synchronized
      <4> QED BY <1>0, <4>1, <4>4, <4>5, <4>6, <4>7
    <3>2. CASE c.state # "TIME_WAIT"
      <4>0. /\ b.state = c.state /\ b.ind = c.ind /\ b.rcv_nxt = c.rcv_nxt
            /\ b.receiveQueue = c.receiveQueue /\ b.send_fin = c.send_fin
            /\ b.the2MSLTimer = c.the2MSLTimer /\ Rcv(b, v) = Rcv(c, v)
        BY <1>1 DEF SameEnd, Rcv
      <4>1. c.the2MSLTimer = 0
        BY <1>0, <3>2, ConnectionAssumption DEF Control, Ticks
      <4>2. c1 = IF c.state = "CLOSING" /\ b.fin_ack_rcvd THEN w2 ELSE b
        BY <3>2, <4>0, <4>1 DEF processAck, timeWaitAfterClosing, start2MSLTimer, b
      <4>3. /\ w2 \in Connection(N, P) /\ SameFlow(b, w2) /\ w2.state = b.state /\ w2.ind = b.ind
            /\ w2.the2MSLTimer = MSL2 /\ w2.rexmitTimer = b.rexmitTimer
        BY <1>0, <1>1 DEF Flow, Connection, SameFlow
      <4> HIDE DEF w2, c1
      <4>4. /\ Flow(w2, v) /\ Una(w2, v) = Una(b, v) /\ Nxt(w2, v) = Nxt(b, v)
            /\ Top(w2, v) = Top(b, v) /\ Rcv(w2, v) = Rcv(b, v)
        BY <1>1, <4>3, SameFlowFlow
      <4>5. /\ Flow(c1, v) /\ Una(c1, v) = Una(b, v) /\ Nxt(c1, v) = Nxt(b, v)
            /\ Top(c1, v) = Top(b, v) /\ Rcv(c1, v) = Rcv(c, v)
            /\ c1.state = c.state /\ c1.ind = c.ind /\ c1.rcv_nxt = c.rcv_nxt
            /\ c1.receiveQueue = c.receiveQueue /\ c1.send_fin = c.send_fin
            /\ c1.fin_ack_rcvd = b.fin_ack_rcvd
            /\ c1.rexmitTimer = b.rexmitTimer /\ c1.snd_una = b.snd_una /\ c1.snd_max = b.snd_max
        BY <1>1, <4>0, <4>2, <4>3, <4>4 DEF SameFlow
      <4>6. c1.the2MSLTimer > 0 <=> c.state = "CLOSING" /\ c1.fin_ack_rcvd
        BY <1>0, <4>0, <4>1, <4>2, <4>3, <4>5
      <4>7. TimerExact(c1) \/ (s.item # 0 /\ seqGreater(c1.snd_una, c.snd_una))
        <5>1. CASE PayloadLength(s) = 0 \/ Una(b, v) = Una(c, v)
          BY <1>1, <4>5, <5>1 DEF TimerExact
        <5>2. CASE ~(PayloadLength(s) = 0 \/ Una(b, v) = Una(c, v))
          <6>1. s.item # 0
            BY <5>2 DEF PayloadLength
          <6>2. Minus(b.snd_una, v.iss) > Minus(c.snd_una, v.iss)
            BY <1>0, <1>1, <5>2 DEF Una
          <6>3. /\ b.snd_una \in SeqNo /\ c.snd_una \in SeqNo
                /\ Minus(b.snd_una, v.iss) \in 1 .. N + 2 /\ Minus(c.snd_una, v.iss) \in 1 .. N + 2
            BY <1>1, FlowFacts DEF Una
          <6>4. /\ N + 2 <= Half /\ Half \in Nat /\ v.iss \in SeqNo
            BY ViewTypes
          <6>5. /\ Minus(b.snd_una, v.iss) - Minus(c.snd_una, v.iss) < Half
                /\ Minus(c.snd_una, v.iss) - Minus(b.snd_una, v.iss) < Half
            BY <1>0, <6>3, <6>4
          <6>6. seqGreater(b.snd_una, c.snd_una)
            BY <6>2, <6>3, <6>4, <6>5, Offsets
          <6> QED BY <4>5, <6>1, <6>6
        <5> QED BY <5>1, <5>2
      <4>8. ToldRight(c1, v)
        BY <4>5 DEF Control, ToldRight
      <4>9. /\ Una(b, v) \in Nat /\ Top(b, v) \in Nat /\ Top(b, v) <= N + 2 /\ Una(b, v) <= N + 2
            /\ Top(c, v) <= Top(b, v)
            /\ Top(b, v) = Top(c, v) \/ Nxt(b, v) = Top(b, v)
            /\ Una(b, v) <= v.peerNxt /\ v.peerNxt <= Top(c, v) /\ v.peerNxt \in Nat
        <5>1. Una(b, v) \in 1 .. N + 2 /\ Top(b, v) \in 1 .. N + 2
          BY <1>1, FlowFacts
        <5> QED BY <1>0, <1>1, <5>1, ViewTypes DEF Forward, Flow
      <4>10. ASSUME c.state \in {"SYN_RCVD", "ESTABLISHED", "CLOSE_WAIT"}
             PROVE  /\ Una(c1, v) <= N + 1
                    /\ c.snd_nxt \in SeqNo /\ Minus(c.snd_nxt, v.iss) # N + 2
                    /\ Top(c1, v) <= N + 1 \/ Nxt(c1, v) = Top(c1, v)
                    /\ s.item # 0 => Top(c1, v) <= N + 1
        <5>1. Top(c, v) <= N + 1
          BY <1>0, <4>10 DEF Control
        <5>2. Nxt(c, v) <= Top(c, v) /\ Nxt(c, v) \in 1 .. N + 2 /\ c.snd_nxt \in SeqNo
          BY FlowFacts
        <5>3. Minus(c.snd_nxt, v.iss) # N + 2
          BY <1>0, <5>1, <5>2 DEF Nxt
        <5>4. s.item # 0 => Top(b, v) = Top(c, v)
          BY <1>1 DEF PayloadLength
        <5> QED BY <1>0, <4>5, <4>9, <5>1, <5>2, <5>3, <5>4
      <4>11. c.state \in {"FIN_WAIT_1", "CLOSING", "LAST_ACK"} => Top(c1, v) = N + 2
        BY <1>0, <4>5, <4>9 DEF Control
      <4>12. c.state = "LAST_ACK" => Una(c1, v) < N + 2
        BY <1>0, <1>1, <1>2, <1>4, <4>5, <4>9 DEF Control
      <4>13. c.state = "FIN_WAIT_2" => Una(c1, v) = N + 2
        BY <1>0, <1>1, <4>5, <4>9 DEF Control
      <4>14. /\ c.state \in Opening => Rcv(c1, v) <= P + 1
             /\ c.state \in FinConsumed => Rcv(c1, v) = P + 2
        BY <1>0, <4>5 DEF Control, Opening
      <4>15. Acked(c1, c, s, v)
        BY <1>0, <3>2, <4>5, <4>6, <4>8, <4>10, <4>11, <4>12, <4>13, <4>14 DEF Acked
      <4> QED BY <1>0, <4>5, <4>7, <4>9, <4>15
    <3> QED BY <3>1, <3>2
  <2> HIDE DEF c1
  <2>3. /\ c1.state \in Opening \cup Finishing => Waiting(0, c1)
        /\ s.item # 0 => Minus(s.seqNo, c1.rcv_nxt) \in 0 .. RcvWnd - 1
    BY <2>2 DEF Waiting
  <2> DEFINE e == processAfterText(processText(c1, s, win, c), s, c)
  <2>4. /\ Flow(e, v) /\ e.state \in Synchronized /\ Control(e, v)
        /\ Top(c1, v) <= Top(e, v) /\ Rcv(c1, v) <= Rcv(e, v)
        /\ e.send_fin = c1.send_fin
    BY <2>2, <2>3, AfterAckFlow
  <2> HIDE DEF e, d
  <2>5. d = e
    BY <2>1 DEF e
  <2>6. Top(c, v) <= Top(d, v) /\ Rcv(c, v) <= Rcv(d, v) /\ d.send_fin = c.send_fin
    <3>1. Top(c1, v) \in Nat /\ Top(e, v) \in Nat
      BY <2>2, <2>4, OffsetTypes DEF Flow
    <3> QED BY <1>0, <2>2, <2>4, <2>5, <3>1
  <2>7. Outcome(c, d, v) /\ ~Says(d.ind, "CONNECTION_RESET")
    BY <2>4, <2>5, <2>6, LivesOn
  <2> QED BY <2>7 DEF d
<1> QED
  BY <1>3, <1>4

\* A segment of the peer on an established connection.
LEMMA SyncSegmentFlow ==
    ASSUME NEW v \in View, NEW c, Flow(c, v), c.state \in Synchronized, Control(c, v),
           NEW s \in Segment(0 .. v.peerSent), Theirs(s, v), NEW win \in Windows,
           Window(c, c.state)
    PROVE  LET d == process_RCV_SEGMENT(c, s, win)
           IN  Outcome(c, d, v) /\ ~Says(d.ind, "CONNECTION_RESET")
<1> DEFINE d == process_RCV_SEGMENT(c, s, win)
<1>1. ~Has(s, "RST") /\ ~Has(s, "SYN") /\ Has(s, "ACK")
  BY DEF Theirs, Piece, Has
<1>2. d = IF ~isSegmentAcceptable(c, s) THEN sendAck(c) ELSE processAckTextFin(c, s, win)
  BY <1>1 DEF process_RCV_SEGMENT, processSegment1stThru8th, Synchronized
<1>3. CASE ~isSegmentAcceptable(c, s)
  <2>1. d = sendAck(c)
    BY <1>2, <1>3
  <2> HIDE DEF d
  <2> QED BY <2>1, AckControl DEF d
<1>4. CASE isSegmentAcceptable(c, s)
  <2>1. d = processAckTextFin(c, s, win)
    BY <1>2, <1>4
  <2>2. s.item # 0 => Minus(s.seqNo, c.rcv_nxt) \in 0 .. RcvWnd - 1
    BY <1>4, TextInWindow DEF Flow
  <2>3. c.state \in Opening \cup Finishing => Waiting(0, c)
    BY ConnectionAssumption DEF Window, Waiting
  <2> DEFINE e == processAckTextFin(c, s, win)
  <2>4. Outcome(c, e, v) /\ ~Says(e.ind, "CONNECTION_RESET")
    BY <2>2, <2>3, EstablishedFlow
  <2> HIDE DEF d, e
  <2> QED BY <2>1, <2>4 DEF d, e
<1> QED
  BY <1>3, <1>4
=============================================================================
