--------------------------- MODULE ReliableStream ---------------------------
(***************************************************************************)
(* What a TCP connection promises to the applications at its two ends: in  *)
(* each direction, the items that one application sends reach the other in *)
(* order, without loss, duplication or invention, and the end of the       *)
(* stream is announced only after all of them.  A stream may stop at any   *)
(* point, when the connection breaks.                                      *)
(*                                                                         *)
(* The items an end sends are numbered 1, 2, ...                           *)
(***************************************************************************)
EXTENDS Naturals, Sequences

CONSTANTS End, Peer(_)

VARIABLES
    sent,       \* sent[e]: number of items the application of e has sent
    finished,   \* finished[e]: the application of e has closed its stream
    delivered,  \* delivered[e]: items given to the application of e
    eof         \* eof[e]: the application of e knows that the peer has closed

vars == <<sent, finished, delivered, eof>>

Init ==
    /\ sent = [e \in End |-> 0]
    /\ finished = [e \in End |-> FALSE]
    /\ delivered = [e \in End |-> <<>>]
    /\ eof = [e \in End |-> FALSE]

Send(e) ==
    /\ ~finished[e]
    /\ sent' = [sent EXCEPT ![e] = @ + 1]
    /\ UNCHANGED <<finished, delivered, eof>>

Finish(e) ==
    /\ finished' = [finished EXCEPT ![e] = TRUE]
    /\ UNCHANGED <<sent, delivered, eof>>

\* The next n items of the peer's stream, and the end of it if ends is TRUE.
Deliver(e, n, ends) ==
    LET k == Len(delivered[e])
    IN  /\ k + n <= sent[Peer(e)]
        /\ ~eof[e]
        /\ ends => finished[Peer(e)] /\ k + n = sent[Peer(e)]
        /\ delivered' = [delivered EXCEPT ![e] = @ \o [i \in 1 .. n |-> k + i]]
        /\ eof' = [eof EXCEPT ![e] = ends]
        /\ UNCHANGED <<sent, finished>>

Next ==
    \E e \in End :
        \/ Send(e)
        \/ Finish(e)
        \/ \E n \in 0 .. sent[Peer(e)], ends \in BOOLEAN : Deliver(e, n, ends)

Spec == Init /\ [][Next]_vars
=============================================================================
