-------------------------- MODULE ReassemblyBuffer --------------------------
(***************************************************************************)
(* The reassembly buffer of one datagram (src/base/ReassemblyBuffer.cc): a *)
(* main region that grows, and a vector of regions that wait until the gap *)
(* before them is filled.  The vector is a set here: a region that is in   *)
(* it twice is deleted when it is met again, and the regions are pieces of *)
(* one partition, so the order of the walk does not matter.  Offsets are   *)
(* 16 bits wide in the code; datagrams of less than 2^16 bytes never reach *)
(* the end of that range.                                                  *)
(***************************************************************************)
EXTENDS Naturals, FiniteSets

Region(beg, end, islast) == [beg |-> beg, end |-> end, islast |-> islast]

\* A buffer that has seen no fragment yet.
NewBuffer == [main |-> Region(0, 0, FALSE), fragments |-> {}]

Follows(main, r) == main.end = r.beg

Precedes(main, r) == main.beg = r.end

Contains(main, r) == main.beg <= r.beg /\ main.end >= r.end

\* Region r, which connects to the main region, becomes part of it.
Extend(main, r) ==
    IF Follows(main, r)
    THEN Region(main.beg, r.end, main.islast \/ r.islast)
    ELSE Region(r.beg, main.end, main.islast)

Connects(main, r) == Follows(main, r) \/ Precedes(main, r)

\* Mutant: one walk over the vector, although main has grown meanwhile.
mergeFragmentsOnce(b) ==
    LET old == {r \in b.fragments : Connects(b.main, r)}
    IN  IF old = {} THEN b
        ELSE [main |-> Extend(b.main, CHOOSE r \in old : TRUE),
              fragments |-> b.fragments \ old]

\* One region that connects to the main one is found and taken out of the
\* vector; nothing changes when there is none.
mergeNext(b) ==
    LET next == {r \in b.fragments : Connects(b.main, r)}
        r == CHOOSE x \in next : TRUE
    IN  IF next = {} THEN b
        ELSE [main |-> Extend(b.main, r), fragments |-> b.fragments \ {r}]

\* The do-while loop of ReassemblyBuffer::mergeFragments: each round but the
\* last deletes a region, so that there are no more rounds than regions.
mergeFragments(b) ==
    LET after[n \in 0 .. Cardinality(b.fragments)] ==
            IF n = 0 THEN b ELSE mergeNext(after[n - 1])
        c == after[Cardinality(b.fragments)]
    IN  [main |-> c.main, fragments |-> {x \in c.fragments : ~Contains(c.main, x)}]

\* ReassemblyBuffer::merge.
merge(b, r) ==
    IF Connects(b.main, r)
    THEN mergeFragments([b EXCEPT !.main = Extend(@, r)])
    ELSE IF b.main.end < r.beg \/ b.main.beg > r.end
    THEN [b EXCEPT !.fragments = @ \cup {r}]
    ELSE b

IsComplete(b) == b.main.beg = 0 /\ b.main.islast

getTotalLength(b) == b.main.end
=============================================================================
