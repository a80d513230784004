---------------------------- MODULE Walks_proofs ----------------------------
(***************************************************************************)
(* Induction over data.  The library's induction theorem for the natural   *)
(* numbers takes a predicate; here it is stated for a set, which needs     *)
(* nothing but first-order logic: a set of naturals has a least element.   *)
(* From it follow the two facts that the proofs about loops use: a         *)
(* recursive function along 0 ..  n is defined, and what holds at its      *)
(* start and is kept by each of its steps holds everywhere.                *)
(***************************************************************************)
EXTENDS Integers, Sequences, WellFoundedInduction, TLAPS

\* A nonempty set of natural numbers has a least element.
LEMMA LeastNatural ==
    ASSUME NEW S \in SUBSET Nat, S # {}
    PROVE  \E m \in S : \A k \in S : m <= k
<1>1. IsWellFoundedOn(OpToRel(<, Nat), Nat)
  BY NatLessThanWellFounded
<1>2. \E x \in S : \A y \in S : ~ (<<y, x>> \in OpToRel(<, Nat))
  BY <1>1, WFMin
<1>3. \A x, y \in Nat : ~ (<<y, x>> \in OpToRel(<, Nat)) => x <= y
  BY DEF OpToRel
<1> QED
  BY <1>2, <1>3

\* What holds of 0, and of i when it holds of i - 1, holds up to n.
LEMMA Induction ==
    ASSUME NEW S, 0 \in S, NEW n \in Nat,
           \A i \in 1 .. n : i - 1 \in S => i \in S
    PROVE  \A i \in 0 .. n : i \in S
<1> SUFFICES ASSUME NEW i \in 0 .. n, i \notin S PROVE FALSE
  OBVIOUS
<1> DEFINE T == {k \in 0 .. n : k \notin S}
<1>1. T \in SUBSET Nat /\ T # {}
  OBVIOUS
<1>2. PICK m \in T : \A k \in T : m <= k
  <2> HIDE DEF T
  <2> QED BY <1>1, LeastNatural
<1>3. m # 0 /\ m - 1 \in 0 .. n
  BY <1>2
<1>4. m - 1 \in S
  BY <1>2, <1>3
<1> QED
  BY <1>2, <1>3, <1>4

\* A walk that starts in A and takes no step out of A stays in A.
LEMMA WalkStays ==
    ASSUME NEW n \in Nat, NEW f, NEW A,
           f[0] \in A,
           \A i \in 1 .. n : f[i - 1] \in A => f[i] \in A
    PROVE  \A i \in 0 .. n : f[i] \in A
<1> DEFINE S == {i \in 0 .. n : f[i] \in A}
<1>1. 0 \in S /\ \A i \in 1 .. n : i - 1 \in S => i \in S
  OBVIOUS
<1> HIDE DEF S
<1>2. \A i \in 0 .. n : i \in S
  BY <1>1, Induction
<1> QED
  BY <1>2 DEF S

\* f is the walk of n steps that starts with b and takes step i by g.
IsWalk(f, n, b, g) == f[0] = b /\ \A i \in 1 .. n : f[i] = g[<<i, f[i - 1]>>]

\* A walk over a set A that its steps do not leave exists.  This is what makes
\* the value of a recursive function f[i \in 0 .. n] known, as TLA+ defines it by
\* a CHOOSE.
LEMMA WalkDefined ==
    ASSUME NEW n \in Nat, NEW A, NEW b \in A, NEW g \in [(1 .. n) \X A -> A]
    PROVE  \E f \in [0 .. n -> A] : IsWalk(f, n, b, g)
<1> DEFINE P(k) == \E f \in [0 .. k -> A] : /\ f[0] = b
                                   /\ \A i \in 1 .. k : f[i] = g[<<i, f[i - 1]>>]
           S == {k \in 0 .. n : P(k)}
<1>1. 0 \in S
  <2>1. P(0)
    <3> WITNESS [i \in 0 .. 0 |-> b] \in [0 .. 0 -> A]
    <3> QED OBVIOUS
  <2> QED BY <2>1
<1>2. ASSUME NEW k \in 1 .. n, k - 1 \in S PROVE k \in S
  <2>1. PICK f \in [0 .. k - 1 -> A] : /\ f[0] = b
                      /\ \A i \in 1 .. k - 1 : f[i] = g[<<i, f[i - 1]>>]
    BY <1>2
  <2> DEFINE h == [i \in 0 .. k |-> IF i = k THEN g[<<k, f[k - 1]>>] ELSE f[i]]
  <2>2. h \in [0 .. k -> A]
    BY <2>1
  <2>3. h[0] = b /\ \A i \in 1 .. k : h[i] = g[<<i, h[i - 1]>>]
    <3>1. h[0] = b
      BY <2>1
    <3>2. ASSUME NEW i \in 1 .. k PROVE h[i] = g[<<i, h[i - 1]>>]
      <4>1. h[i - 1] = f[i - 1]
        OBVIOUS
      <4>2. i # k => h[i] = f[i] /\ i \in 1 .. k - 1
        OBVIOUS
      <4>3. i = k => h[i] = g[<<k, f[k - 1]>>]
        OBVIOUS
      <4> HIDE DEF h
      <4> QED BY <2>1, <4>1, <4>2, <4>3
    <3> QED BY <3>1, <3>2
  <2>4. P(k)
    <3> HIDE DEF h
    <3> QED BY <2>2, <2>3
  <2> QED BY <2>4
<1>3. n \in S
  <2> HIDE DEF S
  <2>1. \A i \in 0 .. n : i \in S
    BY <1>1, <1>2, Induction
  <2> QED BY <2>1
<1>4. PICK f \in [0 .. n -> A] : /\ f[0] = b
                      /\ \A i \in 1 .. n : f[i] = g[<<i, f[i - 1]>>]
  BY <1>3
<1>5. IsWalk(f, n, b, g)
  BY <1>4 DEF IsWalk
<1> QED
  BY <1>5
=============================================================================
