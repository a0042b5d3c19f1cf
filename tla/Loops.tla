------------------------------- MODULE Loops --------------------------------
(***************************************************************************)
(* The rule for the loops of the code. A loop over a slice is a fold in    *)
(* the model; this module, instantiated with the turn of a loop and with   *)
(* what holds after n turns, proves what holds after the loop. It is       *)
(* proved once, by induction, for every length of the slice.               *)
(*                                                                         *)
(* Turn(c, t, x)   the body: state t, element x, c the variables it reads  *)
(* Good(c, n, t)   what holds of t after n turns                           *)
(***************************************************************************)
EXTENDS Integers, Sequences, TLAPS
LOCAL INSTANCE FiniteSetTheorems

CONSTANTS Turn(_, _, _), Good(_, _, _)

-----------------------------------------------------------------------------
(* Naturals.                                                               *)

\* A nonempty set of naturals has a least element. The intervals 1..n are
\* finite sets, which strict inclusion well-orders.
LEMMA LeastNatural ==
    ASSUME NEW S \in SUBSET Nat, S # {}
    PROVE  \E m \in S : \A k \in S : m <= k
  <1> DEFINE T == {1..n : n \in S}
  <1>1. T \subseteq FiniteSubsetsOf(Nat)
    <2>1. \A n \in Nat : IsFiniteSet(1..n)
      BY FS_Interval
    <2> QED
      BY <2>1 DEF FiniteSubsetsOf
  <1>2. T # {}
    OBVIOUS
  <1>3. IsWellFoundedOn(StrictSubsetOrdering(Nat), FiniteSubsetsOf(Nat))
    BY FS_StrictSubsetOrderingWellFounded
  <1>4. PICK x \in T : \A y \in T : ~ (<<y, x>> \in StrictSubsetOrdering(Nat))
    BY <1>1, <1>2, <1>3, WFMin
  <1>5. PICK m \in S : x = 1..m
    OBVIOUS
  <1>6. ASSUME NEW k \in S, k < m PROVE FALSE
    <2>1. 1..k \in T /\ 1..k \subseteq 1..m /\ 1..k # 1..m
      BY <1>6
    <2>2. <<1..k, 1..m>> \in StrictSubsetOrdering(Nat)
      BY <2>1 DEF StrictSubsetOrdering
    <2> QED
      BY <1>4, <1>5, <2>1, <2>2
  <1> QED
    BY <1>6

\* Induction over the naturals for a set: what LeastNatural says of its
\* complement.
LEMMA Induction ==
    ASSUME NEW S, 0 \in S, \A n \in Nat : n \in S => n + 1 \in S
    PROVE  \A n \in Nat : n \in S
  <1> DEFINE T == {n \in Nat : n \notin S}
  <1> SUFFICES ASSUME T # {} PROVE FALSE
    OBVIOUS
  <1>1. PICK m \in T : \A k \in T : m <= k
    BY LeastNatural
  <1>2. m # 0 /\ m - 1 \in Nat /\ m - 1 \notin T
    BY <1>1
  <1> QED
    BY <1>2

-----------------------------------------------------------------------------
(* Loops.                                                                  *)

Greatest(T) == CHOOSE x \in T : \A y \in T : x >= y

\* The loop over q, from state s: what FoldLeft stands for, written out so
\* that an instance of this module brings no other with it.
Loop(c, s, q) ==
    LET iter[T \in SUBSET DOMAIN q] ==
            IF T = {} THEN s
            ELSE LET x == Greatest(T) IN Turn(c, iter[T \ {x}], q[x])
    IN  iter[DOMAIN q]

\* g is the function by which a fold over n places is defined.
Unrolled(g, c, s, q, n) ==
    g = [T \in SUBSET (1..n) |-> IF T = {} THEN s ELSE Turn(c, g[T \ {Greatest(T)}], q[Greatest(T)])]

\* The recursive function that defines a fold over n places exists, by
\* induction on n.
LEMMA UnrolledExists ==
    ASSUME NEW c, NEW s, NEW q PROVE \A n \in Nat : \E g : Unrolled(g, c, s, q, n)
  <1> DEFINE S == {n \in Nat : \E g : Unrolled(g, c, s, q, n)}
  <1>1. 0 \in S
    <2>1. SUBSET (1..0) = {{}}
      OBVIOUS
    <2>2. Unrolled([T \in SUBSET (1..0) |-> s], c, s, q, 0)
      BY <2>1 DEF Unrolled
    <2> QED
      BY <2>2
  <1>2. ASSUME NEW n \in Nat, n \in S PROVE n + 1 \in S
    <2>1. PICK g : Unrolled(g, c, s, q, n)
      BY <1>2
    <2> DEFINE h == [T \in SUBSET (1..(n + 1)) |->
                        IF n + 1 \in T THEN Turn(c, g[T \ {n + 1}], q[n + 1]) ELSE g[T]]
    <2>2. ASSUME NEW T \in SUBSET (1..(n + 1))
          PROVE  h[T] = IF T = {} THEN s ELSE Turn(c, h[T \ {Greatest(T)}], q[Greatest(T)])
      <3>1. CASE n + 1 \in T
        <4>1. Greatest(T) = n + 1
          <5>1. \A x \in T : x \in 1..(n + 1)
            OBVIOUS
          <5>2. \A y \in T : n + 1 >= y
            BY <5>1
          <5>3. \A x \in T : (\A y \in T : x >= y) => x = n + 1
            BY <3>1, <5>1
          <5> QED
            BY <3>1, <5>2, <5>3 DEF Greatest
        <4>2. T \ {n + 1} \in SUBSET (1..(n + 1)) /\ n + 1 \notin T \ {n + 1} /\ T # {}
          BY <3>1
        <4>3. h[T \ {n + 1}] = g[T \ {n + 1}]
          BY <4>2
        <4>4. h[T] = Turn(c, g[T \ {n + 1}], q[n + 1])
          BY <3>1
        <4> HIDE DEF h
        <4> QED
          BY <4>1, <4>2, <4>3, <4>4
      <3>2. CASE n + 1 \notin T
        <4>0. \A x \in T : x \in 1..n
          <5>1. \A x \in T : x \in 1..(n + 1)
            OBVIOUS
          <5> QED
            BY <3>2, <5>1
        <4>1. T \in SUBSET (1..n) /\ T \ {Greatest(T)} \in SUBSET (1..n)
          BY <4>0
        <4>2. h[T] = g[T] /\ h[T \ {Greatest(T)}] = g[T \ {Greatest(T)}]
          BY <3>2, <4>1
        <4>3. g[T] = IF T = {} THEN s ELSE Turn(c, g[T \ {Greatest(T)}], q[Greatest(T)])
          BY <2>1, <4>1 DEF Unrolled
        <4> HIDE DEF h
        <4> QED
          BY <4>2, <4>3
      <3> QED
        BY <3>1, <3>2
    <2>3. Unrolled(h, c, s, q, n + 1)
      BY <2>2 DEF Unrolled
    <2> QED
      BY <2>3
  <1> HIDE DEF S
  <1>3. \A n \in Nat : n \in S
    BY <1>1, <1>2, Induction
  <1> QED
    BY <1>3 DEF S

\* The loop goes through a sequence of states, one per turn, and returns the
\* last.
THEOREM LoopTrace ==
    ASSUME NEW c, NEW s, NEW V, NEW q \in Seq(V)
    PROVE  \E tr : /\ tr[0] = s
                   /\ \A n \in 1..Len(q) : tr[n] = Turn(c, tr[n - 1], q[n])
                   /\ Loop(c, s, q) = tr[Len(q)]
  <1> DEFINE g == CHOOSE g : Unrolled(g, c, s, q, Len(q))
  <1>1. Len(q) \in Nat /\ DOMAIN q = 1..Len(q)
    OBVIOUS
  <1>2. Unrolled(g, c, s, q, Len(q))
    BY <1>1, UnrolledExists
  <1>3. Loop(c, s, q) = g[1..Len(q)]
    BY <1>1 DEF Loop, Unrolled
  <1> DEFINE tr == [n \in 0..Len(q) |-> g[1..n]]
  <1>4. tr[0] = s
    <2>1. 1..0 = {} /\ {} \in SUBSET (1..Len(q))
      OBVIOUS
    <2>2. g[{}] = s
      BY <1>2, <2>1 DEF Unrolled
    <2> HIDE DEF g
    <2> QED
      BY <1>1, <2>1, <2>2
  <1>5. ASSUME NEW n \in 1..Len(q) PROVE tr[n] = Turn(c, tr[n - 1], q[n])
    <2>0. n \in Nat /\ n >= 1 /\ n <= Len(q)
      BY <1>1
    <2>1. 1..n \in SUBSET (1..Len(q)) /\ 1..n # {}
      <3>1. \A x \in 1..n : x \in 1..Len(q)
        BY <2>0, <1>1
      <3>2. n \in 1..n
        BY <2>0
      <3> QED
        BY <3>1, <3>2
    <2>4. (1..n) \ {n} = 1..(n - 1)
      <3>1. \A x : x \in (1..n) \ {n} <=> x \in 1..(n - 1)
        BY <2>0
      <3> QED
        BY <3>1
    <2>2. Greatest(1..n) = n
      BY DEF Greatest
    <2>3. g[1..n] = Turn(c, g[1..(n - 1)], q[n])
      BY <1>2, <2>1, <2>2, <2>4 DEF Unrolled
    <2> QED
      BY <2>3
  <1>6. tr[Len(q)] = g[1..Len(q)]
    BY <1>1
  <1> QED
    BY <1>3, <1>4, <1>5, <1>6

\* The rule for loops: when Good holds before the loop and each turn keeps
\* it, it holds after the loop.
THEOREM LoopKeeps ==
    ASSUME NEW c, NEW s, NEW V, NEW q \in Seq(V), Good(c, 0, s),
           \A n \in 1..Len(q) : \A t : Good(c, n - 1, t) => Good(c, n, Turn(c, t, q[n]))
    PROVE  Good(c, Len(q), Loop(c, s, q))
  <1>1. PICK tr : /\ tr[0] = s
                  /\ \A n \in 1..Len(q) : tr[n] = Turn(c, tr[n - 1], q[n])
                  /\ Loop(c, s, q) = tr[Len(q)]
    BY LoopTrace
  <1> DEFINE S == {n \in Nat : n <= Len(q) => Good(c, n, tr[n])}
  <1>2. 0 \in S
    BY <1>1
  <1>3. ASSUME NEW n \in Nat, n \in S PROVE n + 1 \in S
    <2> SUFFICES ASSUME n + 1 <= Len(q) PROVE Good(c, n + 1, tr[n + 1])
      OBVIOUS
    <2>1. n + 1 \in 1..Len(q) /\ (n + 1) - 1 = n /\ n <= Len(q)
      OBVIOUS
    <2>2. Good(c, n, tr[n])
      BY <1>3, <2>1
    <2> QED
      BY <1>1, <2>1, <2>2
  <1> HIDE DEF S
  <1>4. \A n \in Nat : n \in S
    BY <1>2, <1>3, Induction
  <1>5. Len(q) \in Nat /\ Len(q) \in S
    BY <1>4
  <1> QED
    BY <1>1, <1>5 DEF S
=============================================================================
