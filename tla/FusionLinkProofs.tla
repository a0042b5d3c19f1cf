-------------------------- MODULE FusionLinkProofs --------------------------
(***************************************************************************)
(* The inductive invariant of the fusion store, and the operations on      *)
(* links.                                                                  *)
(*                                                                         *)
(* The invariant holds between the steps of the event loop. Inside a step  *)
(* it holds but for a few links: the operations are proved to keep         *)
(* Linked(s, P, K, E, W), where the links in P are on the list of no       *)
(* device, those in K may have another key than their device, those in E   *)
(* may have no evidence yet, and those in W are not on the timing wheel.   *)
(***************************************************************************)
EXTENDS Fusion, SequenceTheorems, FiniteSetTheorems, FunctionTheorems, TLAPS

\* The facts on naturals of Loops, which do not depend on a loop.
NoTurn(c, t, x) == t
NoGood(c, n, t) == TRUE
NL == INSTANCE Loops WITH Turn <- NoTurn, Good <- NoGood

-----------------------------------------------------------------------------
(* Slices that list the elements of a set, each once: what the operations  *)
(* of the code on slices, free lists and wheels do to that set.            *)

Lists(q, S) ==
    /\ q \in Seq(S)
    /\ \A x \in S : \E n \in 1..Len(q) : q[n] = x
    /\ \A m, n \in 1..Len(q) : q[m] = q[n] => m = n

\* append(q, x) for a new x.
LEMMA ListsAppend ==
    ASSUME NEW S, NEW q, Lists(q, S), NEW x, x \notin S
    PROVE  Lists(Append(q, x), S \cup {x})
  <1>1. q \in Seq(S \cup {x})
    BY DEF Lists
  <1>2. /\ Append(q, x) \in Seq(S \cup {x})
        /\ Len(Append(q, x)) = Len(q) + 1 /\ Len(q) \in Nat
        /\ Append(q, x)[Len(q) + 1] = x
        /\ \A n \in 1..Len(q) : Append(q, x)[n] = q[n] /\ q[n] \in S
    BY <1>1 DEF Lists
  <1>3. ASSUME NEW y \in S \cup {x} PROVE \E n \in 1..Len(Append(q, x)) : Append(q, x)[n] = y
    <2>1. CASE y = x
      BY <1>2, <2>1
    <2>2. CASE y \in S
      <3>1. PICK n \in 1..Len(q) : q[n] = y
        BY <2>2 DEF Lists
      <3>2. n \in 1..Len(Append(q, x))
        BY <1>2, <3>1
      <3> QED
        BY <1>2, <3>1, <3>2
    <2> QED
      BY <2>1, <2>2
  <1>4. ASSUME NEW m \in 1..Len(Append(q, x)), NEW n \in 1..Len(Append(q, x)),
               Append(q, x)[m] = Append(q, x)[n]
        PROVE  m = n
    <2>1. (m \in 1..Len(q) \/ m = Len(q) + 1) /\ (n \in 1..Len(q) \/ n = Len(q) + 1)
      BY <1>2
    <2> QED
      BY <1>2, <1>4, <2>1 DEF Lists
  <1> QED
    BY <1>2, <1>3, <1>4 DEF Lists

\* Popping the last element, as the free lists do.
LEMMA ListsLast ==
    ASSUME NEW S, NEW q, Lists(q, S), q # <<>>
    PROVE  /\ Last(q) \in S
           /\ Lists(Front(q), S \ {Last(q)})
  <1>1. Len(q) \in Nat \ {0} /\ q \in Seq(S)
    BY DEF Lists
  <1>2. Last(q) = q[Len(q)] /\ Last(q) \in S
    BY <1>1 DEF Last
  <1> SUFFICES ASSUME NEW f, f = Front(q), NEW T, T = S \ {Last(q)}
               PROVE  Lists(f, T)
    BY <1>2
  <1>3. \A n \in 1..(Len(q) - 1) : q[n] \in T
    <2> TAKE n \in 1..(Len(q) - 1)
    <2>1. n \in 1..Len(q) /\ Len(q) \in 1..Len(q) /\ n # Len(q)
      BY <1>1
    <2>2. q[n] # q[Len(q)] /\ q[n] \in S
      BY <1>1, <2>1 DEF Lists
    <2> QED
      BY <1>2, <2>2
  <1>4. /\ f \in Seq(T)
        /\ Len(f) = Len(q) - 1
        /\ \A n \in 1..(Len(q) - 1) : f[n] = q[n]
    <2>1. Len(q) - 1 \in Int /\ 1 \in Int
      BY <1>1
    <2>2. /\ f \in Seq(T)
          /\ Len(f) = IF 1 <= Len(q) - 1 THEN Len(q) - 1 - 1 + 1 ELSE 0
          /\ \A n \in 1..(Len(q) - 1 - 1 + 1) : f[n] = q[1 + n - 1]
      BY <1>3, <2>1, SubSeqProperties DEF Front
    <2>3. Len(f) = Len(q) - 1
      <3>1. PICK n \in Nat : n + 1 = Len(q)
        BY <1>1
      <3>2. Len(f) = IF 1 <= n THEN n - 1 + 1 ELSE 0
        BY <2>2, <3>1
      <3>3. Len(f) = n
        BY <3>2
      <3> QED
        BY <3>1, <3>3
    <2>4. \A n \in 1..(Len(q) - 1) : f[n] = q[n]
      <3> TAKE n \in 1..(Len(q) - 1)
      <3>1. n \in 1..(Len(q) - 1 - 1 + 1) /\ 1 + n - 1 = n
        BY <1>1
      <3>2. f[n] = q[1 + n - 1]
        BY <2>2, <3>1
      <3> QED
        BY <3>1, <3>2
    <2> QED
      BY <2>2, <2>3, <2>4
  <1>6. ASSUME NEW y \in T PROVE \E n \in 1..Len(f) : f[n] = y
    <2>1. PICK n \in 1..Len(q) : q[n] = y
      BY DEF Lists
    <2>2. n \in 1..(Len(q) - 1)
      BY <1>1, <1>2, <2>1
    <2> QED
      BY <1>4, <2>1, <2>2
  <1>7. ASSUME NEW m \in 1..Len(f), NEW n \in 1..Len(f), f[m] = f[n] PROVE m = n
    <2>1. m \in 1..Len(q) /\ n \in 1..Len(q) /\ q[m] = q[n]
      BY <1>1, <1>4, <1>7
    <2> QED
      BY <2>1 DEF Lists
  <1> QED
    BY <1>4, <1>6, <1>7 DEF Lists

\* SelectInSeq finds an element that is there.
LEMMA FirstPlace ==
    ASSUME NEW S, NEW q \in Seq(S), NEW x, \E n \in 1..Len(q) : q[n] = x
    PROVE  \E p \in 1..Len(q) : q[p] = x /\ p = SelectInSeq(q, LAMBDA e : e = x)
  <1> DEFINE I == {n \in 1..Len(q) : q[n] = x}
  <1>1. I \in SUBSET Nat /\ I # {}
    OBVIOUS
  <1>2. PICK m \in I : \A k \in I : m <= k
    BY <1>1, NL!LeastNatural
  <1>3. Min(I) \in I
    BY <1>2 DEF Min
  <1>4. SelectInSeq(q, LAMBDA e : e = x) = Min(I)
    BY <1>1 DEF SelectInSeq
  <1> QED
    BY <1>3, <1>4 DEF SelectInSeq

\* Dropping place p of a list, whatever the order of the rest: from maps the
\* places of the result to the other places of q, one to one.
LEMMA ListsDrop ==
    ASSUME NEW S, NEW q, Lists(q, S), NEW p \in 1..Len(q), NEW f,
           Len(f) = Len(q) - 1,
           NEW from, from \in [1..Len(f) -> 1..Len(q)],
           f = [n \in 1..Len(f) |-> q[from[n]]],
           \A n \in 1..Len(f) : from[n] # p,
           \A m, n \in 1..Len(f) : from[m] = from[n] => m = n,
           \A m \in 1..Len(q) : m # p => \E n \in 1..Len(f) : from[n] = m
    PROVE  Lists(f, S \ {q[p]})
  <1>1. Len(q) \in Nat \ {0} /\ Len(f) \in Nat /\ q \in Seq(S)
    BY DEF Lists
  <1>2. ASSUME NEW n \in 1..Len(f) PROVE f[n] = q[from[n]] /\ f[n] \in S \ {q[p]}
    <2>1. f[n] = q[from[n]] /\ from[n] \in 1..Len(q) /\ from[n] # p
      OBVIOUS
    <2>2. q[from[n]] \in S
      BY <1>1, <2>1
    <2>3. q[from[n]] # q[p]
      BY <2>1 DEF Lists
    <2> QED
      BY <2>1, <2>2, <2>3
  <1>3. f \in Seq(S \ {q[p]})
    <2>1. f \in [1..Len(f) -> S \ {q[p]}]
      BY <1>2
    <2>2. \E n \in Nat : f \in [1..n -> S \ {q[p]}]
      BY <1>1, <2>1
    <2> QED
      BY <2>2, SeqDef
  <1>4. ASSUME NEW y \in S \ {q[p]} PROVE \E n \in 1..Len(f) : f[n] = y
    <2>1. PICK m \in 1..Len(q) : q[m] = y
      BY DEF Lists
    <2>2. PICK n \in 1..Len(f) : from[n] = m
      BY <2>1
    <2> QED
      BY <1>2, <2>1, <2>2
  <1>5. ASSUME NEW m \in 1..Len(f), NEW n \in 1..Len(f), f[m] = f[n] PROVE m = n
    <2>1. q[from[m]] = q[from[n]] /\ from[m] \in 1..Len(q) /\ from[n] \in 1..Len(q)
      BY <1>2, <1>5
    <2>2. \A i, j \in 1..Len(q) : q[i] = q[j] => i = j
      BY DEF Lists
    <2>3. from[m] = from[n]
      BY <2>1, <2>2
    <2> QED
      BY <2>3
  <1> QED
    BY <1>3, <1>4, <1>5 DEF Lists

\* RemoveFirst takes x out, or leaves the list as it is.
LEMMA ListsRemove ==
    ASSUME NEW S, NEW q, Lists(q, S), NEW x
    PROVE  Lists(RemoveFirst(q, x), S \ {x})
  <1>0. Len(q) \in Nat /\ q \in Seq(S)
    BY DEF Lists
  <1>1. CASE \E n \in 1..Len(q) : q[n] = x
    <2>0. PICK p \in 1..Len(q) : q[p] = x /\ p = SelectInSeq(q, LAMBDA e : e = x)
      BY <1>0, <1>1, FirstPlace DEF SelectInSeq
    <2> DEFINE f == RemoveFirst(q, x)
               a == SubSeq(q, 1, p - 1)
               b == SubSeq(q, p + 1, Len(q))
               from == [n \in 1..(Len(q) - 1) |-> IF n < p THEN n ELSE n + 1]
    <2>1. p \in 1..Len(q) /\ q[p] = x
      BY <2>0 DEF SelectInSeq
    <2>2. f = a \o b
      BY <1>1, <2>0 DEF RemoveFirst, RemoveAt, SelectInSeq
    <2> HIDE DEF f
    <2>3. a \in Seq(S) /\ Len(a) = p - 1 /\ \A n \in 1..(p - 1) : a[n] = q[n]
      BY <1>0, <2>1
    <2>4. /\ b \in Seq(S) /\ Len(b) = Len(q) - p
          /\ \A n \in 1..(Len(q) - p) : b[n] = q[p + n]
      BY <1>0, <2>1
    <2> HIDE DEF a, b
    <2>5. f \in Seq(S) /\ Len(f) = Len(q) - 1
      <3>1. f \in Seq(S) /\ Len(f) = Len(a) + Len(b)
        BY <2>2, <2>3, <2>4, ConcatProperties
      <3>2. Len(f) = (p - 1) + (Len(q) - p)
        BY <2>3, <2>4, <3>1
      <3> QED
        BY <1>0, <2>1, <3>1, <3>2
    <2>6. ASSUME NEW n \in 1..(Len(q) - 1) PROVE f[n] = q[from[n]]
      <3>1. CASE n < p
        <4>1. n \in 1..(p - 1) /\ from[n] = n
          BY <1>0, <2>1, <3>1
        <4> QED
          BY <1>0, <2>1, <2>2, <2>3, <2>4, <4>1
      <3>2. CASE ~ (n < p)
        <4>1. from[n] = n + 1 /\ n - (p - 1) \in 1..(Len(q) - p) /\ p + (n - (p - 1)) = n + 1
          BY <1>0, <2>1, <3>2
        <4>2. f[n] = b[n - (p - 1)]
          <5>1. n \in 1..(Len(a) + Len(b)) /\ ~ (n <= Len(a)) /\ n - Len(a) = n - (p - 1)
            BY <1>0, <2>1, <2>3, <2>4, <3>2
          <5>2. f[n] = b[n - Len(a)]
            BY <2>2, <2>3, <2>4, <5>1, ConcatProperties
          <5> QED
            BY <5>1, <5>2
        <4> QED
          BY <2>4, <4>1, <4>2
      <3> QED
        BY <3>1, <3>2
    <2>7. f = [n \in 1..Len(f) |-> q[from[n]]]
      BY <2>5, <2>6
    <2>8. /\ from \in [1..Len(f) -> 1..Len(q)]
          /\ \A n \in 1..Len(f) : from[n] # p
          /\ \A m, n \in 1..Len(f) : from[m] = from[n] => m = n
      BY <1>0, <2>1, <2>5
    <2>9. ASSUME NEW m \in 1..Len(q), m # p PROVE \E n \in 1..Len(f) : from[n] = m
      <3>1. CASE m < p
        <4>1. m \in 1..Len(f) /\ from[m] = m
          BY <1>0, <2>1, <2>5, <3>1
        <4> QED
          BY <4>1
      <3>2. CASE m > p
        <4>1. m - 1 \in 1..Len(f) /\ from[m - 1] = m
          BY <1>0, <2>1, <2>5, <3>2
        <4> QED
          BY <4>1
      <3>3. m < p \/ m > p
        BY <1>0, <2>1, <2>9
      <3> QED
        BY <3>1, <3>2, <3>3
    <2> HIDE DEF from
    <2> QED
      <3>1. Lists(f, S \ {q[p]})
        BY <2>1, <2>5, <2>7, <2>8, <2>9, ListsDrop
      <3> QED
        BY <2>1, <3>1 DEF f
  <1>2. CASE ~ \E n \in 1..Len(q) : q[n] = x
    <2>1. x \notin S /\ RemoveFirst(q, x) = q
      BY <1>2 DEF RemoveFirst, Lists
    <2>2. S \ {x} = S
      BY <2>1
    <2> QED
      BY <2>1, <2>2
  <1> QED
    BY <1>1, <1>2
\* A new element in front.
LEMMA ListsCons ==
    ASSUME NEW S, NEW q, Lists(q, S), NEW x, x \notin S
    PROVE  Lists(<<x>> \o q, S \cup {x})
  <1> DEFINE f == <<x>> \o q
  <1>1. q \in Seq(S \cup {x}) /\ <<x>> \in Seq(S \cup {x}) /\ Len(q) \in Nat /\ Len(<<x>>) = 1
    BY DEF Lists
  <1>2. /\ f \in Seq(S \cup {x})
        /\ Len(f) = Len(q) + 1
        /\ \A n \in 1..(1 + Len(q)) : f[n] = IF n <= 1 THEN <<x>>[n] ELSE q[n - 1]
    BY <1>1, ConcatProperties
  <1> HIDE DEF f
  <1>3. f[1] = x
    BY <1>1, <1>2
  <1>4. ASSUME NEW n \in 1..Len(q) PROVE n + 1 \in 1..Len(f) /\ f[n + 1] = q[n] /\ q[n] \in S
    <2>1. n + 1 \in 1..(1 + Len(q)) /\ ~ (n + 1 <= 1) /\ (n + 1) - 1 = n
      BY <1>1
    <2>2. f[n + 1] = q[(n + 1) - 1] /\ n + 1 \in 1..Len(f)
      BY <1>1, <1>2, <2>1
    <2>3. q[n] \in S
      BY DEF Lists
    <2> QED
      BY <2>1, <2>2, <2>3
  <1>5. ASSUME NEW y \in S \cup {x} PROVE \E n \in 1..Len(f) : f[n] = y
    <2>1. CASE y = x
      BY <1>1, <1>2, <1>3, <2>1
    <2>2. CASE y \in S
      <3>1. PICK n \in 1..Len(q) : q[n] = y
        BY <2>2 DEF Lists
      <3> QED
        BY <1>4, <3>1
    <2> QED
      BY <2>1, <2>2
  <1>6. ASSUME NEW m \in 1..Len(f), NEW n \in 1..Len(f), f[m] = f[n] PROVE m = n
    <2>1. ASSUME NEW i \in 1..Len(f) PROVE i = 1 \/ (i - 1 \in 1..Len(q) /\ f[i] = q[i - 1] /\ f[i] \in S)
      <3>1. i # 1 => i - 1 \in 1..Len(q) /\ (i - 1) + 1 = i
        BY <1>1, <1>2
      <3> QED
        BY <1>4, <3>1
    <2>2. m - 1 \in 1..Len(q) /\ n - 1 \in 1..Len(q) /\ q[m - 1] = q[n - 1] => m - 1 = n - 1
      BY DEF Lists
    <2> QED
      BY <1>3, <1>6, <2>1, <2>2
  <1> QED
    BY <1>2, <1>5, <1>6 DEF Lists, f

\* Reverse lists the same set backwards.
LEMMA ListsReverse ==
    ASSUME NEW S, NEW q, Lists(q, S)
    PROVE  /\ Lists(Reverse(q), S)
           /\ Len(Reverse(q)) = Len(q)
           /\ \A n \in 1..Len(q) : Reverse(q)[n] = q[Len(q) - n + 1]
  <1> DEFINE f == Reverse(q)
  <1>1. Len(q) \in Nat /\ q \in Seq(S)
    BY DEF Lists
  <1>2. f = [n \in 1..Len(q) |-> q[Len(q) - n + 1]]
    BY <1>1 DEF Reverse
  <1>3. \A n \in 1..Len(q) : Len(q) - n + 1 \in 1..Len(q) /\ Len(q) - (Len(q) - n + 1) + 1 = n
    BY <1>1
  <1>4. f \in Seq(S) /\ Len(f) = Len(q)
    <2>1. f \in [1..Len(q) -> S]
      BY <1>1, <1>2, <1>3
    <2>2. f \in Seq(S)
      BY <1>1, <2>1, SeqDef
    <2> QED
      BY <1>1, <2>1, <2>2
  <1> HIDE DEF f
  <1>5. ASSUME NEW y \in S PROVE \E n \in 1..Len(f) : f[n] = y
    <2>1. PICK m \in 1..Len(q) : q[m] = y
      BY DEF Lists
    <2>2. Len(q) - m + 1 \in 1..Len(f) /\ f[Len(q) - m + 1] = y
      BY <1>2, <1>3, <1>4, <2>1
    <2> QED
      BY <2>2
  <1>6. ASSUME NEW m \in 1..Len(f), NEW n \in 1..Len(f), f[m] = f[n] PROVE m = n
    <2>1. /\ q[Len(q) - m + 1] = q[Len(q) - n + 1]
          /\ Len(q) - m + 1 \in 1..Len(q) /\ Len(q) - n + 1 \in 1..Len(q)
      BY <1>2, <1>3, <1>4, <1>6
    <2>2. Len(q) - m + 1 = Len(q) - n + 1
      BY <2>1 DEF Lists
    <2> QED
      BY <1>1, <1>4, <2>2
  <1> QED
    BY <1>2, <1>4, <1>5, <1>6 DEF Lists, f

\* A list has the elements of its set, and as many.
LEMMA ListsSet ==
    ASSUME NEW S, NEW q, Lists(q, S)
    PROVE  ToSet(q) = S /\ IsFiniteSet(S) /\ Len(q) = Cardinality(S)
  <1>1. Len(q) \in Nat /\ q \in [1..Len(q) -> S]
    BY DEF Lists
  <1>2. ToSet(q) = S
    BY <1>1 DEF ToSet, Lists
  <1>3. q \in Bijection(1..Len(q), S)
    <2>1. \A m, n \in 1..Len(q) : q[m] = q[n] => m = n
      BY DEF Lists
    <2>2. \A x \in S : \E n \in 1..Len(q) : q[n] = x
      BY DEF Lists
    <2>3. q \in Injection(1..Len(q), S)
      BY <1>1, <2>1, Fun_IsInj
    <2>4. q \in Surjection(1..Len(q), S)
      BY <1>1, <2>2, Fun_IsSurj
    <2> QED
      BY <2>3, <2>4, Fun_IsBij
  <1>4. ExistsBijection(1..Len(q), S)
    BY <1>3 DEF ExistsBijection
  <1> QED
    <2>1. IsFiniteSet(S)
      BY <1>1, <1>4, FS_NatBijection
    <2> QED
      BY <1>1, <1>2, <1>4, <2>1, FS_CountingElements
\* Front drops the last element and keeps the others in place.
LEMMA FrontElements ==
    ASSUME NEW S, NEW h \in Seq(S), NEW k \in Nat, Len(h) = k + 1
    PROVE  /\ Front(h) \in Seq(S)
           /\ Len(Front(h)) = k
           /\ \A n \in 1..k : Front(h)[n] = h[n]
  <1>1. Front(h) = SubSeq(h, 1, k)
    BY DEF Front
  <1>2. \A n \in 1..k : h[n] \in S
    OBVIOUS
  <1>3. /\ Front(h) \in Seq(S)
        /\ Len(Front(h)) = IF 1 <= k THEN k - 1 + 1 ELSE 0
        /\ \A n \in 1..(k - 1 + 1) : Front(h)[n] = h[1 + n - 1]
    BY <1>1, <1>2, SubSeqProperties
  <1>4. Len(Front(h)) = k
    BY <1>3
  <1>5. \A n \in 1..k : Front(h)[n] = h[n]
    <2> TAKE n \in 1..k
    <2>1. n \in 1..(k - 1 + 1) /\ 1 + n - 1 = n
      OBVIOUS
    <2>2. Front(h)[n] = h[1 + n - 1]
      BY <1>3, <2>1
    <2> QED
      BY <2>1, <2>2
  <1> QED
    BY <1>3, <1>4, <1>5

\* The last element takes place p, and the list is cut short by one.
LEMMA ListsSwap ==
    ASSUME NEW S, NEW q, Lists(q, S), NEW p \in 1..Len(q)
    PROVE  Lists(Front([q EXCEPT ![p] = Last(q)]), S \ {q[p]})
  <1>1. Len(q) \in Nat \ {0} /\ q \in Seq(S) /\ p \in Nat
    BY DEF Lists
  <1>2. PICK k \in Nat : Len(q) = k + 1
    BY <1>1
  <1>3. Last(q) = q[Len(q)] /\ q[Len(q)] \in S
    BY <1>1 DEF Last
  <1>4. PICK h : h = [q EXCEPT ![p] = q[Len(q)]]
    OBVIOUS
  <1>5. /\ h \in Seq(S) /\ Len(h) = Len(q)
        /\ \A n \in 1..Len(q) : h[n] = IF n = p THEN q[Len(q)] ELSE q[n]
    BY <1>1, <1>3, <1>4, ExceptSeq
  <1>6. PICK f : f = Front(h)
    OBVIOUS
  <1>7. f \in Seq(S) /\ Len(f) = k /\ \A n \in 1..k : f[n] = h[n]
    BY <1>2, <1>5, <1>6, FrontElements
  <1>8. PICK from : from = [n \in 1..k |-> IF n = p THEN Len(q) ELSE n]
    OBVIOUS
  <1>9. \A n \in 1..k : n \in 1..Len(q)
    BY <1>2
  <1>10. \A n \in 1..k : f[n] = q[from[n]]
    BY <1>5, <1>7, <1>8, <1>9
  <1>11. f = [n \in 1..Len(f) |-> q[from[n]]]
    BY <1>7, <1>10
  <1>12. /\ from \in [1..Len(f) -> 1..Len(q)]
         /\ \A n \in 1..Len(f) : from[n] # p
         /\ \A m, n \in 1..Len(f) : from[m] = from[n] => m = n
    <2>1. \A n \in 1..k : n # Len(q) /\ Len(q) \in 1..Len(q)
      BY <1>2
    <2> QED
      BY <1>7, <1>8, <1>9, <2>1
  <1>13. ASSUME NEW m \in 1..Len(q), m # p PROVE \E n \in 1..Len(f) : from[n] = m
    <2>1. CASE m = Len(q)
      <3>1. p \in 1..Len(f) /\ from[p] = m
        BY <1>1, <1>2, <1>7, <1>8, <1>13, <2>1
      <3> QED
        BY <3>1
    <2>2. CASE m # Len(q)
      <3>1. m \in 1..Len(f) /\ from[m] = m
        BY <1>1, <1>2, <1>7, <1>8, <1>13, <2>2
      <3> QED
        BY <3>1
    <2> QED
      BY <2>1, <2>2
  <1>14. Len(f) = Len(q) - 1
    BY <1>2, <1>7
  <1>15. Lists(f, S \ {q[p]})
    BY <1>11, <1>12, <1>13, <1>14, ListsDrop
  <1> QED
    BY <1>3, <1>4, <1>6, <1>15

\* What a loop over q has still to do after n turns.
Rest(q, n) == {q[m] : m \in (n + 1)..Len(q)}

\* Rest(q, n) is what a loop over q has still to visit after n turns.
LEMMA ListsRest ==
    ASSUME NEW S, NEW q, Lists(q, S)
    PROVE  /\ Rest(q, 0) = S
           /\ Rest(q, Len(q)) = {}
           /\ \A n \in 1..Len(q) : /\ q[n] \in Rest(q, n - 1)
                                   /\ Rest(q, n) = Rest(q, n - 1) \ {q[n]}
                                   /\ Rest(q, n - 1) \subseteq S
  <1>1. Len(q) \in Nat /\ q \in Seq(S)
    BY DEF Lists
  <1>2. Rest(q, 0) = S
    BY <1>1 DEF Rest, Lists
  <1>3. Rest(q, Len(q)) = {}
    BY <1>1 DEF Rest
  <1>4. ASSUME NEW n \in 1..Len(q)
        PROVE  /\ q[n] \in Rest(q, n - 1)
               /\ Rest(q, n) = Rest(q, n - 1) \ {q[n]}
               /\ Rest(q, n - 1) \subseteq S
    <2>1. n \in (n - 1 + 1)..Len(q)
      BY <1>1
    <2>2. q[n] \in Rest(q, n - 1)
      BY <2>1 DEF Rest
    <2>3. ASSUME NEW m \in (n + 1)..Len(q) PROVE q[m] # q[n] /\ m \in (n - 1 + 1)..Len(q)
      <3>1. m \in 1..Len(q) /\ m # n /\ m \in (n - 1 + 1)..Len(q)
        BY <1>1
      <3> QED
        BY <3>1 DEF Lists
    <2>4. ASSUME NEW m \in (n - 1 + 1)..Len(q), q[m] # q[n] PROVE m \in (n + 1)..Len(q)
      <3>1. m # n
        BY <2>4
      <3> QED
        BY <1>1, <3>1
    <2>5. Rest(q, n) = Rest(q, n - 1) \ {q[n]}
      BY <2>3, <2>4 DEF Rest
    <2>6. \A m \in (n - 1 + 1)..Len(q) : q[m] \in S
      BY <1>1
    <2>7. Rest(q, n - 1) \subseteq S
      BY <2>6 DEF Rest
    <2> QED
      BY <2>2, <2>5, <2>7
  <1> QED
    BY <1>2, <1>3, <1>4

-----------------------------------------------------------------------------
(* The invariant of the store.                                             *)

\* The devices, links and records in use.
UD(s) == {d \in DeviceSlots : s.devices[d].used}
UL(s) == {i \in LinkSlots : s.links[i].used}
UR(s) == {i \in DNSSlots : s.dns[i].used}

\* The fields of the store and of its entries.
Shape(s) ==
    /\ DOMAIN s = {"devices", "links", "dns", "deviceByKey", "linkByKey", "dnsByKey",
                   "freeDevices", "freeLinks", "freeDNS", "linkWheel", "dnsWheel", "events"}
    /\ DOMAIN s.devices = DeviceSlots /\ DOMAIN s.links = LinkSlots /\ DOMAIN s.dns = DNSSlots
    /\ \A d \in DeviceSlots : DOMAIN s.devices[d] =
          {"used", "key", "facts", "protocols", "class", "services", "lastSeen",
           "links", "dns", "dnsExpiry"}
    /\ \A i \in LinkSlots : DOMAIN s.links[i] =
          {"used", "key", "kind", "device", "protocols", "expires", "remote", "lastSeen", "due"}
    /\ \A i \in DNSSlots : DOMAIN s.dns[i] = {"used", "rec", "device", "ttl", "expiresAt", "due"}

\* The devices in use, their free list and their index; nothing is known of
\* the others.
DevicesInv(s) ==
    /\ \A d \in DeviceSlots : s.devices[d].used \in BOOLEAN /\ s.devices[d].lastSeen \in Nat
    /\ Lists(s.freeDevices, DeviceSlots \ UD(s))
    /\ \A d \in UD(s) : s.devices[d].key \in DeviceKeys
    /\ \A d \in DeviceSlots \ UD(s) : s.devices[d].facts = {}
    /\ DOMAIN s.deviceByKey = {s.devices[d].key : d \in UD(s)}
    /\ \A d \in UD(s) : s.deviceByKey[s.devices[d].key] = d

\* The links of a device, apart from those in P that are being moved.
LinksOf(s, d, P) == {i \in UL(s) \ P : s.links[i].device = d}
RecordsOf(s, d, P) == {i \in UR(s) \ P : s.dns[i].device = d}

\* The links: their free list, the lists of their devices, the index.  The
\* links in P are on no list of a device, those in K may carry another key
\* than their device's.
LinksInv(s, P, K) ==
    /\ \A i \in LinkSlots : /\ s.links[i].used \in BOOLEAN
                            /\ s.links[i].expires \in [Protocols -> Nat]
                            /\ s.links[i].lastSeen \in Nat
    /\ Lists(s.freeLinks, LinkSlots \ UL(s))
    /\ \A d \in UD(s) : Lists(s.devices[d].links, LinksOf(s, d, P))
    /\ \A i \in UL(s) : s.links[i].device \in UD(s) /\ s.links[i].key \in LinkKeys
    /\ \A i \in UL(s) \ K : s.links[i].key.device = s.devices[s.links[i].device].key
    /\ \A k \in DOMAIN s.linkByKey : s.linkByKey[k] \in UL(s) /\ s.links[s.linkByKey[k]].key = k

\* A link has evidence, an expiry for each protocol of it, and its device knows them.
Evident(s, i) ==
    /\ s.links[i].protocols # {}
    /\ s.links[i].protocols = {p \in Protocols : s.links[i].expires[p] # Never}
    /\ s.links[i].protocols \subseteq s.devices[s.links[i].device].protocols

\* Every link has evidence, but those in E.
EvidenceInv(s, E) == \A i \in UL(s) \ E : Evident(s, i)

\* The wheel holds every link, but those in W.
LinkWheelInv(s, W) == Lists(s.linkWheel, UL(s) \ W)

\* All of the above.
Linked(s, P, K, E, W) ==
    Shape(s) /\ LinksInv(s, P, K) /\ EvidenceInv(s, E) /\ LinkWheelInv(s, W)

\* The records likewise.
RecordsInv(s, P) ==
    /\ \A i \in DNSSlots : s.dns[i].used \in BOOLEAN /\ s.dns[i].expiresAt \in Nat
    /\ \A d \in DeviceSlots : s.devices[d].dnsExpiry \in Nat
    /\ Lists(s.freeDNS, DNSSlots \ UR(s))
    /\ \A d \in UD(s) : Lists(s.devices[d].dns, RecordsOf(s, d, P))
    /\ \A i \in UR(s) : s.dns[i].device \in UD(s)
    /\ \A k \in DOMAIN s.dnsByKey : s.dnsByKey[k] \in UR(s) /\ DNSKey(s, s.dnsByKey[k]) = k

DNSWheelInv(s, W) == Lists(s.dnsWheel, UR(s) \ W)

Recorded(s, P, W) == Shape(s) /\ RecordsInv(s, P) /\ DNSWheelInv(s, W)

\* The store between two steps: nothing is pending.
StoreInv(s) ==
    DevicesInv(s) /\ Linked(s, {}, {}, {}, {}) /\ Recorded(s, {}, {})

\* The inductive invariant.
FusionInv == StoreInv(fusion) /\ now \in Nat \ {0} /\ scenario \in Scenarios

-----------------------------------------------------------------------------
(* Maps and slices.                                                        *)

\* The removal idiom of d.links and d.dns takes x out of a slice.
LEMMA ListsSwapRemove ==
    ASSUME NEW S, NEW q, Lists(q, S), NEW x
    PROVE  Lists(SwapRemove(q, x), S \ {x})
  <1>0. q \in Seq(S)
    BY DEF Lists
  <1>1. CASE Contains(q, x)
    <2>1. \E n \in 1..Len(q) : q[n] = x
      BY <1>1 DEF Contains
    <2>2. PICK p \in 1..Len(q) : q[p] = x /\ p = SelectInSeq(q, LAMBDA e : e = x)
      BY <1>0, <2>1, FirstPlace DEF SelectInSeq
    <2>3. q[p] = x
      BY <2>2 DEF SelectInSeq
    <2>4. SwapRemove(q, x) = Front([q EXCEPT ![p] = Last(q)])
      BY <1>1, <2>2 DEF SwapRemove, SelectInSeq
    <2> QED
      BY <2>3, <2>4, ListsSwap
  <1>2. CASE ~ Contains(q, x)
    <2>1. x \notin S /\ SwapRemove(q, x) = q
      BY <1>2 DEF SwapRemove, Contains, Lists
    <2>2. S \ {x} = S
      BY <2>1
    <2> QED
      BY <2>1, <2>2
  <1> QED
    BY <1>1, <1>2

\* The scan for the oldest entry returns one in use, if there is one.
LEMMA OldestIsUsed ==
    ASSUME NEW N \in Nat, NEW slab, DOMAIN slab = 1..N, NEW age, \A i \in 1..N : age[i] \in Nat,
           NEW u \in 1..N, slab[u].used
    PROVE  Oldest(slab, age) \in 1..N /\ slab[Oldest(slab, age)].used
  <1> DEFINE A == {age[i] : i \in {j \in 1..N : slab[j].used}}
  <1>1. A \in SUBSET Nat /\ A # {}
    OBVIOUS
  <1>2. PICK a \in A : \A b \in A : a <= b
    BY <1>1, NL!LeastNatural
  <1> DEFINE I == {i \in 1..N : slab[i].used /\ age[i] = a}
  <1>3. I \in SUBSET Nat /\ I # {}
    OBVIOUS
  <1>4. PICK m \in I : \A k \in I : m <= k
    BY <1>3, NL!LeastNatural
  <1>5. \A j \in 1..N : slab[j].used => age[m] < age[j] \/ (age[m] = age[j] /\ m <= j)
    <2> SUFFICES ASSUME NEW j \in 1..N, slab[j].used
                 PROVE  age[m] < age[j] \/ (age[m] = age[j] /\ m <= j)
      OBVIOUS
    <2>1. age[m] = a /\ a \in Nat /\ age[j] \in Nat /\ a <= age[j]
      BY <1>1, <1>2
    <2>2. CASE age[j] = a
      BY <1>4, <2>1, <2>2
    <2>3. CASE age[j] # a
      BY <2>1, <2>3
    <2> QED
      BY <2>2, <2>3
  <1>6. \E i \in DOMAIN slab : /\ slab[i].used
                               /\ \A j \in DOMAIN slab : slab[j].used =>
                                     age[i] < age[j] \/ (age[i] = age[j] /\ i <= j)
    BY <1>5
  <1> QED
    BY <1>6 DEF Oldest

-----------------------------------------------------------------------------
(* What each part of the invariant depends on.                             *)

\* The same devices are in use, with their keys, and nothing known of them is
\* forgotten.
SameDevices(s, t) ==
    /\ t.deviceByKey = s.deviceByKey /\ t.freeDevices = s.freeDevices
    /\ \A d \in DeviceSlots : /\ t.devices[d].used = s.devices[d].used
                              /\ t.devices[d].key = s.devices[d].key
                              /\ s.devices[d].lastSeen \in Nat => t.devices[d].lastSeen \in Nat
                              /\ s.devices[d].facts \subseteq t.devices[d].facts
                              /\ ~ s.devices[d].used => t.devices[d].facts = s.devices[d].facts

\* Nothing about links changed, but what their devices are known to speak may grow.
SameLinks(s, t) ==
    /\ t.links = s.links /\ t.linkByKey = s.linkByKey
    /\ t.freeLinks = s.freeLinks /\ t.linkWheel = s.linkWheel
    /\ \A d \in DeviceSlots : /\ t.devices[d].links = s.devices[d].links
                              /\ s.devices[d].protocols \subseteq t.devices[d].protocols

\* Nothing about records changed.
SameRecords(s, t) ==
    /\ t.dns = s.dns /\ t.dnsByKey = s.dnsByKey
    /\ t.freeDNS = s.freeDNS /\ t.dnsWheel = s.dnsWheel
    /\ \A d \in DeviceSlots : /\ t.devices[d].dns = s.devices[d].dns
                              /\ t.devices[d].dnsExpiry = s.devices[d].dnsExpiry

\* DevicesInv depends on the devices in use, their keys, their free list and
\* their index.
LEMMA DevicesFrame ==
    ASSUME NEW s, NEW t, SameDevices(s, t), DevicesInv(s)
    PROVE  DevicesInv(t) /\ UD(t) = UD(s)
  <1>1. UD(t) = UD(s)
    BY DEF SameDevices, UD
  <1>2. {t.devices[d].key : d \in UD(t)} = {s.devices[d].key : d \in UD(s)}
    BY <1>1 DEF SameDevices, UD
  <1>3. \A d \in DeviceSlots \ UD(t) : t.devices[d].facts = {}
    BY <1>1 DEF SameDevices, DevicesInv, UD
  <1> QED
    BY <1>1, <1>2, <1>3 DEF SameDevices, DevicesInv, UD

\* What is known of the devices together is kept: of the same device or of
\* another.
Kept(s, t) ==
    \A d \in DeviceSlots : \A x \in s.devices[d].facts : \E e \in DeviceSlots : x \in t.devices[e].facts

\* It is kept when each device keeps what is known of it.
LEMMA KeptSame ==
    ASSUME NEW s, NEW t, \A d \in DeviceSlots : s.devices[d].facts \subseteq t.devices[d].facts
    PROVE  Kept(s, t)
  BY DEF Kept

\* It is kept by two steps that keep it.
LEMMA KeptThen ==
    ASSUME NEW s, NEW t, NEW u, Kept(s, t), Kept(t, u)
    PROVE  Kept(s, u)
  BY DEF Kept

\* So it is when the same devices are in use.
LEMMA KeptDevices ==
    ASSUME NEW s, NEW t, SameDevices(s, t)
    PROVE  Kept(s, t)
  BY KeptSame DEF SameDevices

\* SameDevices holds of two steps that satisfy it.
LEMMA SameDevicesThen ==
    ASSUME NEW s, NEW t, NEW u, SameDevices(s, t), SameDevices(t, u)
    PROVE  SameDevices(s, u)
  BY DEF SameDevices

\* LinksInv depends on the devices in use and on the links.
LEMMA LinksFrame ==
    ASSUME NEW s, NEW t, SameDevices(s, t), SameLinks(s, t), NEW P, NEW K, LinksInv(s, P, K)
    PROVE  LinksInv(t, P, K) /\ UL(t) = UL(s)
  <1>1. UD(t) = UD(s) /\ UL(t) = UL(s)
    BY DEF SameDevices, SameLinks, UD, UL
  <1>2. \A d : LinksOf(t, d, P) = LinksOf(s, d, P)
    BY <1>1 DEF LinksOf, SameLinks
  <1>3. \A d \in UD(t) : t.devices[d].links = s.devices[d].links /\ t.devices[d].key = s.devices[d].key
    BY DEF SameDevices, SameLinks, UD
  <1>4. \A d \in UD(t) : Lists(t.devices[d].links, LinksOf(t, d, P))
    BY <1>1, <1>2, <1>3 DEF LinksInv
  <1>5. \A i \in UL(t) : t.links[i].device \in UD(t) /\ t.links[i].key \in LinkKeys
    BY <1>1 DEF LinksInv, SameLinks
  <1>6. \A i \in UL(t) \ K : t.links[i].key.device = t.devices[t.links[i].device].key
    BY <1>1, <1>3 DEF LinksInv, SameLinks
  <1> QED
    BY <1>1, <1>4, <1>5, <1>6 DEF LinksInv, SameLinks

\* EvidenceInv survives when the links stay as they are and devices learn
\* protocols.
LEMMA EvidenceFrame ==
    ASSUME NEW s, NEW t, SameDevices(s, t), SameLinks(s, t), NEW P, NEW K, LinksInv(s, P, K),
           NEW E, EvidenceInv(s, E)
    PROVE  EvidenceInv(t, E)
  <1>1. UL(t) = UL(s)
    BY DEF SameLinks, UL
  <1>2. ASSUME NEW i \in UL(t) \ E PROVE Evident(t, i)
    <2>1. s.links[i].device \in DeviceSlots /\ Evident(s, i) /\ t.links = s.links
      BY <1>1 DEF LinksInv, UD, EvidenceInv, SameLinks
    <2>2. s.devices[s.links[i].device].protocols \subseteq t.devices[s.links[i].device].protocols
      BY <2>1 DEF SameLinks
    <2> QED
      BY <2>1, <2>2 DEF Evident
  <1> QED
    BY <1>2 DEF EvidenceInv

\* LinkWheelInv depends on the links in use and on the wheel.
LEMMA LinkWheelFrame ==
    ASSUME NEW s, NEW t, SameLinks(s, t), NEW W, LinkWheelInv(s, W)
    PROVE  LinkWheelInv(t, W)
  <1>1. UL(t) = UL(s) /\ t.linkWheel = s.linkWheel
    BY DEF SameLinks, UL
  <1> QED
    BY <1>1 DEF LinkWheelInv

\* RecordsInv depends on the devices in use and on the records.
LEMMA RecordsFrame ==
    ASSUME NEW s, NEW t, SameDevices(s, t), SameRecords(s, t), NEW P, RecordsInv(s, P)
    PROVE  RecordsInv(t, P) /\ UR(t) = UR(s)
  <1>1. UD(t) = UD(s) /\ UR(t) = UR(s)
    BY DEF SameDevices, SameRecords, UD, UR
  <1>2. \A d : RecordsOf(t, d, P) = RecordsOf(s, d, P)
    BY <1>1 DEF RecordsOf, SameRecords
  <1>3. \A d \in UD(t) : Lists(t.devices[d].dns, RecordsOf(t, d, P))
    <2>1. \A d \in UD(t) : t.devices[d].dns = s.devices[d].dns
      BY DEF SameRecords, UD
    <2> QED
      BY <1>1, <1>2, <2>1 DEF RecordsInv
  <1>4. \A i \in UR(t) : t.dns[i].device \in UD(t)
    BY <1>1 DEF RecordsInv, SameRecords
  <1>5. \A k \in DOMAIN t.dnsByKey : t.dnsByKey[k] \in UR(t) /\ DNSKey(t, t.dnsByKey[k]) = k
    BY <1>1 DEF RecordsInv, SameRecords, DNSKey
  <1>6. \A d \in DeviceSlots : t.devices[d].dnsExpiry \in Nat
    BY DEF RecordsInv, SameRecords
  <1> QED
    BY <1>1, <1>3, <1>4, <1>5, <1>6 DEF RecordsInv, SameRecords

\* DNSWheelInv depends on the records in use and on the wheel.
LEMMA DNSWheelFrame ==
    ASSUME NEW s, NEW t, SameRecords(s, t), NEW W, DNSWheelInv(s, W)
    PROVE  DNSWheelInv(t, W)
  <1>1. UR(t) = UR(s) /\ t.dnsWheel = s.dnsWheel
    BY DEF SameRecords, UR
  <1> QED
    BY <1>1 DEF DNSWheelInv

-----------------------------------------------------------------------------
(* Removing a link.                                                        *)

\* What removeLink does, field by field.
LEMMA RemoveLinkEffect ==
    ASSUME NEW s, Shape(s), NEW i \in LinkSlots, s.links[i].device \in DeviceSlots, NEW kind,
           NEW t, t = removeLink(s, i, kind)
    PROVE  /\ Shape(t)
           /\ t.links = [s.links EXCEPT ![i] = NoLink]
           /\ t.linkByKey = Delete(s.linkByKey, s.links[i].key)
           /\ t.freeLinks = Append(s.freeLinks, i)
           /\ t.linkWheel = RemoveFirst(s.linkWheel, i)
           /\ t.devices = [s.devices EXCEPT ![s.links[i].device].links = SwapRemove(@, i)]
           /\ SameDevices(s, t) /\ SameRecords(s, t)
  <1> USE DEF removeLink, Shape
  <1>1. t.links = [s.links EXCEPT ![i] = NoLink]
    OBVIOUS
  <1>2. t.linkByKey = Delete(s.linkByKey, s.links[i].key)
    OBVIOUS
  <1>3. t.freeLinks = Append(s.freeLinks, i)
    OBVIOUS
  <1>4. t.linkWheel = RemoveFirst(s.linkWheel, i)
    OBVIOUS
  <1>5. t.devices = [s.devices EXCEPT ![s.links[i].device].links = SwapRemove(@, i)]
    OBVIOUS
  <1>6. DOMAIN t = DOMAIN s
    OBVIOUS
  <1>7. /\ t.deviceByKey = s.deviceByKey /\ t.freeDevices = s.freeDevices
        /\ t.dns = s.dns /\ t.dnsByKey = s.dnsByKey
        /\ t.freeDNS = s.freeDNS /\ t.dnsWheel = s.dnsWheel
    OBVIOUS
  <1> HIDE DEF removeLink
  <1>8. SameDevices(s, t) /\ SameRecords(s, t)
    BY <1>5, <1>7 DEF SameDevices, SameRecords
  <1>9. Shape(t)
    BY <1>1, <1>5, <1>6, <1>7 DEF NoLink
  <1> QED
    BY <1>1, <1>2, <1>3, <1>4, <1>5, <1>8, <1>9

\* t is s without link i; the other links, and what devices speak, are as before.
LinkRemoved(s, t, i) ==
    /\ SameDevices(s, t) /\ SameRecords(s, t)
    /\ UL(t) = UL(s) \ {i}
    /\ \A j \in UL(t) : t.links[j] = s.links[j]
    /\ \A d \in DeviceSlots : t.devices[d].protocols = s.devices[d].protocols

\* removeLink takes the link out of the slab, its index, its wheel and the
\* list of its device, whatever is pending for the other links.
LEMMA RemoveLinkKeeps ==
    ASSUME NEW s, NEW P, NEW K, NEW E, NEW W, Linked(s, P, K, E, W),
           NEW i \in UL(s), NEW kind, NEW t, t = removeLink(s, i, kind)
    PROVE  LinkRemoved(s, t, i) /\ Linked(t, P \ {i}, K \ {i}, E \ {i}, W \ {i})
  <1> USE DEF Linked
  <1> DEFINE o == s.links[i].device
  <1>1. i \in LinkSlots /\ o \in UD(s) /\ o \in DeviceSlots
    BY DEF UL, UD, LinksInv
  <1>2. /\ Shape(t)
        /\ t.links = [s.links EXCEPT ![i] = NoLink]
        /\ t.linkByKey = Delete(s.linkByKey, s.links[i].key)
        /\ t.freeLinks = Append(s.freeLinks, i)
        /\ t.linkWheel = RemoveFirst(s.linkWheel, i)
        /\ t.devices = [s.devices EXCEPT ![o].links = SwapRemove(@, i)]
        /\ SameDevices(s, t) /\ SameRecords(s, t)
    BY <1>1, RemoveLinkEffect
  <1>3. /\ t.links[i] = NoLink
        /\ \A j \in LinkSlots : j # i => t.links[j] = s.links[j]
    BY <1>1, <1>2 DEF Shape
  <1>4. UL(t) = UL(s) \ {i} /\ UD(t) = UD(s)
    <2>1. UD(t) = UD(s)
      BY <1>2 DEF UD, SameDevices
    <2>2. ~ t.links[i].used
      <3>1. NoLink.used = FALSE
        BY DEF NoLink
      <3> QED
        BY <1>3, <3>1
    <2>3. UL(t) = UL(s) \ {i}
      BY <1>3, <2>2 DEF UL
    <2> QED
      BY <2>1, <2>3
  <1>5. \A d \in DeviceSlots : /\ t.devices[d].protocols = s.devices[d].protocols
                               /\ t.devices[d].key = s.devices[d].key
                               /\ d # o => t.devices[d].links = s.devices[d].links
    BY <1>1, <1>2 DEF Shape
  <1>6. t.devices[o].links = SwapRemove(s.devices[o].links, i)
    BY <1>1, <1>2 DEF Shape
  <1>7. \A d : LinksOf(t, d, P \ {i}) = LinksOf(s, d, P) \ {i}
    BY <1>3, <1>4 DEF LinksOf, UL
  <1>8. ASSUME NEW d \in UD(t) PROVE Lists(t.devices[d].links, LinksOf(t, d, P \ {i}))
    <2>1. d \in DeviceSlots /\ Lists(s.devices[d].links, LinksOf(s, d, P))
      BY <1>4 DEF LinksInv, UD
    <2>2. CASE d = o
      BY <1>6, <1>7, <2>1, <2>2, ListsSwapRemove
    <2>3. CASE d # o
      <3>1. LinksOf(s, d, P) \ {i} = LinksOf(s, d, P)
        BY <2>3 DEF LinksOf
      <3> QED
        BY <1>5, <1>7, <2>1, <2>3, <3>1
    <2> QED
      BY <2>2, <2>3
  <1>9. Lists(t.freeLinks, LinkSlots \ UL(t))
    <2>1. (LinkSlots \ UL(s)) \cup {i} = LinkSlots \ UL(t)
      BY <1>1, <1>4
    <2>2. Lists(s.freeLinks, LinkSlots \ UL(s))
      BY DEF LinksInv
    <2> QED
      BY <1>2, <2>1, <2>2, ListsAppend
  <1>10. LinkWheelInv(t, W \ {i})
    <2>1. (UL(s) \ W) \ {i} = UL(t) \ (W \ {i})
      BY <1>4
    <2> QED
      BY <1>2, <2>1, ListsRemove DEF LinkWheelInv
  <1>11. \A k \in DOMAIN t.linkByKey : t.linkByKey[k] \in UL(t) /\ t.links[t.linkByKey[k]].key = k
    <2> TAKE k \in DOMAIN t.linkByKey
    <2>0. t.linkByKey = Delete(s.linkByKey, s.links[i].key)
      BY <1>2
    <2>1. k \in DOMAIN s.linkByKey /\ k # s.links[i].key /\ t.linkByKey[k] = s.linkByKey[k]
      BY <2>0 DEF Delete, Restrict
    <2>2. s.linkByKey[k] \in UL(s) /\ s.links[s.linkByKey[k]].key = k
      BY <2>1 DEF LinksInv
    <2>3. s.linkByKey[k] # i
      BY <2>1, <2>2
    <2> QED
      BY <1>3, <1>4, <2>1, <2>2, <2>3 DEF UL
  <1>12. \A j \in LinkSlots : /\ t.links[j].used \in BOOLEAN
                              /\ t.links[j].expires \in [Protocols -> Nat]
                              /\ t.links[j].lastSeen \in Nat
    <2>1. /\ NoLink.used \in BOOLEAN /\ NoLink.lastSeen \in Nat
          /\ NoLink.expires \in [Protocols -> Nat]
      BY DEF NoLink, Never
    <2> QED
      BY <1>3, <2>1 DEF LinksInv
  <1>13. \A j \in UL(t) : t.links[j] = s.links[j] /\ j \in UL(s) /\ s.links[j].device \in DeviceSlots
    BY <1>3, <1>4 DEF UL, UD, LinksInv
  <1>14. LinksInv(t, P \ {i}, K \ {i})
    <2>1. \A j \in UL(t) : t.links[j].device \in UD(t) /\ t.links[j].key \in LinkKeys
      BY <1>4, <1>13 DEF LinksInv
    <2>2. \A j \in UL(t) \ (K \ {i}) : t.links[j].key.device = t.devices[t.links[j].device].key
      <3> TAKE j \in UL(t) \ (K \ {i})
      <3>1. j \in UL(s) \ K /\ t.links[j] = s.links[j] /\ s.links[j].device \in DeviceSlots
        BY <1>4, <1>13
      <3>2. s.links[j].key.device = s.devices[s.links[j].device].key
        BY <3>1 DEF LinksInv
      <3> QED
        BY <1>5, <3>1, <3>2
    <2> QED
      BY <1>8, <1>9, <1>11, <1>12, <2>1, <2>2 DEF LinksInv
  <1>15. EvidenceInv(t, E \ {i})
    BY <1>4, <1>5, <1>13 DEF EvidenceInv, Evident
  <1>16. LinkRemoved(s, t, i)
    BY <1>2, <1>4, <1>5, <1>13 DEF LinkRemoved
  <1> QED
    BY <1>2, <1>10, <1>14, <1>15, <1>16

-----------------------------------------------------------------------------
(* Changing a link in place.                                               *)

\* Links keep their key and their device.
TouchedLinks(s, t) ==
    /\ t.linkByKey = s.linkByKey /\ t.freeLinks = s.freeLinks
    /\ \A d \in DeviceSlots : t.devices[d].links = s.devices[d].links
    /\ \A j \in LinkSlots : /\ t.links[j].used = s.links[j].used
                            /\ t.links[j].key = s.links[j].key
                            /\ t.links[j].device = s.links[j].device
                            /\ t.links[j].expires \in [Protocols -> Nat]
                            /\ t.links[j].lastSeen \in Nat

\* LinksInv survives a change to links that keep their key, their device and
\* their bit in use.
LEMMA TouchLinks ==
    ASSUME NEW s, NEW t, SameDevices(s, t), TouchedLinks(s, t), NEW P, NEW K, LinksInv(s, P, K)
    PROVE  LinksInv(t, P, K) /\ UL(t) = UL(s)
  <1>1. UD(t) = UD(s) /\ UL(t) = UL(s)
    BY DEF SameDevices, TouchedLinks, UD, UL
  <1>2. \A d : LinksOf(t, d, P) = LinksOf(s, d, P)
    BY <1>1 DEF LinksOf, TouchedLinks, UL
  <1>3. \A d \in UD(t) : t.devices[d].links = s.devices[d].links /\ t.devices[d].key = s.devices[d].key
    BY DEF SameDevices, TouchedLinks, UD
  <1>4. \A d \in UD(t) : Lists(t.devices[d].links, LinksOf(t, d, P))
    BY <1>1, <1>2, <1>3 DEF LinksInv
  <1>5. \A i \in UL(t) : /\ t.links[i].device = s.links[i].device /\ t.links[i].key = s.links[i].key
                         /\ s.links[i].device \in UD(t) /\ s.links[i].key \in LinkKeys
    BY <1>1 DEF LinksInv, TouchedLinks, UL
  <1>6. ASSUME NEW i \in UL(t) \ K
        PROVE  t.links[i].key.device = t.devices[t.links[i].device].key
    <2>1. s.links[i].key.device = s.devices[s.links[i].device].key
      BY <1>1 DEF LinksInv
    <2> QED
      BY <1>3, <1>5, <2>1
  <1>7. ASSUME NEW k \in DOMAIN t.linkByKey
        PROVE  t.linkByKey[k] \in UL(t) /\ t.links[t.linkByKey[k]].key = k
    <2>1. t.linkByKey = s.linkByKey /\ s.linkByKey[k] \in UL(s) /\ s.links[s.linkByKey[k]].key = k
      BY DEF LinksInv, TouchedLinks
    <2> QED
      BY <1>1, <1>5, <2>1
  <1>8. t.freeLinks = s.freeLinks /\ Lists(s.freeLinks, LinkSlots \ UL(s))
    BY DEF LinksInv, TouchedLinks
  <1>9. \A i \in LinkSlots : /\ t.links[i].used \in BOOLEAN
                             /\ t.links[i].expires \in [Protocols -> Nat]
                             /\ t.links[i].lastSeen \in Nat
    BY DEF LinksInv, TouchedLinks
  <1> QED
    BY <1>1, <1>4, <1>5, <1>6, <1>7, <1>8, <1>9 DEF LinksInv

\* Putting i at the head of the wheel, wherever it was before.
LEMMA WheelScheduled ==
    ASSUME NEW U, NEW W, NEW q, Lists(q, U \ W), NEW i \in U
    PROVE  Lists(<<i>> \o RemoveFirst(q, i), U \ (W \ {i}))
  <1>1. Lists(RemoveFirst(q, i), (U \ W) \ {i})
    BY ListsRemove
  <1>2. ((U \ W) \ {i}) \cup {i} = U \ (W \ {i})
    OBVIOUS
  <1>3. i \notin (U \ W) \ {i}
    OBVIOUS
  <1> QED
    BY <1>1, <1>2, <1>3, ListsCons

\* t is s with link i replaced by m.
LinkSet(s, t, i, m) ==
    /\ Shape(t)
    /\ t.links[i] = m /\ \A j \in LinkSlots : j # i => t.links[j] = s.links[j]
    /\ t.linkByKey = s.linkByKey /\ t.freeLinks = s.freeLinks /\ t.linkWheel = s.linkWheel
    /\ t.devices = s.devices /\ t.deviceByKey = s.deviceByKey /\ t.freeDevices = s.freeDevices
    /\ SameRecords(s, t)

\* m has the key and the device of link i, its protocols are those with an
\* expiry, and the device knows them.
Successor(s, i, m) ==
    /\ DOMAIN m = DOMAIN s.links[i]
    /\ m.used = s.links[i].used /\ m.key = s.links[i].key /\ m.device = s.links[i].device
    /\ m.expires \in [Protocols -> Nat] /\ m.lastSeen \in Nat
    /\ m.protocols = {p \in Protocols : m.expires[p] # Never}
    /\ m.protocols \subseteq s.devices[s.links[i].device].protocols

\* What an assignment to an entry of the links changes.
LEMMA LinkSetEffect ==
    ASSUME NEW s, Shape(s), NEW i \in LinkSlots, NEW m, DOMAIN m = DOMAIN s.links[i],
           NEW t, t = [s EXCEPT !.links[i] = m]
    PROVE  LinkSet(s, t, i, m)
  <1>1. t.links = [s.links EXCEPT ![i] = m] /\ DOMAIN t = DOMAIN s
    BY DEF Shape
  <1>2. /\ t.linkByKey = s.linkByKey /\ t.freeLinks = s.freeLinks /\ t.linkWheel = s.linkWheel
        /\ t.devices = s.devices /\ t.deviceByKey = s.deviceByKey /\ t.freeDevices = s.freeDevices
        /\ t.dns = s.dns /\ t.dnsByKey = s.dnsByKey
        /\ t.freeDNS = s.freeDNS /\ t.dnsWheel = s.dnsWheel
    BY DEF Shape
  <1>3. t.links[i] = m /\ \A j \in LinkSlots : j # i => t.links[j] = s.links[j]
    BY <1>1 DEF Shape
  <1>4. Shape(t)
    BY <1>1, <1>2, <1>3 DEF Shape
  <1> QED
    BY <1>2, <1>3, <1>4 DEF LinkSet, SameRecords

\* A link may be replaced by one of the same key and device; it needs
\* evidence unless it is in F.
LEMMA LinkSetKeeps ==
    ASSUME NEW s, NEW P, NEW K, NEW E, NEW W, Linked(s, P, K, E, W),
           NEW i \in UL(s), NEW m, Successor(s, i, m),
           NEW F, E \ {i} \subseteq F, i \in F \/ m.protocols # {},
           NEW t, LinkSet(s, t, i, m)
    PROVE  /\ SameDevices(s, t) /\ SameRecords(s, t) /\ TouchedLinks(s, t)
           /\ UL(t) = UL(s)
           /\ Linked(t, P, K, F, W)
  <1> USE DEF Linked
  <1>1. i \in LinkSlots
    BY DEF UL
  <1>2. Shape(t) /\ SameDevices(s, t) /\ SameRecords(s, t)
    BY DEF LinkSet, SameDevices
  <1>3. TouchedLinks(s, t)
    BY DEF TouchedLinks, LinksInv, LinkSet, Successor
  <1>4. LinksInv(t, P, K) /\ UL(t) = UL(s)
    BY <1>2, <1>3, TouchLinks
  <1>5. LinkWheelInv(t, W)
    BY <1>4 DEF LinkWheelInv, LinkSet
  <1>6. ASSUME NEW j \in UL(s) \ E, j # i PROVE Evident(t, j)
    <2>1. t.links[j] = s.links[j] /\ t.devices = s.devices /\ Evident(s, j)
      BY <1>6 DEF EvidenceInv, LinkSet, UL
    <2> QED
      BY <2>1 DEF Evident
  <1>7. ASSUME m.protocols # {} PROVE Evident(t, i)
    <2>1. t.links[i] = m /\ t.devices = s.devices
      BY DEF LinkSet
    <2> QED
      BY <1>7, <2>1 DEF Evident, Successor
  <1> QED
    BY <1>2, <1>3, <1>4, <1>5, <1>6, <1>7 DEF EvidenceInv

\* What scheduleLink does, field by field.
LEMMA ScheduleLinkEffect ==
    ASSUME NEW s, Shape(s), NEW i \in LinkSlots, NEW at, NEW expiry,
           NEW t, t = scheduleLink(s, i, at, expiry)
    PROVE  /\ Shape(t) /\ SameDevices(s, t) /\ SameRecords(s, t) /\ t.devices = s.devices
           /\ t.linkByKey = s.linkByKey /\ t.freeLinks = s.freeLinks
           /\ t.linkWheel = <<i>> \o RemoveFirst(s.linkWheel, i)
           /\ \A j \in LinkSlots : /\ t.links[j].used = s.links[j].used
                                   /\ t.links[j].key = s.links[j].key
                                   /\ t.links[j].device = s.links[j].device
                                   /\ t.links[j].expires = s.links[j].expires
                                   /\ t.links[j].lastSeen = s.links[j].lastSeen
                                   /\ t.links[j].protocols = s.links[j].protocols
  <1> USE DEF scheduleLink, Shape
  <1>1. t.links = [s.links EXCEPT ![i].due = ceilDurationSeconds(expiry - at)]
    OBVIOUS
  <1>2. t.linkWheel = <<i>> \o RemoveFirst(s.linkWheel, i)
    OBVIOUS
  <1>3. DOMAIN t = DOMAIN s
    OBVIOUS
  <1>4. t.linkByKey = s.linkByKey /\ t.freeLinks = s.freeLinks /\ t.devices = s.devices
    OBVIOUS
  <1>5. /\ t.deviceByKey = s.deviceByKey /\ t.freeDevices = s.freeDevices
        /\ t.dns = s.dns /\ t.dnsByKey = s.dnsByKey
        /\ t.freeDNS = s.freeDNS /\ t.dnsWheel = s.dnsWheel
    OBVIOUS
  <1> HIDE DEF scheduleLink
  <1>6. Shape(t)
    BY <1>1, <1>3, <1>4, <1>5
  <1>7. SameDevices(s, t) /\ SameRecords(s, t)
    BY <1>4, <1>5 DEF SameDevices, SameRecords
  <1>8. \A j \in LinkSlots : /\ t.links[j].used = s.links[j].used
                             /\ t.links[j].key = s.links[j].key
                             /\ t.links[j].device = s.links[j].device
                             /\ t.links[j].expires = s.links[j].expires
                             /\ t.links[j].lastSeen = s.links[j].lastSeen
                             /\ t.links[j].protocols = s.links[j].protocols
    BY <1>1
  <1> QED
    BY <1>2, <1>4, <1>6, <1>7, <1>8

\* After scheduleLink the link is on the wheel.
LEMMA ScheduleLinkKeeps ==
    ASSUME NEW s, NEW P, NEW K, NEW E, NEW W, Linked(s, P, K, E, W),
           NEW i \in UL(s), NEW at, NEW expiry,
           NEW t, t = scheduleLink(s, i, at, expiry)
    PROVE  /\ SameDevices(s, t) /\ SameRecords(s, t) /\ TouchedLinks(s, t)
           /\ UL(t) = UL(s) /\ t.devices = s.devices
           /\ Linked(t, P, K, E, W \ {i})
  <1> USE DEF Linked
  <1>1. i \in LinkSlots
    BY DEF UL
  <1>2. /\ Shape(t) /\ SameDevices(s, t) /\ SameRecords(s, t) /\ t.devices = s.devices
        /\ t.linkByKey = s.linkByKey /\ t.freeLinks = s.freeLinks
        /\ t.linkWheel = <<i>> \o RemoveFirst(s.linkWheel, i)
        /\ \A j \in LinkSlots : /\ t.links[j].used = s.links[j].used
                                /\ t.links[j].key = s.links[j].key
                                /\ t.links[j].device = s.links[j].device
                                /\ t.links[j].expires = s.links[j].expires
                                /\ t.links[j].lastSeen = s.links[j].lastSeen
                                /\ t.links[j].protocols = s.links[j].protocols
    BY <1>1, ScheduleLinkEffect
  <1>3. TouchedLinks(s, t)
    BY <1>2 DEF TouchedLinks, LinksInv
  <1>4. LinksInv(t, P, K) /\ UL(t) = UL(s)
    BY <1>2, <1>3, TouchLinks
  <1>5. LinkWheelInv(t, W \ {i})
    <2>1. Lists(<<i>> \o RemoveFirst(s.linkWheel, i), UL(s) \ (W \ {i}))
      BY WheelScheduled DEF LinkWheelInv
    <2> QED
      BY <1>2, <1>4, <2>1 DEF LinkWheelInv
  <1>6. EvidenceInv(t, E)
    BY <1>2, <1>4 DEF EvidenceInv, Evident, UL
  <1> QED
    BY <1>2, <1>3, <1>4, <1>5, <1>6

\* The protocols of a link are those with an expiry, and known to its device.
Backed(s, i) ==
    /\ s.links[i].protocols = {p \in Protocols : s.links[i].expires[p] # Never}
    /\ s.links[i].protocols \subseteq s.devices[s.links[i].device].protocols

\* The later of two dates is one, and none only when both are.
LEMMA LaterNat ==
    ASSUME NEW a \in Nat, NEW b \in Nat
    PROVE  Later(a, b) \in Nat /\ (Later(a, b) = 0 <=> a = 0 /\ b = 0)
  BY DEF Later

\* After refreshLink the link has evidence and is on the wheel.
LEMMA RefreshLinkKeeps ==
    ASSUME NEW s, NEW P, NEW K, NEW E, NEW W, Linked(s, P, K, E, W),
           NEW i \in UL(s), Backed(s, i),
           NEW o, o.proto \in Protocols,
           o.proto \in s.devices[s.links[i].device].protocols,
           NEW kind, NEW ttl \in Int, NEW at \in Nat \ {0},
           NEW t, t = refreshLink(s, i, o, kind, ttl, at)
    PROVE  /\ SameDevices(s, t) /\ SameRecords(s, t) /\ TouchedLinks(s, t)
           /\ UL(t) = UL(s) /\ t.devices = s.devices
           /\ Linked(t, P, K, E \ {i}, W \ {i})
  <1>1. i \in LinkSlots /\ s.links[i].expires \in [Protocols -> Nat] /\ s.links[i].lastSeen \in Nat
    BY DEF UL, Linked, LinksInv
  <1>2. PICK units : units = IF ttl <= 0 THEN Second ELSE ttl
    OBVIOUS
  <1>3. units \in Nat \ {0} /\ at + units \in Nat \ {0}
    BY <1>2, SecondAssumption
  <1>4. PICK expires : expires = [s.links[i].expires EXCEPT ![o.proto] = at + units]
    OBVIOUS
  <1>5. /\ expires \in [Protocols -> Nat]
        /\ {p \in Protocols : expires[p] # Never}
             = {p \in Protocols : s.links[i].expires[p] # Never} \cup {o.proto}
    BY <1>1, <1>3, <1>4 DEF Never
  <1>6. PICK m : m = [s.links[i] EXCEPT !.kind = IF kind = "Physical" THEN kind ELSE @,
                                        !.protocols = @ \cup {o.proto},
                                        !.lastSeen = Later(@, at),
                                        !.expires = expires]
    OBVIOUS
  <1>7. PICK u : u = [s EXCEPT !.links[i] = m]
    OBVIOUS
  <1>8. t = scheduleLink(u, i, at, earliestExpiry(expires))
    BY <1>2, <1>4, <1>6, <1>7 DEF refreshLink
  <1>9. /\ DOMAIN m = DOMAIN s.links[i]
        /\ m.used = s.links[i].used /\ m.key = s.links[i].key /\ m.device = s.links[i].device
        /\ m.expires = expires /\ m.lastSeen = Later(s.links[i].lastSeen, at)
        /\ m.protocols = s.links[i].protocols \cup {o.proto}
    BY <1>1, <1>6 DEF Linked, Shape
  <1>10. Successor(s, i, m) /\ m.protocols # {}
    <2>0. Later(s.links[i].lastSeen, at) \in Nat
      BY <1>1, LaterNat
    <2>1. m.lastSeen \in Nat
      BY <1>9, <2>0
    <2>2. m.protocols = {p \in Protocols : m.expires[p] # Never}
      BY <1>5, <1>9 DEF Backed
    <2>3. m.protocols \subseteq s.devices[s.links[i].device].protocols /\ m.protocols # {}
      BY <1>9 DEF Backed
    <2> QED
      BY <1>5, <1>9, <2>1, <2>2, <2>3 DEF Successor
  <1>11. LinkSet(s, u, i, m)
    BY <1>1, <1>7, <1>9, LinkSetEffect DEF Linked
  <1>12. /\ SameDevices(s, u) /\ SameRecords(s, u) /\ TouchedLinks(s, u)
         /\ UL(u) = UL(s) /\ Linked(u, P, K, E \ {i}, W)
    BY <1>10, <1>11, LinkSetKeeps
  <1>13. u.devices = s.devices
    BY <1>11 DEF LinkSet
  <1>14. /\ SameDevices(u, t) /\ SameRecords(u, t) /\ TouchedLinks(u, t)
         /\ UL(t) = UL(u) /\ t.devices = u.devices
         /\ Linked(t, P, K, E \ {i}, W \ {i})
    BY <1>8, <1>12, ScheduleLinkKeeps
  <1>15. SameDevices(s, t) /\ SameRecords(s, t) /\ TouchedLinks(s, t)
    BY <1>12, <1>14 DEF SameDevices, SameRecords, TouchedLinks
  <1> QED
    BY <1>12, <1>13, <1>14, <1>15

\* Link i gets another key.
LinkRekeyed(s, t, i) ==
    /\ SameDevices(s, t) /\ SameRecords(s, t)
    /\ UL(t) = UL(s) /\ t.devices = s.devices
    /\ \A j \in LinkSlots : j # i => t.links[j] = s.links[j]
    /\ t.links[i].device = s.links[i].device
    /\ t.links[i].protocols = s.links[i].protocols
    /\ t.links[i].expires = s.links[i].expires

\* After rekeyLink the link has the key of its device, and the index has no
\* entry for the old key.
LEMMA RekeyLinkKeeps ==
    ASSUME NEW s, NEW P, NEW K, NEW E, NEW W, Linked(s, P, K, E, W),
           NEW i \in UL(s), NEW key \in LinkKeys,
           key.device = s.devices[s.links[i].device].key,
           NEW t, t = rekeyLink(s, i, key)
    PROVE  LinkRekeyed(s, t, i) /\ Linked(t, P, K \ {i}, E, W)
  <1> USE DEF Linked
  <1>1. i \in LinkSlots
    BY DEF UL
  <1>2. t.linkByKey = Store(Delete(s.linkByKey, s.links[i].key), key, i)
    BY DEF rekeyLink, Shape
  <1>3. t.links = [s.links EXCEPT ![i].key = key]
    BY DEF rekeyLink, Shape
  <1>4. DOMAIN t = DOMAIN s
    BY DEF rekeyLink, Shape
  <1>5. /\ t.freeLinks = s.freeLinks /\ t.linkWheel = s.linkWheel
        /\ t.devices = s.devices /\ t.deviceByKey = s.deviceByKey /\ t.freeDevices = s.freeDevices
        /\ t.dns = s.dns /\ t.dnsByKey = s.dnsByKey
        /\ t.freeDNS = s.freeDNS /\ t.dnsWheel = s.dnsWheel
    BY DEF rekeyLink, Shape
  <1>6. /\ \A j \in LinkSlots : j # i => t.links[j] = s.links[j]
        /\ t.links[i].key = key /\ t.links[i].used = s.links[i].used
        /\ t.links[i].device = s.links[i].device /\ t.links[i].protocols = s.links[i].protocols
        /\ t.links[i].expires = s.links[i].expires /\ t.links[i].lastSeen = s.links[i].lastSeen
        /\ DOMAIN t.links[i] = DOMAIN s.links[i] /\ DOMAIN t.links = LinkSlots
    BY <1>1, <1>3 DEF Shape
  <1>7. Shape(t) /\ SameDevices(s, t) /\ SameRecords(s, t)
    <2>1. Shape(t)
      BY <1>4, <1>5, <1>6 DEF Shape
    <2> QED
      BY <1>5, <2>1 DEF SameDevices, SameRecords
  <1>8. UL(t) = UL(s) /\ UD(t) = UD(s)
    BY <1>5, <1>6 DEF UL, UD
  <1>9. \A d : LinksOf(t, d, P) = LinksOf(s, d, P)
    BY <1>6, <1>8 DEF LinksOf, UL
  <1>10. ASSUME NEW k \in DOMAIN t.linkByKey
         PROVE  t.linkByKey[k] \in UL(t) /\ t.links[t.linkByKey[k]].key = k
    <2>1. CASE k = key
      <3>1. t.linkByKey[k] = i
        BY <1>2, <2>1 DEF Store
      <3> QED
        BY <1>6, <1>8, <2>1, <3>1
    <2>2. CASE k # key
      <3>1. k \in DOMAIN s.linkByKey /\ k # s.links[i].key /\ t.linkByKey[k] = s.linkByKey[k]
        BY <1>2, <2>2 DEF Store, Delete, Restrict
      <3>2. s.linkByKey[k] \in UL(s) /\ s.links[s.linkByKey[k]].key = k
        BY <3>1 DEF LinksInv
      <3>3. s.linkByKey[k] # i
        BY <3>1, <3>2
      <3> QED
        BY <1>6, <1>8, <3>1, <3>2, <3>3 DEF UL
    <2> QED
      BY <2>1, <2>2
  <1>11. LinksInv(t, P, K \ {i})
    <2>1. \A j \in LinkSlots : /\ t.links[j].used \in BOOLEAN
                               /\ t.links[j].expires \in [Protocols -> Nat]
                               /\ t.links[j].lastSeen \in Nat
      BY <1>1, <1>6 DEF LinksInv
    <2>2. Lists(t.freeLinks, LinkSlots \ UL(t))
      BY <1>5, <1>8 DEF LinksInv
    <2>3. \A d \in UD(t) : Lists(t.devices[d].links, LinksOf(t, d, P))
      BY <1>5, <1>8, <1>9 DEF LinksInv
    <2>4. \A j \in UL(t) : t.links[j].device \in UD(t) /\ t.links[j].key \in LinkKeys
      BY <1>6, <1>8 DEF LinksInv, UL
    <2>5. \A j \in UL(t) \ (K \ {i}) : t.links[j].key.device = t.devices[t.links[j].device].key
      <3> TAKE j \in UL(t) \ (K \ {i})
      <3>1. CASE j = i
        BY <1>5, <1>6, <3>1
      <3>2. CASE j # i
        BY <1>5, <1>6, <1>8, <3>2 DEF LinksInv, UL
      <3> QED
        BY <3>1, <3>2
    <2> QED
      BY <1>10, <2>1, <2>2, <2>3, <2>4, <2>5 DEF LinksInv
  <1>12. EvidenceInv(t, E)
    BY <1>5, <1>6, <1>8 DEF EvidenceInv, Evident, UL
  <1>13. LinkWheelInv(t, W)
    BY <1>5, <1>8 DEF LinkWheelInv
  <1>14. LinkRekeyed(s, t, i)
    BY <1>5, <1>6, <1>7, <1>8 DEF LinkRekeyed
  <1> QED
    BY <1>7, <1>11, <1>12, <1>13, <1>14

\* Link src is gone, the others have the devices they had.
LinkMerged(s, t, src) ==
    /\ SameDevices(s, t) /\ SameRecords(s, t)
    /\ UL(t) = UL(s) \ {src}
    /\ \A j \in UL(t) : t.links[j].device = s.links[j].device
    /\ \A d \in DeviceSlots : t.devices[d].protocols = s.devices[d].protocols

\* mergeLinks gives the evidence of src to dst, and removes src.
LEMMA MergeLinksKeeps ==
    ASSUME NEW s, NEW P, NEW K, NEW E, NEW W, Linked(s, P, K, E, W),
           NEW dst \in UL(s), NEW src \in UL(s), dst # src, Backed(s, dst), Backed(s, src),
           s.links[dst].protocols # {},
           s.links[src].protocols \subseteq s.devices[s.links[dst].device].protocols,
           NEW t, t = mergeLinks(s, dst, src)
    PROVE  /\ LinkMerged(s, t, src)
           /\ Linked(t, P \ {src}, K \ {src}, (E \ {dst}) \ {src}, (W \ {dst}) \ {src})
  <1> DEFINE a == s.links[dst]
             b == s.links[src]
  <1>1. /\ dst \in LinkSlots /\ a.expires \in [Protocols -> Nat] /\ a.lastSeen \in Nat
        /\ b.expires \in [Protocols -> Nat] /\ b.lastSeen \in Nat /\ Shape(s)
    BY DEF UL, Linked, LinksInv
  <1>2. PICK expires : expires = [p \in Protocols |-> Later(a.expires[p], b.expires[p])]
    OBVIOUS
  <1>3. PICK m : m = [a EXCEPT !.protocols = @ \cup b.protocols,
                               !.kind = IF b.kind = "Physical" THEN "Physical" ELSE @,
                               !.expires = expires,
                               !.lastSeen = Later(@, b.lastSeen)]
    OBVIOUS
  <1>4. PICK u : u = [s EXCEPT !.links[dst] = m]
    OBVIOUS
  <1>5. PICK v : v = scheduleLink(u, dst, m.lastSeen, earliestExpiry(m.expires))
    OBVIOUS
  <1>6. t = removeLink(v, src, "Changed")
    BY <1>2, <1>3, <1>4, <1>5 DEF mergeLinks
  <1>7. /\ DOMAIN m = DOMAIN a /\ m.used = a.used /\ m.key = a.key /\ m.device = a.device
        /\ m.protocols = a.protocols \cup b.protocols
        /\ m.expires = expires /\ m.lastSeen = Later(a.lastSeen, b.lastSeen)
    BY <1>1, <1>3 DEF Shape
  <1>8. Successor(s, dst, m) /\ m.protocols # {}
    <2>0. Later(s.links[dst].lastSeen, s.links[src].lastSeen) \in Nat
      BY <1>1, LaterNat
    <2>1. m.lastSeen \in Nat
      BY <1>7, <2>0
    <2>2. \A p \in Protocols : expires[p] \in Nat /\ (expires[p] = 0 <=> a.expires[p] = 0 /\ b.expires[p] = 0)
      BY <1>1, <1>2, LaterNat
    <2>3. expires \in [Protocols -> Nat]
      BY <1>2, <2>2
    <2>4. m.protocols = {p \in Protocols : expires[p] # Never}
      BY <1>7, <2>2 DEF Backed, Never
    <2>5. m.protocols \subseteq s.devices[a.device].protocols /\ m.protocols # {}
      BY <1>7 DEF Backed
    <2> QED
      BY <1>7, <2>1, <2>3, <2>4, <2>5 DEF Successor
  <1>9. LinkSet(s, u, dst, m)
    BY <1>1, <1>4, <1>7, LinkSetEffect
  <1>10. /\ SameDevices(s, u) /\ SameRecords(s, u) /\ TouchedLinks(s, u) /\ UL(u) = UL(s)
         /\ Linked(u, P, K, E \ {dst}, W)
    BY <1>8, <1>9, LinkSetKeeps
  <1>11. /\ SameDevices(u, v) /\ SameRecords(u, v) /\ TouchedLinks(u, v)
         /\ UL(v) = UL(u) /\ v.devices = u.devices
         /\ Linked(v, P, K, E \ {dst}, W \ {dst})
    BY <1>5, <1>10, ScheduleLinkKeeps
  <1>13. /\ SameDevices(v, t) /\ SameRecords(v, t)
         /\ UL(t) = UL(v) \ {src}
         /\ \A j \in UL(t) : t.links[j] = v.links[j]
         /\ \A d \in DeviceSlots : t.devices[d].protocols = v.devices[d].protocols
         /\ Linked(t, P \ {src}, K \ {src}, (E \ {dst}) \ {src}, (W \ {dst}) \ {src})
    <2>1. src \in UL(v)
      BY <1>10, <1>11
    <2>2. PICK E1, W1, kind : E1 = E \ {dst} /\ W1 = W \ {dst} /\ kind = "Changed"
      OBVIOUS
    <2>3. Linked(v, P, K, E1, W1) /\ t = removeLink(v, src, kind)
      BY <1>6, <1>11, <2>2
    <2>4. LinkRemoved(v, t, src) /\ Linked(t, P \ {src}, K \ {src}, E1 \ {src}, W1 \ {src})
      BY <2>1, <2>3, RemoveLinkKeeps
    <2> QED
      BY <2>2, <2>4 DEF LinkRemoved
  <1>16. \A j \in UL(t) : t.links[j].device = s.links[j].device
    BY <1>10, <1>11, <1>13 DEF TouchedLinks, UL
  <1>17. SameDevices(s, t) /\ SameRecords(s, t)
    BY <1>10, <1>11, <1>13 DEF SameDevices, SameRecords
  <1>18. u.devices = s.devices
    BY <1>9 DEF LinkSet
  <1>19. LinkMerged(s, t, src)
    BY <1>10, <1>11, <1>13, <1>16, <1>17, <1>18 DEF LinkMerged
  <1> QED
    BY <1>13, <1>19

\* No two devices in use have the same key.
LEMMA KeysAreDistinct ==
    ASSUME NEW s, DevicesInv(s), NEW d \in UD(s), NEW e \in UD(s), s.devices[d].key = s.devices[e].key
    PROVE  d = e
  BY DEF DevicesInv

\* The key of a link with another device in it is the key of a link.
LEMMA KeyOfAnotherDevice ==
    ASSUME NEW k \in LinkKeys, NEW dk \in DeviceKeys
    PROVE  [k EXCEPT !.device = dk] \in LinkKeys /\ [k EXCEPT !.device = dk].device = dk
  BY DEF LinkKeys

\* A lookup that returns an entry returns the one of that key.
LEMMA LookedUp ==
    ASSUME NEW f, NEW k, Lookup(f, k) # 0
    PROVE  k \in DOMAIN f /\ Lookup(f, k) = f[k]
  BY DEF Lookup

\* The links in P, of device src, are on no list of a device.
PendingLinks(s, P, src) == P \subseteq UL(s) /\ \A j \in P : s.links[j].device = src

\* P is all of the links of src.
MovingLinks(s, P, src) == P = {j \in UL(s) : s.links[j].device = src}

\* Devices speak what they spoke.
SameProtocols(s, t) == \A d \in DeviceSlots : t.devices[d].protocols = s.devices[d].protocols

\* Two devices, one of which gives its links to the other.
Merging(s, src, dst) ==
    /\ src \in UD(s) /\ dst \in UD(s) /\ src # dst
    /\ s.devices[src].protocols \subseteq s.devices[dst].protocols

\* The first part of moveLink: link i has a new owner and key, and no index entry.
disownLink(s, i, dst, key) ==
    [s EXCEPT !.linkByKey = Delete(@, s.links[i].key),
              !.links[i].key = key, !.links[i].device = dst]

\* Link i belongs to dst and is on no list and not in the index.
Disowned(s, t, i, dst, key) ==
    /\ t.devices = s.devices /\ SameDevices(s, t) /\ SameRecords(s, t) /\ UL(t) = UL(s)
    /\ \A j \in LinkSlots : j # i => t.links[j] = s.links[j]
    /\ t.links[i].device = dst /\ t.links[i].key = key
    /\ \A k \in DOMAIN t.linkByKey : t.linkByKey[k] # i

\* The first part of moveLink keeps the links in order while the link is on
\* no list.
LEMMA DisownLinkKeeps ==
    ASSUME NEW s, NEW P, Linked(s, P, {}, {}, {}), DevicesInv(s),
           NEW src, NEW dst, Merging(s, src, dst), PendingLinks(s, P, src), NEW i \in P,
           NEW key \in LinkKeys, key.device = s.devices[dst].key,
           NEW t, t = disownLink(s, i, dst, key)
    PROVE  Linked(t, P, {}, {}, {}) /\ Disowned(s, t, i, dst, key)
  <1> USE DEF Linked
  <1>1. i \in UL(s) /\ i \in LinkSlots /\ dst \in UD(s) /\ dst \in DeviceSlots /\ s.links[i].device = src
    BY DEF PendingLinks, Merging, UL, UD
  <1>2. t.linkByKey = Delete(s.linkByKey, s.links[i].key)
    BY DEF Shape, disownLink
  <1>3. t.links = [s.links EXCEPT ![i].key = key, ![i].device = dst]
    BY DEF Shape, disownLink
  <1>4. DOMAIN t = DOMAIN s
    BY DEF Shape, disownLink
  <1>5. /\ t.freeLinks = s.freeLinks /\ t.linkWheel = s.linkWheel
        /\ t.devices = s.devices /\ t.deviceByKey = s.deviceByKey /\ t.freeDevices = s.freeDevices
        /\ t.dns = s.dns /\ t.dnsByKey = s.dnsByKey
        /\ t.freeDNS = s.freeDNS /\ t.dnsWheel = s.dnsWheel
    BY DEF Shape, disownLink
  <1>6. /\ \A j \in LinkSlots : j # i => t.links[j] = s.links[j]
        /\ t.links[i].key = key /\ t.links[i].used = s.links[i].used
        /\ t.links[i].device = dst /\ t.links[i].protocols = s.links[i].protocols
        /\ t.links[i].expires = s.links[i].expires /\ t.links[i].lastSeen = s.links[i].lastSeen
        /\ DOMAIN t.links[i] = DOMAIN s.links[i] /\ DOMAIN t.links = LinkSlots
    BY <1>1, <1>3 DEF Shape
  <1>7. Shape(t) /\ SameDevices(s, t) /\ SameRecords(s, t)
    <2>1. Shape(t)
      BY <1>4, <1>5, <1>6 DEF Shape
    <2> QED
      BY <1>5, <2>1 DEF SameDevices, SameRecords
  <1>8. UL(t) = UL(s) /\ UD(t) = UD(s)
    BY <1>5, <1>6 DEF UL, UD
  <1>9. \A d : LinksOf(t, d, P) = LinksOf(s, d, P)
    BY <1>6, <1>8 DEF LinksOf, UL
  <1>10. ASSUME NEW k \in DOMAIN t.linkByKey
         PROVE  t.linkByKey[k] \in UL(t) /\ t.links[t.linkByKey[k]].key = k /\ t.linkByKey[k] # i
    <2>1. k \in DOMAIN s.linkByKey /\ k # s.links[i].key /\ t.linkByKey[k] = s.linkByKey[k]
      BY <1>2 DEF Delete, Restrict
    <2>2. s.linkByKey[k] \in UL(s) /\ s.links[s.linkByKey[k]].key = k
      BY <2>1 DEF LinksInv
    <2>3. s.linkByKey[k] # i
      BY <2>1, <2>2
    <2> QED
      BY <1>6, <1>8, <2>1, <2>2, <2>3 DEF UL
  <1>11. LinksInv(t, P, {})
    <2>1. \A j \in LinkSlots : /\ t.links[j].used \in BOOLEAN
                               /\ t.links[j].expires \in [Protocols -> Nat]
                               /\ t.links[j].lastSeen \in Nat
      BY <1>1, <1>6 DEF LinksInv
    <2>2. Lists(t.freeLinks, LinkSlots \ UL(t))
      BY <1>5, <1>8 DEF LinksInv
    <2>3. \A d \in UD(t) : Lists(t.devices[d].links, LinksOf(t, d, P))
      BY <1>5, <1>8, <1>9 DEF LinksInv
    <2>4. \A j \in UL(t) : t.links[j].device \in UD(t) /\ t.links[j].key \in LinkKeys
      BY <1>1, <1>6, <1>8 DEF LinksInv, UL
    <2>5. \A j \in UL(t) \ {} : t.links[j].key.device = t.devices[t.links[j].device].key
      <3> TAKE j \in UL(t) \ {}
      <3>1. CASE j = i
        BY <1>5, <1>6, <3>1
      <3>2. CASE j # i
        BY <1>5, <1>6, <1>8, <3>2 DEF LinksInv, UL
      <3> QED
        BY <3>1, <3>2
    <2> QED
      BY <1>10, <2>1, <2>2, <2>3, <2>4, <2>5 DEF LinksInv
  <1>12. EvidenceInv(t, {})
    <2>1. ASSUME NEW j \in UL(t), j # i PROVE Evident(t, j)
      <3>1. j \in UL(s) \ {} /\ j \in LinkSlots
        BY <1>8 DEF UL
      <3>2. Evident(s, j) /\ t.links[j] = s.links[j]
        BY <1>6, <2>1, <3>1 DEF EvidenceInv
      <3> QED
        BY <1>5, <3>2 DEF Evident
    <2>2. Evident(t, i)
      <3>1. Evident(s, i)
        BY <1>1 DEF EvidenceInv
      <3> QED
        BY <1>1, <1>5, <1>6, <3>1 DEF Evident, Merging
    <2> QED
      BY <2>1, <2>2 DEF EvidenceInv
  <1>13. LinkWheelInv(t, {})
    BY <1>5, <1>8 DEF LinkWheelInv
  <1>14. Disowned(s, t, i, dst, key)
    BY <1>5, <1>6, <1>7, <1>8, <1>10 DEF Disowned
  <1> QED
    BY <1>7, <1>11, <1>12, <1>13, <1>14

\* The last part of moveLink: link i gets an index entry and a place in the list of its device.
ownLink(s, i, dst, key) ==
    [s EXCEPT !.linkByKey = Store(@, key, i), !.devices[dst].links = Append(@, i)]

\* The last part of moveLink puts the link on the list of its device.
LEMMA OwnLinkKeeps ==
    ASSUME NEW s, NEW P, NEW E, NEW W, Linked(s, P, {}, E, W), NEW i \in P, i \in UL(s),
           NEW dst, dst = s.links[i].device,
           NEW key, key = s.links[i].key,
           NEW t, t = ownLink(s, i, dst, key)
    PROVE  /\ Linked(t, P \ {i}, {}, E, W) /\ t.links = s.links /\ SameProtocols(s, t)
           /\ SameDevices(s, t) /\ SameRecords(s, t) /\ UL(t) = UL(s)
  <1> USE DEF Linked
  <1>1. i \in LinkSlots /\ dst \in UD(s) /\ dst \in DeviceSlots
    BY DEF UL, UD, LinksInv
  <1>2. t.linkByKey = Store(s.linkByKey, key, i)
    BY DEF Shape, ownLink
  <1>3. t.devices = [s.devices EXCEPT ![dst].links = Append(@, i)]
    BY DEF Shape, ownLink
  <1>4. DOMAIN t = DOMAIN s
    BY DEF Shape, ownLink
  <1>5. /\ t.freeLinks = s.freeLinks /\ t.linkWheel = s.linkWheel /\ t.links = s.links
        /\ t.deviceByKey = s.deviceByKey /\ t.freeDevices = s.freeDevices
        /\ t.dns = s.dns /\ t.dnsByKey = s.dnsByKey
        /\ t.freeDNS = s.freeDNS /\ t.dnsWheel = s.dnsWheel
    BY DEF Shape, ownLink
  <1>6. /\ \A d \in DeviceSlots : d # dst => t.devices[d] = s.devices[d]
        /\ t.devices[dst].links = Append(s.devices[dst].links, i)
        /\ DOMAIN t.devices = DeviceSlots
    BY <1>1, <1>3 DEF Shape
  <1>7. \A d \in DeviceSlots : /\ t.devices[d].used = s.devices[d].used
                               /\ t.devices[d].key = s.devices[d].key
                               /\ t.devices[d].protocols = s.devices[d].protocols
                               /\ t.devices[d].dns = s.devices[d].dns
                               /\ t.devices[d].dnsExpiry = s.devices[d].dnsExpiry
                               /\ t.devices[d].facts = s.devices[d].facts
                               /\ t.devices[d].lastSeen = s.devices[d].lastSeen
                               /\ DOMAIN t.devices[d] = DOMAIN s.devices[d]
    BY <1>1, <1>3 DEF Shape
  <1>8. Shape(t) /\ SameDevices(s, t) /\ SameRecords(s, t) /\ SameProtocols(s, t)
    <2>0. /\ DOMAIN t.devices = DOMAIN s.devices
          /\ \A d \in DeviceSlots : DOMAIN t.devices[d] = DOMAIN s.devices[d]
      BY <1>6, <1>7 DEF Shape
    <2>1. Shape(t)
      BY <1>4, <1>5, <2>0 DEF Shape
    <2> QED
      BY <1>5, <1>7, <2>1 DEF SameDevices, SameRecords, SameProtocols
  <1>9. UL(t) = UL(s) /\ UD(t) = UD(s)
    BY <1>5, <1>7 DEF UL, UD
  <1>10. ASSUME NEW d \in UD(t) PROVE Lists(t.devices[d].links, LinksOf(t, d, P \ {i}))
    <2>1. d \in DeviceSlots /\ Lists(s.devices[d].links, LinksOf(s, d, P))
      BY <1>9 DEF LinksInv, UD
    <2>2. CASE d = dst
      <3>1. LinksOf(t, d, P \ {i}) = LinksOf(s, d, P) \cup {i} /\ i \notin LinksOf(s, d, P)
        BY <1>5, <1>9, <2>2 DEF LinksOf
      <3>2. Lists(Append(s.devices[d].links, i), LinksOf(s, d, P) \cup {i})
        BY <2>1, <3>1, ListsAppend
      <3> QED
        BY <1>6, <2>2, <3>1, <3>2
    <2>3. CASE d # dst
      <3>1. LinksOf(t, d, P \ {i}) = LinksOf(s, d, P)
        BY <1>5, <1>9, <2>3 DEF LinksOf
      <3> QED
        BY <1>6, <2>1, <2>3, <3>1
    <2> QED
      BY <2>2, <2>3
  <1>11. ASSUME NEW k \in DOMAIN t.linkByKey
         PROVE  t.linkByKey[k] \in UL(t) /\ t.links[t.linkByKey[k]].key = k
    <2>1. CASE k = key
      <3>1. t.linkByKey[k] = i
        BY <1>2, <2>1 DEF Store
      <3> QED
        BY <1>5, <1>9, <2>1, <3>1
    <2>2. CASE k # key
      <3>1. k \in DOMAIN s.linkByKey /\ t.linkByKey[k] = s.linkByKey[k]
        BY <1>2, <2>2 DEF Store
      <3> QED
        BY <1>5, <1>9, <3>1 DEF LinksInv
    <2> QED
      BY <2>1, <2>2
  <1>12. LinksInv(t, P \ {i}, {})
    <2>1. \A j \in UL(t) : /\ t.links[j].device \in UD(t) /\ t.links[j].key \in LinkKeys
                           /\ t.links[j].device \in DeviceSlots
      BY <1>5, <1>9 DEF LinksInv, UL, UD
    <2>2. \A j \in UL(t) \ {} : t.links[j].key.device = t.devices[t.links[j].device].key
      <3> TAKE j \in UL(t) \ {}
      <3>1. s.links[j].key.device = s.devices[s.links[j].device].key
        BY <1>9 DEF LinksInv
      <3>2. t.links[j] = s.links[j] /\ s.links[j].device \in DeviceSlots
        BY <1>5, <2>1
      <3>3. t.devices[s.links[j].device].key = s.devices[s.links[j].device].key
        BY <1>7, <3>2
      <3> QED
        BY <3>1, <3>2, <3>3
    <2>3. Lists(t.freeLinks, LinkSlots \ UL(t))
      BY <1>5, <1>9 DEF LinksInv
    <2> QED
      BY <1>5, <1>10, <1>11, <2>1, <2>2, <2>3 DEF LinksInv
  <1>13. EvidenceInv(t, E)
    <2> SUFFICES ASSUME NEW j \in UL(t) \ E PROVE Evident(t, j)
      BY DEF EvidenceInv
    <2>1. Evident(s, j) /\ s.links[j].device \in DeviceSlots
      BY <1>9 DEF EvidenceInv, LinksInv, UD
    <2>2. t.devices[s.links[j].device].protocols = s.devices[s.links[j].device].protocols
      BY <1>7, <2>1
    <2>3. t.links = s.links
      BY <1>5
    <2>4. /\ t.links[j].protocols # {}
          /\ t.links[j].protocols = {p \in Protocols : t.links[j].expires[p] # Never}
      BY <2>1, <2>3 DEF Evident
    <2>5. t.links[j].protocols \subseteq t.devices[t.links[j].device].protocols
      BY <2>1, <2>2, <2>3 DEF Evident
    <2> QED
      BY <2>4, <2>5 DEF Evident
  <1>14. LinkWheelInv(t, W)
    BY <1>5, <1>9 DEF LinkWheelInv
  <1> QED
    BY <1>5, <1>8, <1>9, <1>12, <1>13, <1>14

\* moveLink leaves one link less to move, whether it joins a link that dst
\* has or becomes a link of dst.
LEMMA MoveLinkKeeps ==
    ASSUME NEW s, NEW P, Linked(s, P, {}, {}, {}), DevicesInv(s),
           NEW src, NEW dst, Merging(s, src, dst), MovingLinks(s, P, src), NEW i \in P,
           NEW u, u = moveLink(s, i, dst)
    PROVE  /\ Linked(u, P \ {i}, {}, {}, {}) /\ MovingLinks(u, P \ {i}, src)
           /\ SameDevices(s, u) /\ SameRecords(s, u) /\ SameProtocols(s, u)
  <1>1. i \in UL(s) /\ s.links[i].device = src /\ dst \in UD(s) /\ dst # src
    BY DEF MovingLinks, Merging
  <1>2. s.links[i].key \in LinkKeys /\ s.devices[dst].key \in DeviceKeys
    BY <1>1 DEF Linked, LinksInv, DevicesInv
  <1>3. PICK key : key = [s.links[i].key EXCEPT !.device = s.devices[dst].key]
    OBVIOUS
  <1>4. key \in LinkKeys /\ key.device = s.devices[dst].key
    BY <1>2, <1>3, KeyOfAnotherDevice
  <1>5. PICK t : t = disownLink(s, i, dst, key)
    OBVIOUS
  <1>6. u = IF Lookup(t.linkByKey, key) # 0 THEN mergeLinks(t, Lookup(t.linkByKey, key), i)
            ELSE ownLink(t, i, dst, key)
    BY <1>3, <1>5 DEF moveLink, disownLink, ownLink
  <1>7. /\ Linked(t, P, {}, {}, {}) /\ t.devices = s.devices
        /\ SameDevices(s, t) /\ SameRecords(s, t) /\ UL(t) = UL(s)
        /\ \A j \in LinkSlots : j # i => t.links[j] = s.links[j]
        /\ t.links[i].device = dst /\ t.links[i].key = key
        /\ \A k \in DOMAIN t.linkByKey : t.linkByKey[k] # i
    <2>1. PendingLinks(s, P, src)
      BY DEF PendingLinks, MovingLinks
    <2> QED
      BY <1>4, <1>5, <2>1, DisownLinkKeeps DEF Disowned
  <1>8. UD(t) = UD(s) /\ i \in UL(t)
    BY <1>1, <1>7 DEF UD
  <1>9. \A j \in P : j # i => j \in UL(t) /\ t.links[j] = s.links[j] /\ t.links[j].device = src
    BY <1>7 DEF MovingLinks, UL
  <1>12. P \ {i} = {j \in UL(t) : t.links[j].device = src}
    <2>1. \A j \in UL(t) : j \in UL(s) /\ (j # i => t.links[j].device = s.links[j].device)
      BY <1>7 DEF UL
    <2> QED
      BY <1>1, <1>7, <2>1 DEF MovingLinks
  <1>10. CASE Lookup(t.linkByKey, key) # 0
    <2>1. PICK e : e = Lookup(t.linkByKey, key)
      OBVIOUS
    <2>2. key \in DOMAIN t.linkByKey /\ e = t.linkByKey[key]
      BY <1>10, <2>1, LookedUp
    <2>3. e \in UL(t) /\ t.links[e].key = key /\ e # i
      BY <1>7, <2>2 DEF Linked, LinksInv
    <2>4. t.links[e].device \in UD(s) /\ t.links[e].key.device = s.devices[t.links[e].device].key
      BY <1>7, <1>8, <2>3 DEF Linked, LinksInv
    <2>5. t.links[e].device = dst
      BY <1>1, <1>4, <2>3, <2>4, KeysAreDistinct
    <2>6. e \notin P
      BY <1>1, <1>9, <2>3, <2>5
    <2>7. Backed(t, e) /\ Backed(t, i) /\ t.links[e].protocols # {}
      BY <1>7, <1>8, <2>3 DEF Linked, EvidenceInv, Evident, Backed
    <2>8. t.links[i].protocols \subseteq t.devices[t.links[e].device].protocols
      BY <1>7, <2>5, <2>7 DEF Backed
    <2>9. u = mergeLinks(t, e, i)
      BY <1>6, <1>10, <2>1
    <2>10. /\ LinkMerged(t, u, i)
           /\ Linked(u, P \ {i}, {} \ {i}, ({} \ {e}) \ {i}, ({} \ {e}) \ {i})
      BY <1>7, <1>8, <2>3, <2>7, <2>8, <2>9, MergeLinksKeeps
    <2>11. {} \ {i} = {} /\ ({} \ {e}) \ {i} = {}
      OBVIOUS
    <2>12. Linked(u, P \ {i}, {}, {}, {})
      BY <2>10, <2>11
    <2>13. MovingLinks(u, P \ {i}, src)
      BY <1>1, <1>7, <1>12, <2>10 DEF MovingLinks, LinkMerged
    <2>14. SameDevices(s, u) /\ SameRecords(s, u) /\ SameProtocols(s, u)
      BY <1>7, <2>10 DEF SameDevices, SameRecords, SameProtocols, LinkMerged
    <2> QED
      BY <2>12, <2>13, <2>14
  <1>11. CASE Lookup(t.linkByKey, key) = 0
    <2>1. u = ownLink(t, i, dst, key)
      BY <1>6, <1>11
    <2>2. /\ Linked(u, P \ {i}, {}, {}, {}) /\ u.links = t.links /\ SameProtocols(t, u)
          /\ SameDevices(t, u) /\ SameRecords(t, u) /\ UL(u) = UL(t)
      BY <1>7, <1>8, <2>1, OwnLinkKeeps
    <2>3. MovingLinks(u, P \ {i}, src)
      BY <1>12, <2>2 DEF MovingLinks
    <2>4. SameDevices(s, u) /\ SameRecords(s, u) /\ SameProtocols(s, u)
      BY <1>7, <2>2 DEF SameDevices, SameRecords, SameProtocols
    <2> QED
      BY <2>2, <2>3, <2>4
  <1> QED
    BY <1>10, <1>11

\* The loop of mergeDevices over the links of src.
MLTurn(c, t, i) == moveLink(t, i, c.dst)
MLGood(c, n, t) ==
    /\ Linked(t, Rest(c.q, n), {}, {}, {}) /\ MovingLinks(t, Rest(c.q, n), c.src)
    /\ DevicesInv(t) /\ Merging(t, c.src, c.dst)
    /\ SameDevices(c.s, t) /\ SameRecords(c.s, t) /\ SameProtocols(c.s, t)
ML == INSTANCE Loops WITH Turn <- MLTurn, Good <- MLGood

\* After the loop of mergeDevices no link of src is left.
LEMMA MoveLinksKeeps ==
    ASSUME NEW s, NEW P, Linked(s, P, {}, {}, {}), DevicesInv(s),
           NEW src, NEW dst, Merging(s, src, dst), MovingLinks(s, P, src),
           NEW q, Lists(q, P), NEW t, t = moveLinks(s, q, dst)
    PROVE  /\ Linked(t, {}, {}, {}, {}) /\ DevicesInv(t) /\ MovingLinks(t, {}, src)
           /\ SameDevices(s, t) /\ SameRecords(s, t) /\ SameProtocols(s, t)
  <1>1. PICK c : c = [s |-> s, q |-> q, src |-> src, dst |-> dst]
    OBVIOUS
  <1>2. c.s = s /\ c.q = q /\ c.src = src /\ c.dst = dst
    BY <1>1
  <1>3. moveLinks(s, q, c.dst) = ML!Loop(c, s, q)
    BY DEF moveLinks, ML!Loop, MLTurn, FoldLeft, MapThenFoldSet, Max, ML!Greatest
  <1>4. q \in Seq(P) /\ Rest(q, 0) = P /\ Rest(q, Len(q)) = {}
    BY ListsRest DEF Lists
  <1>5. MLGood(c, 0, s)
    BY <1>2, <1>4 DEF MLGood, SameDevices, SameRecords, SameProtocols
  <1>6. ASSUME NEW n \in 1..Len(q), NEW u, MLGood(c, n - 1, u)
        PROVE  MLGood(c, n, MLTurn(c, u, q[n]))
    <2>1. PICK R, i, v : R = Rest(q, n - 1) /\ i = q[n] /\ v = moveLink(u, i, dst)
      OBVIOUS
    <2>2. i \in R /\ Rest(q, n) = R \ {i}
      BY <2>1, ListsRest
    <2>3. /\ Linked(u, R, {}, {}, {}) /\ MovingLinks(u, R, src)
          /\ DevicesInv(u) /\ Merging(u, src, dst)
          /\ SameDevices(s, u) /\ SameRecords(s, u) /\ SameProtocols(s, u)
      BY <1>2, <1>6, <2>1 DEF MLGood
    <2>4. /\ Linked(v, R \ {i}, {}, {}, {}) /\ MovingLinks(v, R \ {i}, src)
          /\ SameDevices(u, v) /\ SameRecords(u, v) /\ SameProtocols(u, v)
      BY <2>1, <2>2, <2>3, MoveLinkKeeps
    <2>5. DevicesInv(v) /\ UD(v) = UD(u)
      BY <2>3, <2>4, DevicesFrame
    <2>6. Merging(v, src, dst)
      BY <2>3, <2>4, <2>5 DEF Merging, SameProtocols, UD
    <2>7. SameDevices(s, v) /\ SameRecords(s, v) /\ SameProtocols(s, v)
      BY <2>3, <2>4 DEF SameDevices, SameRecords, SameProtocols
    <2>8. MLTurn(c, u, q[n]) = v
      BY <1>2, <2>1 DEF MLTurn
    <2> QED
      BY <1>2, <2>2, <2>4, <2>5, <2>6, <2>7, <2>8 DEF MLGood
  <1>7. MLGood(c, Len(q), ML!Loop(c, s, q))
    BY <1>4, <1>5, <1>6, ML!LoopKeeps
  <1> QED
    BY <1>2, <1>3, <1>4, <1>7 DEF MLGood

-----------------------------------------------------------------------------
(* Removing the links of a device, and giving them another key.            *)

\* removeLink when nothing is pending.
LEMMA RemoveLinkClean ==
    ASSUME NEW s, Linked(s, {}, {}, {}, {}), NEW i \in UL(s), NEW kind, NEW t, t = removeLink(s, i, kind)
    PROVE  LinkRemoved(s, t, i) /\ Linked(t, {}, {}, {}, {})
  <1>1. LinkRemoved(s, t, i) /\ Linked(t, {} \ {i}, {} \ {i}, {} \ {i}, {} \ {i})
    BY RemoveLinkKeeps
  <1>2. {} \ {i} = {}
    OBVIOUS
  <1> QED
    BY <1>1, <1>2

\* t is s without the links in S.
LinksGone(s, t, S) ==
    /\ SameDevices(s, t) /\ SameRecords(s, t) /\ SameProtocols(s, t)
    /\ UL(t) = UL(s) \ S
    /\ \A j \in UL(t) : t.links[j] = s.links[j]

\* The loop of removeDevice over the links.
RLTurn(c, t, i) == removeLink(t, i, c.kind)
RLGood(c, n, t) == Linked(t, {}, {}, {}, {}) /\ LinksGone(c.s, t, c.S \ Rest(c.q, n))
RL == INSTANCE Loops WITH Turn <- RLTurn, Good <- RLGood

\* The loop of removeDevice removes exactly the links that it is given.
LEMMA RemoveLinksKeeps ==
    ASSUME NEW s, Linked(s, {}, {}, {}, {}), NEW S, S \subseteq UL(s), NEW q, Lists(q, S),
           NEW kind, NEW t, t = removeLinks(s, q, kind)
    PROVE  Linked(t, {}, {}, {}, {}) /\ LinksGone(s, t, S)
  <1>1. PICK c : c = [s |-> s, q |-> q, S |-> S, kind |-> kind]
    OBVIOUS
  <1>2. c.s = s /\ c.q = q /\ c.S = S /\ c.kind = kind
    BY <1>1
  <1>3. removeLinks(s, q, c.kind) = RL!Loop(c, s, q)
    BY DEF removeLinks, RL!Loop, RLTurn, FoldLeft, MapThenFoldSet, Max, RL!Greatest
  <1>4. q \in Seq(S) /\ Rest(q, 0) = S /\ Rest(q, Len(q)) = {}
    BY ListsRest DEF Lists
  <1>5. RLGood(c, 0, s)
    <2>1. c.S \ Rest(c.q, 0) = {} /\ UL(s) \ {} = UL(s)
      BY <1>2, <1>4
    <2>2. LinksGone(s, s, {})
      BY <2>1 DEF LinksGone, SameDevices, SameRecords, SameProtocols
    <2> QED
      BY <1>2, <2>1, <2>2 DEF RLGood
  <1>6. ASSUME NEW n \in 1..Len(q), NEW u, RLGood(c, n - 1, u)
        PROVE  RLGood(c, n, RLTurn(c, u, q[n]))
    <2>1. PICK R, i, v : R = Rest(q, n - 1) /\ i = q[n] /\ v = removeLink(u, i, kind)
      OBVIOUS
    <2>2. i \in R /\ Rest(q, n) = R \ {i} /\ R \subseteq S
      BY <2>1, ListsRest
    <2>3. Linked(u, {}, {}, {}, {}) /\ LinksGone(s, u, S \ R)
      BY <1>2, <1>6, <2>1 DEF RLGood
    <2>4. i \in UL(u)
      BY <2>2, <2>3 DEF LinksGone
    <2>5. LinkRemoved(u, v, i) /\ Linked(v, {}, {}, {}, {})
      BY <2>1, <2>3, <2>4, RemoveLinkClean
    <2>6. LinksGone(s, v, S \ (R \ {i}))
      <3>1. UL(v) = UL(s) \ (S \ (R \ {i}))
        BY <2>2, <2>3, <2>5 DEF LinksGone, LinkRemoved
      <3>2. \A j \in UL(v) : v.links[j] = s.links[j]
        BY <2>3, <2>5 DEF LinksGone, LinkRemoved
      <3>3. SameDevices(s, v) /\ SameRecords(s, v) /\ SameProtocols(s, v)
        BY <2>3, <2>5 DEF LinksGone, LinkRemoved, SameDevices, SameRecords, SameProtocols
      <3> QED
        BY <3>1, <3>2, <3>3 DEF LinksGone
    <2>7. RLTurn(c, u, q[n]) = v
      BY <1>2, <2>1 DEF RLTurn
    <2> QED
      BY <1>2, <2>2, <2>5, <2>6, <2>7 DEF RLGood
  <1>7. RLGood(c, Len(q), RL!Loop(c, s, q))
    BY <1>4, <1>5, <1>6, RL!LoopKeeps
  <1>8. S \ {} = S
    OBVIOUS
  <1> QED
    BY <1>2, <1>3, <1>4, <1>7, <1>8 DEF RLGood

\* The loop of promoteDevice.
KLTurn(c, t, i) == rekeyLink(t, i, [t.links[i].key EXCEPT !.device = c.key])
KLGood(c, n, t) ==
    /\ Linked(t, {}, Rest(c.q, n), {}, {})
    /\ SameDevices(c.s, t) /\ SameRecords(c.s, t) /\ t.devices = c.s.devices
    /\ PendingLinks(t, Rest(c.q, n), c.d)
KL == INSTANCE Loops WITH Turn <- KLTurn, Good <- KLGood

\* After the loop of promoteDevice every link has the key of its device.
LEMMA RekeyLinksKeeps ==
    ASSUME NEW s, NEW K, Linked(s, {}, K, {}, {}), NEW d, PendingLinks(s, K, d),
           NEW key \in DeviceKeys, key = s.devices[d].key,
           NEW q, Lists(q, K), NEW t, t = rekeyLinks(s, q, key)
    PROVE  Linked(t, {}, {}, {}, {}) /\ SameDevices(s, t) /\ SameRecords(s, t) /\ t.devices = s.devices
  <1>1. PICK c : c = [s |-> s, q |-> q, d |-> d, key |-> key]
    OBVIOUS
  <1>2. c.s = s /\ c.q = q /\ c.d = d /\ c.key = key
    BY <1>1
  <1>3. rekeyLinks(s, q, c.key) = KL!Loop(c, s, q)
    BY DEF rekeyLinks, KL!Loop, KLTurn, FoldLeft, MapThenFoldSet, Max, KL!Greatest
  <1>4. q \in Seq(K) /\ Rest(q, 0) = K /\ Rest(q, Len(q)) = {}
    BY ListsRest DEF Lists
  <1>5. KLGood(c, 0, s)
    BY <1>2, <1>4 DEF KLGood, SameDevices, SameRecords
  <1>6. ASSUME NEW n \in 1..Len(q), NEW u, KLGood(c, n - 1, u)
        PROVE  KLGood(c, n, KLTurn(c, u, q[n]))
    <2>1. PICK R, i, k : R = Rest(q, n - 1) /\ i = q[n] /\ k = [u.links[i].key EXCEPT !.device = key]
      OBVIOUS
    <2>2. i \in R /\ Rest(q, n) = R \ {i}
      BY <2>1, ListsRest
    <2>3. /\ Linked(u, {}, R, {}, {}) /\ PendingLinks(u, R, d)
          /\ SameDevices(s, u) /\ SameRecords(s, u) /\ u.devices = s.devices
      BY <1>2, <1>6, <2>1 DEF KLGood
    <2>4. i \in UL(u) /\ u.links[i].device = d
      BY <2>2, <2>3 DEF PendingLinks
    <2>5. u.links[i].key \in LinkKeys
      BY <2>3, <2>4 DEF Linked, LinksInv
    <2>6. k \in LinkKeys /\ k.device = u.devices[u.links[i].device].key
      BY <2>1, <2>3, <2>4, <2>5, KeyOfAnotherDevice
    <2>7. PICK v : v = rekeyLink(u, i, k)
      OBVIOUS
    <2>8. LinkRekeyed(u, v, i) /\ Linked(v, {}, R \ {i}, {}, {})
      BY <2>3, <2>4, <2>6, <2>7, RekeyLinkKeeps
    <2>9. PendingLinks(v, R \ {i}, d)
      BY <2>3, <2>8 DEF PendingLinks, UL, LinkRekeyed
    <2>10. SameDevices(s, v) /\ SameRecords(s, v) /\ v.devices = s.devices
      BY <2>3, <2>8 DEF SameDevices, SameRecords, LinkRekeyed
    <2>11. KLTurn(c, u, q[n]) = v
      BY <1>2, <2>1, <2>7 DEF KLTurn
    <2> QED
      BY <1>2, <2>2, <2>8, <2>9, <2>10, <2>11 DEF KLGood
  <1>7. KLGood(c, Len(q), KL!Loop(c, s, q))
    BY <1>4, <1>5, <1>6, KL!LoopKeeps
  <1> QED
    BY <1>2, <1>3, <1>4, <1>7 DEF KLGood
=============================================================================
