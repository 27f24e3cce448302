------------------------------- MODULE Induction -------------------------------
(***************************************************************************)
(* Induction and recursion over the naturals, stated with sets and         *)
(* functions: what MMR's loop (agents/retriever.py) and the chunker's      *)
(* loops (ingestion/chunker.py) need.                                      *)
(***************************************************************************)
EXTENDS Integers, TLAPS, WellFoundedInduction

\* A set of naturals has a least element.
LEMMA LeastNatural ==
  ASSUME NEW T, T \subseteq Nat, T # {}
  PROVE  \E x \in T : \A y \in T : x <= y
<1> DEFINE R == OpToRel(<, Nat)
<1>1. IsWellFoundedOn(R, Nat)
  BY NatLessThanWellFounded, Zenon
<1>2. \A x, y \in Nat : x < y => <<x, y>> \in R
  BY DEF OpToRel
<1> HIDE DEF R
<1>3. PICK x \in T : \A y \in T : ~ (<<y, x>> \in R)
  BY <1>1, WFMin, Zenon
<1>4. \A y \in T : ~ (y < x)
  BY <1>2, <1>3
<1> QED
  BY <1>3, <1>4

\* Induction: a set that has zero, and with each natural the next one, has all.
LEMMA SetInduction ==
  ASSUME NEW S, 0 \in S, \A n \in Nat : n \in S => n + 1 \in S
  PROVE  \A n \in Nat : n \in S
<1> SUFFICES ASSUME Nat \ S # {} PROVE FALSE
  OBVIOUS
<1>1. PICK x \in Nat \ S : \A y \in Nat \ S : x <= y
  BY LeastNatural
<1>2. x # 0 /\ x - 1 \in Nat
  BY <1>1
<1>3. x - 1 \in S
  BY <1>1, <1>2
<1> QED
  BY <1>2, <1>3

-----------------------------------------------------------------------------
\* f follows v and g for ever; g[n] takes members of V to members of V.
IsRecursion(f, V, v, g) ==
  /\ f \in [Nat -> V]
  /\ f[0] = v
  /\ \A n \in Nat : f[n + 1] = g[n][f[n]]
ClosedUnder(g, V) == \A n \in Nat : \A x \in V : g[n][x] \in V

\* The first steps of the recursion: h[0] is v, h[i + 1] what g makes of h[i].
FollowsTo(h, v, g, n) ==
  /\ h[0] = v
  /\ \A i \in Nat : i < n => h[i + 1] = g[i][h[i]]

\* Two runs agree as far as both go.
LEMMA RunsAgree ==
  ASSUME NEW h, NEW k, NEW v, NEW g, NEW n \in Nat, FollowsTo(h, v, g, n), FollowsTo(k, v, g, n)
  PROVE  \A i \in 0..n : h[i] = k[i]
<1> DEFINE S == {i \in Nat : i <= n => h[i] = k[i]}
<1>1. 0 \in S
  BY DEF FollowsTo
<1>2. ASSUME NEW i \in Nat, i \in S PROVE i + 1 \in S
  <2> SUFFICES ASSUME i + 1 <= n PROVE h[i + 1] = k[i + 1]
    OBVIOUS
  <2>1. i < n /\ h[i] = k[i]
    BY <1>2
  <2>2. h[i + 1] = g[i][h[i]] /\ k[i + 1] = g[i][k[i]]
    BY <2>1 DEF FollowsTo
  <2> QED
    BY <2>1, <2>2
<1> HIDE DEF S
<1>3. \A i \in Nat : i \in S
  BY <1>1, <1>2, SetInduction
<1> QED
  BY <1>3 DEF S

\* Recursion: there is a function that follows v and g for ever.
LEMMA NatRecursion ==
  ASSUME NEW V, NEW v \in V, NEW g, ClosedUnder(g, V)
  PROVE  \E f : IsRecursion(f, V, v, g)
<1> DEFINE S == {n \in Nat : \E h \in [Nat -> V] : FollowsTo(h, v, g, n)}
<1>1. 0 \in S
  <2> DEFINE h == [i \in Nat |-> v]
  <2>1. h \in [Nat -> V] /\ h[0] = v
    OBVIOUS
  <2> HIDE DEF h
  <2>2. FollowsTo(h, v, g, 0)
    BY <2>1 DEF FollowsTo
  <2> QED
    BY <2>1, <2>2
<1>2. ASSUME NEW n \in Nat, n \in S PROVE n + 1 \in S
  <2>1. PICK h \in [Nat -> V] : FollowsTo(h, v, g, n)
    BY <1>2
  <2> DEFINE k == [i \in Nat |-> IF i = n + 1 THEN g[n][h[n]] ELSE h[i]]
  <2>2. k \in [Nat -> V]
    <3>1. h[n] \in V /\ g[n][h[n]] \in V
      BY DEF ClosedUnder
    <3> QED
      BY <3>1
  <2>3. k[n + 1] = g[n][h[n]] /\ \A i \in 0..n : k[i] = h[i]
    OBVIOUS
  <2> HIDE DEF k
  <2>4. k[0] = v
    BY <2>1, <2>3 DEF FollowsTo
  <2>5. ASSUME NEW i \in Nat, i < n + 1 PROVE k[i + 1] = g[i][k[i]]
    <3>1. CASE i = n
      BY <3>1, <2>3
    <3>2. CASE i < n
      <4>1. h[i + 1] = g[i][h[i]]
        BY <2>1, <3>2 DEF FollowsTo
      <4>2. i \in 0..n /\ i + 1 \in 0..n
        BY <3>2
      <4> QED
        BY <4>1, <4>2, <2>3
    <3> QED
      BY <2>5, <3>1, <3>2
  <2>6. FollowsTo(k, v, g, n + 1)
    BY <2>4, <2>5 DEF FollowsTo
  <2> QED
    BY <2>2, <2>6
<1> HIDE DEF S
<1>3. \A n \in Nat : n \in S
  BY <1>1, <1>2, SetInduction
<1>4. \A n \in Nat : \E h \in [Nat -> V] : FollowsTo(h, v, g, n)
  BY <1>3 DEF S
<1> DEFINE run(n) == CHOOSE h \in [Nat -> V] : FollowsTo(h, v, g, n)
<1>5. \A n \in Nat : run(n) \in [Nat -> V] /\ FollowsTo(run(n), v, g, n)
  BY <1>4
<1> HIDE DEF run
<1> DEFINE f == [n \in Nat |-> run(n)[n]]
<1>6. f \in [Nat -> V] /\ \A n \in Nat : f[n] = run(n)[n]
  BY <1>5
<1> HIDE DEF f
<1>7. f[0] = v
  <2>1. FollowsTo(run(0), v, g, 0)
    BY <1>5
  <2> QED
    BY <1>6, <2>1 DEF FollowsTo
<1>8. ASSUME NEW n \in Nat PROVE f[n + 1] = g[n][f[n]]
  <2>1. FollowsTo(run(n), v, g, n) /\ FollowsTo(run(n + 1), v, g, n + 1)
    BY <1>5
  <2>2. FollowsTo(run(n + 1), v, g, n)
    BY <2>1 DEF FollowsTo
  <2>3. run(n + 1)[n] = run(n)[n]
    BY <2>1, <2>2, RunsAgree
  <2>4. run(n + 1)[n + 1] = g[n][run(n + 1)[n]]
    BY <2>1 DEF FollowsTo
  <2> QED
    BY <2>3, <2>4, <1>6
<1>9. IsRecursion(f, V, v, g)
  BY <1>6, <1>7, <1>8 DEF IsRecursion
<1> QED
  BY <1>9

\* A function over 0..m defined by such a recursion is one.
IsRecursionTo(f, V, v, g, m) ==
  /\ f \in [0..m -> V]
  /\ f = [n \in 0..m |-> IF n = 0 THEN v ELSE g[n - 1][f[n - 1]]]

LEMMA BoundedRecursion ==
  ASSUME NEW V, NEW v \in V, NEW g, ClosedUnder(g, V), NEW m \in Nat
  PROVE  \E f : IsRecursionTo(f, V, v, g, m)
<1>0. PICK h : IsRecursion(h, V, v, g)
  BY NatRecursion
<1>1. h \in [Nat -> V] /\ h[0] = v /\ \A n \in Nat : h[n + 1] = g[n][h[n]]
  BY <1>0 DEF IsRecursion
<1> DEFINE f == [n \in 0..m |-> h[n]]
<1>2. f \in [0..m -> V]
  BY <1>1
<1>3. ASSUME NEW n \in 0..m PROVE f[n] = IF n = 0 THEN v ELSE g[n - 1][f[n - 1]]
  <2>1. CASE n = 0
    BY <2>1, <1>1
  <2>2. CASE n # 0
    <3>1. n - 1 \in 0..m /\ n - 1 \in Nat /\ (n - 1) + 1 = n
      BY <2>2
    <3>2. h[(n - 1) + 1] = g[n - 1][h[n - 1]]
      BY <3>1, <1>1
    <3> QED
      BY <2>2, <3>1, <3>2
  <2> QED
    BY <2>1, <2>2
<1> HIDE DEF f
<1>4. f = [n \in 0..m |-> IF n = 0 THEN v ELSE g[n - 1][f[n - 1]]]
  BY <1>2, <1>3
<1>5. IsRecursionTo(f, V, v, g, m)
  BY <1>2, <1>4 DEF IsRecursionTo
<1> QED
  BY <1>5
=============================================================================
