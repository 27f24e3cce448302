--------------------------- MODULE PreparationProofs ---------------------------
(***************************************************************************)
(* Chunking and embedding of a document, for any document, any sizes of    *)
(* the contexts, any concurrency and batch size.                           *)
(***************************************************************************)
EXTENDS Preparation, Induction, SequenceTheorems

Sentence == [id : Nat, tokens : Nat, page : Nat]

-----------------------------------------------------------------------------
(* The token counts of sentences.                                          *)

\* The function TokensOf is defined by.
Sum(s) ==
  CHOOSE f : f = [n \in 0..Len(s) |-> IF n = 0 THEN 0 ELSE f[n - 1] + s[n].tokens]

LEMMA TokensIs ==
  ASSUME NEW s
  PROVE  TokensOf(s) = Sum(s)[Len(s)]
BY DEF TokensOf, Sum

LEMMA TokensOfOne ==
  ASSUME NEW s \in Seq(Sentence)
  PROVE  Len(s) \in Nat /\ \A n \in 1..Len(s) : s[n] \in Sentence /\ s[n].tokens \in Nat
<1>1. \A n \in 1..Len(s) : s[n] \in Sentence
  OBVIOUS
<1> QED
  BY <1>1 DEF Sentence

LEMMA SumIs ==
  ASSUME NEW s \in Seq(Sentence)
  PROVE  /\ Sum(s)[0] = 0
         /\ \A n \in 1..Len(s) : Sum(s)[n] = Sum(s)[n - 1] + s[n].tokens
         /\ \A n \in 0..Len(s) : Sum(s)[n] \in Nat
<1>1. Len(s) \in Nat /\ \A n \in 1..Len(s) : s[n].tokens \in Nat
  BY TokensOfOne
<1>2. PICK m : m = Len(s)
  OBVIOUS
<1> DEFINE g == [n \in Nat |-> [x \in Nat |-> x + (IF n < m THEN s[n + 1].tokens ELSE 0)]]
<1>3. ASSUME NEW n \in Nat, NEW x \in Nat
      PROVE  g[n][x] = x + (IF n < m THEN s[n + 1].tokens ELSE 0) /\ g[n][x] \in Nat
  <2>1. (IF n < m THEN s[n + 1].tokens ELSE 0) \in Nat
    <3>1. CASE n < m
      <4>1. n + 1 \in 1..Len(s)
        BY <3>1, <1>1, <1>2
      <4> QED
        BY <3>1, <4>1, <1>1
    <3>2. CASE ~ (n < m)
      BY <3>2
    <3> QED
      BY <3>1, <3>2
  <2>2. g[n][x] = x + (IF n < m THEN s[n + 1].tokens ELSE 0)
    OBVIOUS
  <2> HIDE DEF g
  <2> QED
    BY <2>1, <2>2
<1> HIDE DEF g
<1>4. ClosedUnder(g, Nat)
  BY <1>3 DEF ClosedUnder
<1>5. PICK f : IsRecursionTo(f, Nat, 0, g, m)
  BY <1>1, <1>2, <1>4, BoundedRecursion
<1>0. /\ f \in [0..m -> Nat]
      /\ f = [n \in 0..m |-> IF n = 0 THEN 0 ELSE g[n - 1][f[n - 1]]]
  BY <1>5 DEF IsRecursionTo
<1>6. ASSUME NEW n \in 0..m PROVE f[n] = IF n = 0 THEN 0 ELSE f[n - 1] + s[n].tokens
  <2>1. CASE n = 0
    BY <2>1, <1>0
  <2>2. CASE n # 0
    <3>1. n - 1 \in 0..m /\ n - 1 \in Nat /\ n - 1 < m /\ (n - 1) + 1 = n
      BY <2>2, <1>1, <1>2
    <3>2. f[n] = g[n - 1][f[n - 1]] /\ f[n - 1] \in Nat
      BY <2>2, <3>1, <1>0
    <3> QED
      BY <2>2, <3>1, <3>2, <1>3
  <2> QED
    BY <2>1, <2>2
<1>7. f = [n \in 0..m |-> IF n = 0 THEN 0 ELSE f[n - 1] + s[n].tokens]
  BY <1>0, <1>6
<1>8. PICK h : h = Sum(s)
  OBVIOUS
<1>9. h = [n \in 0..m |-> IF n = 0 THEN 0 ELSE h[n - 1] + s[n].tokens]
  BY <1>2, <1>7, <1>8, Zenon DEF Sum
<1>10. h[0] = 0
  BY <1>1, <1>2, <1>9
<1>11. \A n \in 1..m : h[n] = h[n - 1] + s[n].tokens
  BY <1>1, <1>2, <1>9
<1> DEFINE S == {n \in Nat : n <= m => h[n] \in Nat}
<1>12. 0 \in S
  BY <1>10
<1>13. ASSUME NEW n \in Nat, n \in S PROVE n + 1 \in S
  <2> SUFFICES ASSUME n + 1 <= m PROVE h[n + 1] \in Nat
    BY DEF S
  <2>1. h[n] \in Nat /\ n + 1 \in 1..m /\ (n + 1) - 1 = n
    BY <1>13, <1>1, <1>2
  <2>2. h[n + 1] = h[n] + s[n + 1].tokens
    BY <2>1, <1>11
  <2>3. s[n + 1].tokens \in Nat
    BY <2>1, <1>1, <1>2
  <2> QED
    BY <2>1, <2>2, <2>3
<1> HIDE DEF S
<1>14. \A n \in Nat : n \in S
  BY <1>12, <1>13, SetInduction
<1>15. \A n \in 0..m : h[n] \in Nat
  BY <1>14, <1>1, <1>2 DEF S
<1> QED
  BY <1>2, <1>8, <1>10, <1>11, <1>15

\* Sequences that agree have the same counts as far as they do.
LEMMA SumsAgree ==
  ASSUME NEW s \in Seq(Sentence), NEW t \in Seq(Sentence),
         NEW m \in Nat, m <= Len(s), m <= Len(t), \A i \in 1..m : s[i] = t[i]
  PROVE  Sum(s)[m] = Sum(t)[m]
<1> DEFINE S == {n \in Nat : n <= m => Sum(s)[n] = Sum(t)[n]}
<1>0. Len(s) \in Nat /\ Len(t) \in Nat
  OBVIOUS
<1>1. 0 \in S
  BY SumIs
<1>2. ASSUME NEW n \in Nat, n \in S PROVE n + 1 \in S
  <2> SUFFICES ASSUME n + 1 <= m PROVE Sum(s)[n + 1] = Sum(t)[n + 1]
    BY DEF S
  <2>1. /\ Sum(s)[n] = Sum(t)[n] /\ (n + 1) - 1 = n
        /\ n + 1 \in 1..m /\ n + 1 \in 1..Len(s) /\ n + 1 \in 1..Len(t)
    BY <1>0, <1>2
  <2>2. Sum(s)[n + 1] = Sum(s)[n] + s[n + 1].tokens /\ Sum(t)[n + 1] = Sum(t)[n] + t[n + 1].tokens
    BY <2>1, SumIs
  <2> QED
    BY <2>1, <2>2
<1> HIDE DEF S
<1>3. m \in S
  BY <1>1, <1>2, SetInduction
<1> QED
  BY <1>3 DEF S

LEMMA TokensNat ==
  ASSUME NEW s \in Seq(Sentence)
  PROVE  TokensOf(s) \in Nat
<1>1. Len(s) \in 0..Len(s)
  BY LenProperties
<1> QED
  BY <1>1, SumIs, TokensIs

LEMMA TokensEmpty == TokensOf(<<>>) = 0
<1>1. <<>> \in Seq(Sentence) /\ Len(<<>>) = 0
  OBVIOUS
<1> QED
  BY <1>1, SumIs, TokensIs

LEMMA TokensAppend ==
  ASSUME NEW s \in Seq(Sentence), NEW x \in Sentence
  PROVE  TokensOf(Append(s, x)) = TokensOf(s) + x.tokens
<1>1. PICK t : t = Append(s, x)
  OBVIOUS
<1>2. /\ t \in Seq(Sentence) /\ Len(t) = Len(s) + 1 /\ Len(s) \in Nat
      /\ \A i \in 1..Len(s) : t[i] = s[i]
      /\ t[Len(s) + 1] = x
  BY <1>1
<1>3. Sum(t)[Len(s)] = Sum(s)[Len(s)]
  BY <1>2, SumsAgree
<1>4. Len(t) \in 1..Len(t) /\ Len(t) - 1 = Len(s)
  BY <1>2
<1>5. Sum(t)[Len(t)] = Sum(t)[Len(s)] + x.tokens
  BY <1>2, <1>4, SumIs
<1> QED
  BY <1>1, <1>3, <1>5, TokensIs

\* The beginning of a text counts no more than the whole.
LEMMA TokensPrefix ==
  ASSUME NEW s \in Seq(Sentence), NEW k \in 0..Len(s)
  PROVE  TokensOf(SubSeq(s, 1, k)) \in Nat /\ TokensOf(SubSeq(s, 1, k)) <= TokensOf(s)
<1>1. PICK t : t = SubSeq(s, 1, k)
  OBVIOUS
<1>2. Len(s) \in Nat /\ k \in Nat /\ k <= Len(s)
  OBVIOUS
<1>3. t \in Seq(Sentence) /\ Len(t) = k /\ \A i \in 1..k : t[i] = s[i]
  BY <1>1, <1>2
<1>4. Sum(t)[k] = Sum(s)[k]
  BY <1>2, <1>3, SumsAgree
<1>5. TokensOf(t) = Sum(s)[k]
  BY <1>3, <1>4, TokensIs
<1> DEFINE S == {n \in Nat : k + n <= Len(s) => Sum(s)[k] <= Sum(s)[k + n]}
<1>6. \A n \in 0..Len(s) : Sum(s)[n] \in Nat
  BY SumIs
<1>7. 0 \in S
  BY <1>6
<1>8. ASSUME NEW n \in Nat, n \in S PROVE n + 1 \in S
  <2> SUFFICES ASSUME k + (n + 1) <= Len(s) PROVE Sum(s)[k] <= Sum(s)[k + (n + 1)]
    BY DEF S
  <2>1. /\ k + (n + 1) \in 1..Len(s) /\ (k + (n + 1)) - 1 = k + n
        /\ k \in 0..Len(s) /\ k + n \in 0..Len(s) /\ k + (n + 1) \in 0..Len(s)
    BY <1>2
  <2>2. Sum(s)[k] <= Sum(s)[k + n]
    BY <2>1, <1>8
  <2>3. Sum(s)[k + (n + 1)] = Sum(s)[k + n] + s[k + (n + 1)].tokens
    BY <2>1, SumIs
  <2>4. s[k + (n + 1)].tokens \in Nat
    BY <2>1, TokensOfOne
  <2> QED
    BY <2>1, <2>2, <2>3, <2>4, <1>6
<1> HIDE DEF S
<1>9. Len(s) - k \in S
  <2>1. Len(s) - k \in Nat
    BY <1>2
  <2> QED
    BY <2>1, <1>7, <1>8, SetInduction
<1>10. Sum(s)[k] <= Sum(s)[Len(s)]
  <2>1. k + (Len(s) - k) = Len(s) /\ k + (Len(s) - k) <= Len(s)
    BY <1>2
  <2> QED
    BY <2>1, <1>9 DEF S
<1> QED
  BY <1>1, <1>5, <1>6, <1>10, TokensIs

-----------------------------------------------------------------------------
(* FlattenSeq: the parts one after the other.                              *)

\* The function FlattenSeq is defined by.
Flat(t) ==
  CHOOSE f : f = [i \in 1..Len(t) |-> IF i = 1 THEN t[i] ELSE f[i - 1] \o t[i]]

LEMMA FlattenIs ==
  ASSUME NEW t
  PROVE  FlattenSeq(t) = IF Len(t) = 0 THEN t ELSE Flat(t)[Len(t)]
BY DEF FlattenSeq, Flat

LEMMA FlatIs ==
  ASSUME NEW X, NEW t \in Seq(Seq(X)), t # <<>>
  PROVE  /\ Len(t) \in Nat \ {0}
         /\ Flat(t)[1] = t[1]
         /\ \A i \in 2..Len(t) : Flat(t)[i] = Flat(t)[i - 1] \o t[i]
         /\ \A i \in 1..Len(t) : Flat(t)[i] \in Seq(X)
<1>1. Len(t) \in Nat \ {0} /\ \A i \in 1..Len(t) : t[i] \in Seq(X)
  OBVIOUS
<1>2. PICK m : m = Len(t) - 1
  OBVIOUS
<1> DEFINE part(n) == IF n < m THEN t[n + 2] ELSE <<>>
           g == [n \in Nat |-> [x \in Seq(X) |-> x \o part(n)]]
<1>3. ASSUME NEW n \in Nat PROVE part(n) \in Seq(X)
  <2>1. CASE n < m
    <3>1. n + 2 \in 1..Len(t)
      BY <2>1, <1>1, <1>2
    <3> QED
      BY <2>1, <3>1, <1>1
  <2>2. CASE ~ (n < m)
    BY <2>2
  <2> QED
    BY <2>1, <2>2
<1>4. ASSUME NEW n \in Nat, NEW x \in Seq(X)
      PROVE  g[n][x] = x \o part(n) /\ g[n][x] \in Seq(X)
  <2>1. g[n][x] = x \o part(n)
    OBVIOUS
  <2> HIDE DEF g, part
  <2> QED
    BY <2>1, <1>3
<1> HIDE DEF g
<1>5. ClosedUnder(g, Seq(X))
  <2> HIDE DEF part
  <2> QED
    BY <1>4 DEF ClosedUnder
<1>6. t[1] \in Seq(X) /\ m \in Nat
  BY <1>1, <1>2
<1>7. PICK f : IsRecursionTo(f, Seq(X), t[1], g, m)
  BY <1>5, <1>6, BoundedRecursion
<1>8. /\ f \in [0..m -> Seq(X)]
      /\ f = [n \in 0..m |-> IF n = 0 THEN t[1] ELSE g[n - 1][f[n - 1]]]
  BY <1>7 DEF IsRecursionTo
<1> DEFINE F == [i \in 1..Len(t) |-> f[i - 1]]
<1>9. ASSUME NEW i \in 1..Len(t) PROVE F[i] = IF i = 1 THEN t[i] ELSE F[i - 1] \o t[i]
  <2>1. CASE i = 1
    BY <2>1, <1>6, <1>8
  <2>2. CASE i # 1
    <3>1. /\ i - 1 \in 0..m /\ i - 1 # 0 /\ (i - 1) - 1 = i - 2 /\ i - 2 \in Nat /\ i - 2 < m
          /\ (i - 2) + 2 = i /\ i - 2 \in 0..m /\ i - 1 \in 1..Len(t)
      BY <2>2, <1>1, <1>2
    <3>2. f[i - 1] = g[i - 2][f[i - 2]] /\ f[i - 2] \in Seq(X)
      BY <3>1, <1>8
    <3>3. g[i - 2][f[i - 2]] = f[i - 2] \o part(i - 2)
      <4> HIDE DEF part
      <4> QED
        BY <3>1, <3>2, <1>4
    <3>4. part(i - 2) = t[i]
      BY <3>1
    <3>5. F[i] = f[i - 1] /\ F[i - 1] = f[i - 2]
      BY <3>1
    <3> HIDE DEF F, part
    <3> QED
      BY <2>2, <3>2, <3>3, <3>4, <3>5
  <2> QED
    BY <2>1, <2>2
<1>10. F = [i \in 1..Len(t) |-> IF i = 1 THEN t[i] ELSE F[i - 1] \o t[i]]
  <2>1. F = [i \in 1..Len(t) |-> F[i]]
    OBVIOUS
  <2> HIDE DEF F
  <2> QED
    BY <2>1, <1>9
<1> HIDE DEF F
<1>11. PICK h : h = Flat(t)
  OBVIOUS
<1>12. h = [i \in 1..Len(t) |-> IF i = 1 THEN t[i] ELSE h[i - 1] \o t[i]]
  BY <1>10, <1>11, Zenon DEF Flat
<1>13. h[1] = t[1]
  BY <1>1, <1>12
<1>14. ASSUME NEW i \in 2..Len(t) PROVE h[i] = h[i - 1] \o t[i]
  <2>1. i \in 1..Len(t) /\ i # 1
    BY <1>1
  <2>2. h[i] = IF i = 1 THEN t[i] ELSE h[i - 1] \o t[i]
    BY <2>1, <1>12, Zenon
  <2> QED
    BY <2>1, <2>2
<1> DEFINE S == {n \in Nat : n + 1 <= Len(t) => h[n + 1] \in Seq(X)}
<1>15. 0 \in S
  BY <1>6, <1>13
<1>16. ASSUME NEW n \in Nat, n \in S PROVE n + 1 \in S
  <2> SUFFICES ASSUME (n + 1) + 1 <= Len(t) PROVE h[(n + 1) + 1] \in Seq(X)
    BY DEF S
  <2>1. h[n + 1] \in Seq(X) /\ (n + 1) + 1 \in 2..Len(t) /\ ((n + 1) + 1) - 1 = n + 1
    BY <1>16, <1>1
  <2>2. h[(n + 1) + 1] = h[n + 1] \o t[(n + 1) + 1]
    BY <2>1, <1>14
  <2>3. t[(n + 1) + 1] \in Seq(X)
    BY <2>1, <1>1
  <2> QED
    BY <2>1, <2>2, <2>3
<1> HIDE DEF S
<1>17. ASSUME NEW i \in 1..Len(t) PROVE h[i] \in Seq(X)
  <2>1. i - 1 \in Nat /\ (i - 1) + 1 = i /\ i <= Len(t)
    BY <1>1
  <2>2. i - 1 \in S
    BY <2>1, <1>15, <1>16, SetInduction
  <2> QED
    BY <2>1, <2>2 DEF S
<1> QED
  BY <1>1, <1>11, <1>13, <1>14, <1>17

LEMMA FlattenType ==
  ASSUME NEW X, NEW t \in Seq(Seq(X))
  PROVE  FlattenSeq(t) \in Seq(X)
<1>1. CASE t = <<>>
  <2>1. Len(t) = 0
    BY <1>1
  <2>2. FlattenSeq(t) = t
    BY <2>1, FlattenIs
  <2>3. <<>> \in Seq(X)
    OBVIOUS
  <2> QED
    BY <1>1, <2>2, <2>3
<1>2. CASE t # <<>>
  <2>1. Len(t) \in Nat \ {0} /\ \A i \in 1..Len(t) : Flat(t)[i] \in Seq(X)
    BY <1>2, FlatIs
  <2>2. Len(t) \in 1..Len(t) /\ Len(t) # 0
    BY <2>1
  <2>3. FlattenSeq(t) = Flat(t)[Len(t)]
    BY <2>2, FlattenIs
  <2> QED
    BY <2>1, <2>2, <2>3
<1> QED
  BY <1>1, <1>2

\* flat holds part i of t from off[i - 1] on.
Parts(t, flat, off) ==
  /\ off \in [0..Len(t) -> Nat]
  /\ off[0] = 0 /\ off[Len(t)] = Len(flat)
  /\ \A i \in 1..Len(t) :
       /\ off[i] = off[i - 1] + Len(t[i]) /\ off[i] <= Len(flat)
       /\ \A j \in 1..Len(t[i]) : flat[off[i - 1] + j] = t[i][j]

LEMMA FlattenParts ==
  ASSUME NEW X, NEW t \in Seq(Seq(X))
  PROVE  \E off : Parts(t, FlattenSeq(t), off)
<1>1. CASE t = <<>>
  <2>1. Len(t) = 0 /\ FlattenSeq(t) = t
    BY <1>1, FlattenIs
  <2> DEFINE off == [i \in 0..0 |-> 0]
  <2>2. off \in [0..0 -> Nat] /\ off[0] = 0
    OBVIOUS
  <2> HIDE DEF off
  <2>3. Parts(t, FlattenSeq(t), off)
    BY <2>1, <2>2 DEF Parts
  <2> QED
    BY <2>3
<1>2. CASE t # <<>>
  <2>1. PICK h, n : h = Flat(t) /\ n = Len(t)
    OBVIOUS
  <2>2. /\ n \in Nat \ {0} /\ h[1] = t[1]
        /\ \A i \in 2..n : h[i] = h[i - 1] \o t[i]
        /\ \A i \in 1..n : h[i] \in Seq(X)
    BY <1>2, <2>1, FlatIs
  <2>3. \A i \in 1..n : t[i] \in Seq(X) /\ Len(t[i]) \in Nat
    BY <2>1
  <2> DEFINE off == [i \in 0..n |-> IF i = 0 THEN 0 ELSE Len(h[i])]
  <2>4. /\ off[0] = 0 /\ \A i \in 1..n : off[i] = Len(h[i]) /\ Len(h[i]) \in Nat
    BY <2>2
  <2>5. off \in [0..n -> Nat]
    BY <2>2, <2>4
  <2> HIDE DEF off
  <2>6. ASSUME NEW i \in 1..n
        PROVE  /\ off[i] = off[i - 1] + Len(t[i])
               /\ \A j \in 1..Len(t[i]) : h[i][off[i - 1] + j] = t[i][j]
               /\ \A j \in 1..off[i - 1] : h[i][j] = h[i - 1][j]
    <3>1. CASE i = 1
      BY <3>1, <2>2, <2>3, <2>4
    <3>2. CASE i # 1
      <4>1. i \in 2..n /\ i - 1 \in 1..n
        BY <3>2, <2>2
      <4>2. PICK a, b : a = h[i - 1] /\ b = t[i]
        OBVIOUS
      <4>3. a \in Seq(X) /\ b \in Seq(X) /\ h[i] = a \o b
        BY <4>1, <4>2, <2>2, <2>3
      <4>4. off[i] = Len(h[i]) /\ off[i - 1] = Len(a)
        BY <4>1, <4>2, <2>4
      <4>5. /\ Len(h[i]) = Len(a) + Len(b)
            /\ \A j \in 1..Len(a) + Len(b) : h[i][j] = IF j <= Len(a) THEN a[j] ELSE b[j - Len(a)]
        BY <4>3, ConcatProperties
      <4>6. Len(a) \in Nat /\ Len(b) \in Nat
        BY <4>3
      <4>7. ASSUME NEW j \in 1..Len(b) PROVE h[i][Len(a) + j] = b[j]
        <5>1. Len(a) + j \in 1..Len(a) + Len(b) /\ ~ (Len(a) + j <= Len(a)) /\ (Len(a) + j) - Len(a) = j
          BY <4>6
        <5> QED
          BY <5>1, <4>5
      <4>8. \A j \in 1..Len(a) : h[i][j] = a[j]
        BY <4>5, <4>6
      <4> QED
        BY <4>2, <4>4, <4>5, <4>7, <4>8
    <3> QED
      BY <3>1, <3>2
\* The parts stay where they are.
  <2> DEFINE Held(m) == \A i \in 1..n : i <= m =>
               /\ off[i] <= off[m]
               /\ \A j \in 1..Len(t[i]) : h[m][off[i - 1] + j] = t[i][j]
             S == {m \in Nat : m + 1 <= n => Held(m + 1)}
  <2>7. 0 \in S
    <3>1. ASSUME NEW i \in 1..n, i <= 1 PROVE i = 1
      BY <3>1, <2>2
    <3>2. 1 \in 1..n /\ off[1] <= off[1]
      BY <2>2, <2>4
    <3>3. Held(1)
      BY <3>1, <3>2, <2>6
    <3> HIDE DEF Held
    <3> QED
      BY <3>3
  <2>8. ASSUME NEW m \in Nat, m \in S PROVE m + 1 \in S
    <3> SUFFICES ASSUME (m + 1) + 1 <= n PROVE Held((m + 1) + 1)
      BY DEF S
    <3>1. PICK k : k = m + 1
      OBVIOUS
    <3>2. k \in 1..n /\ k + 1 \in 1..n /\ (k + 1) - 1 = k
      BY <2>2, <3>1
    <3>3. Held(k)
      <4> HIDE DEF Held
      <4> QED
        BY <2>8, <3>1, <3>2
    <3>4. ASSUME NEW i \in 1..n, i <= k + 1
          PROVE  /\ off[i] <= off[k + 1]
                 /\ \A j \in 1..Len(t[i]) : h[k + 1][off[i - 1] + j] = t[i][j]
      <4>1. CASE i = k + 1
        BY <4>1, <3>2, <2>4, <2>6
      <4>2. CASE i <= k
        <5>1. /\ off[i] <= off[k]
              /\ \A j \in 1..Len(t[i]) : h[k][off[i - 1] + j] = t[i][j]
          BY <4>2, <3>3
        <5>2. off[k + 1] = off[k] + Len(t[k + 1]) /\ off[k] \in Nat /\ Len(t[k + 1]) \in Nat /\ off[k + 1] \in Nat
          BY <3>2, <2>3, <2>4, <2>6
        <5>3. off[i] = off[i - 1] + Len(t[i]) /\ off[i - 1] \in Nat /\ Len(t[i]) \in Nat /\ off[i] \in Nat
          <6>1. i - 1 \in 0..n
            BY <2>2
          <6> QED
            BY <6>1, <2>3, <2>4, <2>5, <2>6
        <5>4. ASSUME NEW j \in 1..Len(t[i]) PROVE h[k + 1][off[i - 1] + j] = t[i][j]
          <6>0. off[i - 1] + j <= off[i - 1] + Len(t[i]) /\ 1 <= off[i - 1] + j
            BY <5>3
          <6>1. off[i - 1] + j \in 1..off[k]
            BY <6>0, <5>1, <5>2, <5>3
          <6>2. h[k + 1][off[i - 1] + j] = h[k][off[i - 1] + j]
            BY <6>1, <3>2, <2>6
          <6> QED
            BY <6>2, <5>1
        <5> QED
          BY <5>1, <5>2, <5>3, <5>4
      <4> QED
        BY <3>4, <4>1, <4>2, <3>2
    <3>5. Held(k + 1)
      BY <3>4
    <3> HIDE DEF Held
    <3> QED
      BY <3>1, <3>5
  <2> HIDE DEF S
  <2>9. Held(n)
    <3> HIDE DEF Held
    <3>1. n - 1 \in Nat /\ (n - 1) + 1 = n
      BY <2>2
    <3>2. n - 1 \in S
      BY <3>1, <2>7, <2>8, SetInduction
    <3> QED
      BY <3>1, <3>2 DEF S
  <2>10. FlattenSeq(t) = h[n]
    BY <2>1, <2>2, FlattenIs
  <2>11. off[n] = Len(h[n])
    BY <2>2, <2>4
  <2>12. \A i \in 1..n : /\ off[i] <= Len(h[n])
                       /\ \A j \in 1..Len(t[i]) : h[n][off[i - 1] + j] = t[i][j]
    BY <2>9, <2>11, <2>2
  <2>13. Parts(t, FlattenSeq(t), off)
    BY <2>1, <2>4, <2>5, <2>6, <2>10, <2>11, <2>12 DEF Parts
  <2> QED
    BY <2>13
<1> QED
  BY <1>1, <1>2
\* Every place of flat is in one of the parts.
LEMMA PartOf ==
  ASSUME NEW t, NEW flat, NEW off, Parts(t, flat, off), Len(t) \in Nat, NEW k \in 1..Len(flat)
  PROVE  \E i \in 1..Len(t) : off[i - 1] < k /\ k <= off[i]
<1>1. PICK n : n = Len(t)
  OBVIOUS
<1>2. n \in Nat /\ off \in [0..n -> Nat] /\ off[0] = 0 /\ off[n] = Len(flat)
  BY <1>1 DEF Parts
<1> DEFINE T == {i \in 0..n : k <= off[i]}
<1>3. n \in T /\ T \subseteq Nat
  <2>1. n \in 0..n /\ off[n] \in Nat
    BY <1>2
  <2> QED
    BY <2>1, <1>2
<1> HIDE DEF T
<1>4. PICK i \in T : \A j \in T : i <= j
  BY <1>3, LeastNatural
<1>5. i \in 0..n /\ k <= off[i]
  BY <1>4 DEF T
<1>6. i # 0
  BY <1>2, <1>5
<1>7. i - 1 \in 0..n /\ ~ (i <= i - 1) /\ i \in 1..n
  BY <1>2, <1>5, <1>6
<1>8. ~ (k <= off[i - 1])
  <2>1. i - 1 \notin T
    BY <1>4, <1>7
  <2> QED
    BY <2>1, <1>7 DEF T
<1>9. off[i - 1] < k
  <2>1. off[i - 1] \in Nat
    BY <1>2, <1>7
  <2> QED
    BY <2>1, <1>8
<1> QED
  BY <1>1, <1>5, <1>7, <1>9

-----------------------------------------------------------------------------
(* The sentences of a document, numbered.                                  *)

Numbered(s) ==
  /\ s \in Seq(Sentence)
  /\ \A i \in 1..Len(s) : s[i].id = s[1].id + i - 1

PagePieces(page) ==
  FlattenSeq([j \in DOMAIN page |->
    IF page[j] > EmbeddingTokenLimit THEN SplitAtTokenLimit(page[j]) ELSE <<page[j]>>])
PageSentences(doc, p) ==
  [j \in DOMAIN PagePieces(doc[p]) |-> [tokens |-> PagePieces(doc[p])[j], page |-> p]]
FlatSentences(doc) == FlattenSeq([p \in DOMAIN doc |-> PageSentences(doc, p)])

LEMMA SentencesAre ==
  ASSUME NEW doc
  PROVE  SentencesWithPages(doc) =
           [i \in DOMAIN FlatSentences(doc) |->
              [id |-> i, tokens |-> FlatSentences(doc)[i].tokens, page |-> FlatSentences(doc)[i].page]]
BY DEF SentencesWithPages, FlatSentences, PageSentences, PagePieces

LEMMA PiecesType ==
  ASSUME NEW page \in Seq(Nat)
  PROVE  PagePieces(page) \in Seq(Nat)
<1>1. ASSUME NEW n \in Nat PROVE SplitAtTokenLimit(n) \in Seq(Nat)
  <2>1. PICK m : m = (n + EmbeddingTokenLimit - 1) \div EmbeddingTokenLimit
    OBVIOUS
  <2>2. m \in Nat /\ n % EmbeddingTokenLimit \in Nat /\ EmbeddingTokenLimit \in Nat
    BY <2>1 DEF EmbeddingTokenLimit
  <2>3. [i \in 1..m |-> IF i * EmbeddingTokenLimit <= n THEN EmbeddingTokenLimit
                        ELSE n % EmbeddingTokenLimit] \in Seq(Nat)
    BY <2>2
  <2> QED
    BY <2>1, <2>3 DEF SplitAtTokenLimit
<1> DEFINE part(n) == IF n > EmbeddingTokenLimit THEN SplitAtTokenLimit(n) ELSE <<n>>
           t == [j \in DOMAIN page |-> part(page[j])]
<1>2. ASSUME NEW n \in Nat PROVE part(n) \in Seq(Nat)
  BY <1>1
<1>3. Len(page) \in Nat /\ DOMAIN page = 1..Len(page) /\ \A j \in 1..Len(page) : page[j] \in Nat
  OBVIOUS
<1>4. t \in Seq(Seq(Nat))
  <2> HIDE DEF part
  <2> QED
    BY <1>2, <1>3
<1>5. FlattenSeq(t) \in Seq(Nat)
  <2> HIDE DEF t
  <2> QED
    BY <1>4, FlattenType
<1> QED
  BY <1>5 DEF PagePieces

LEMMA SentencesType ==
  ASSUME NEW doc \in Seq(Seq(Nat))
  PROVE  Numbered(SentencesWithPages(doc))
<1> DEFINE Piece == [tokens : Nat, page : Nat]
           t == [p \in DOMAIN doc |-> PageSentences(doc, p)]
<1>1. Len(doc) \in Nat /\ DOMAIN doc = 1..Len(doc) /\ \A p \in 1..Len(doc) : doc[p] \in Seq(Nat)
  OBVIOUS
<1>2. ASSUME NEW p \in 1..Len(doc) PROVE PageSentences(doc, p) \in Seq(Piece)
  <2>1. PICK q : q = PagePieces(doc[p])
    OBVIOUS
  <2>2. q \in Seq(Nat)
    BY <2>1, <1>1, PiecesType
  <2>3. Len(q) \in Nat /\ DOMAIN q = 1..Len(q) /\ \A j \in 1..Len(q) : q[j] \in Nat /\ p \in Nat
    BY <2>2, <1>1
  <2>4. [j \in DOMAIN q |-> [tokens |-> q[j], page |-> p]] \in Seq(Piece)
    BY <2>3
  <2> QED
    BY <2>1, <2>4 DEF PageSentences
<1>3. t \in Seq(Seq(Piece))
  <2> HIDE DEF Piece
  <2> QED
    BY <1>1, <1>2
<1>4. FlatSentences(doc) \in Seq(Piece)
  <2>1. FlattenSeq(t) \in Seq(Piece)
    <3> HIDE DEF t, Piece
    <3> QED
      BY <1>3, FlattenType
  <2> QED
    BY <2>1 DEF FlatSentences
<1>5. PICK flat : flat = FlatSentences(doc)
  OBVIOUS
<1>6. PICK s : s = SentencesWithPages(doc)
  OBVIOUS
<1>7. Len(flat) \in Nat /\ DOMAIN flat = 1..Len(flat)
  BY <1>4, <1>5
<1>8. ASSUME NEW i \in 1..Len(flat) PROVE flat[i].tokens \in Nat /\ flat[i].page \in Nat
  <2>1. flat[i] \in Piece
    <3> HIDE DEF Piece
    <3> QED
      BY <1>4, <1>5
  <2> QED
    BY <2>1
<1>9. s = [i \in 1..Len(flat) |-> [id |-> i, tokens |-> flat[i].tokens, page |-> flat[i].page]]
  BY <1>5, <1>6, <1>7, SentencesAre
<1>10. ASSUME NEW i \in 1..Len(flat) PROVE s[i] \in Sentence /\ s[i].id = i
  BY <1>7, <1>8, <1>9 DEF Sentence
<1>11. s \in Seq(Sentence) /\ Len(s) = Len(flat)
  BY <1>7, <1>9, <1>10
<1>12. ASSUME NEW i \in 1..Len(s) PROVE s[i].id = s[1].id + i - 1
  BY <1>7, <1>10, <1>11
<1> QED
  BY <1>6, <1>11, <1>12 DEF Numbered

-----------------------------------------------------------------------------
(* Runs of consecutive sentences.                                          *)

LEMMA RunOf ==
  ASSUME NEW X, NEW s \in Seq(X), NEW a \in Nat, NEW b \in Nat,
         1 <= a, a <= b + 1, b <= Len(s)
  PROVE  /\ SubSeq(s, a, b) \in Seq(X)
         /\ Len(SubSeq(s, a, b)) = b - a + 1
         /\ \A i \in 1..b - a + 1 : SubSeq(s, a, b)[i] = s[a + i - 1]
<1>1. PICK t : t = SubSeq(s, a, b)
  OBVIOUS
<1>2. Len(s) \in Nat /\ \A i \in a..b : s[i] \in X
  OBVIOUS
<1>3. t = [i \in 1..b - a + 1 |-> s[a + i - 1]]
  BY <1>1
<1>4. b - a + 1 \in Nat
  OBVIOUS
<1>5. ASSUME NEW i \in 1..b - a + 1 PROVE s[a + i - 1] \in X
  BY <1>2
<1> QED
  BY <1>1, <1>3, <1>4, <1>5

LEMMA RunOfRun ==
  ASSUME NEW X, NEW s \in Seq(X), NEW a \in Nat, NEW b \in Nat, NEW j \in Nat,
         1 <= a, a <= b + 1, b <= Len(s), 1 <= j, j <= b - a + 2
  PROVE  SubSeq(SubSeq(s, a, b), j, b - a + 1) = SubSeq(s, a + j - 1, b)
<1>1. PICK t, u, v : t = SubSeq(s, a, b) /\ u = SubSeq(t, j, b - a + 1) /\ v = SubSeq(s, a + j - 1, b)
  OBVIOUS
<1>2. t \in Seq(X) /\ Len(t) = b - a + 1 /\ \A i \in 1..b - a + 1 : t[i] = s[a + i - 1]
  BY <1>1, RunOf
<1>3. /\ u \in Seq(X) /\ Len(u) = b - a + 1 - j + 1
      /\ \A i \in 1..b - a + 1 - j + 1 : u[i] = t[j + i - 1]
  <2>1. b - a + 1 \in Nat /\ j <= b - a + 1 + 1 /\ b - a + 1 <= Len(t)
    BY <1>2
  <2> QED
    BY <2>1, <1>1, <1>2, RunOf
<1>4. /\ v \in Seq(X) /\ Len(v) = b - (a + j - 1) + 1
      /\ \A i \in 1..b - (a + j - 1) + 1 : v[i] = s[(a + j - 1) + i - 1]
  <2>1. a + j - 1 \in Nat /\ 1 <= a + j - 1 /\ a + j - 1 <= b + 1
    OBVIOUS
  <2> QED
    BY <2>1, <1>1, RunOf
<1>5. Len(u) = Len(v)
  BY <1>3, <1>4
<1>6. ASSUME NEW i \in 1..Len(u) PROVE u[i] = v[i]
  <2>1. j + i - 1 \in 1..b - a + 1 /\ a + (j + i - 1) - 1 = (a + j - 1) + i - 1
    BY <1>3
  <2> QED
    BY <2>1, <1>2, <1>3, <1>4, <1>5
<1> QED
  BY <1>1, <1>3, <1>4, <1>5, <1>6, SeqEqual

LEMMA RunAppend ==
  ASSUME NEW X, NEW s \in Seq(X), NEW a \in Nat, NEW b \in Nat,
         1 <= a, a <= b + 1, b + 1 <= Len(s)
  PROVE  Append(SubSeq(s, a, b), s[b + 1]) = SubSeq(s, a, b + 1)
<1>1. PICK t, v : t = SubSeq(s, a, b) /\ v = SubSeq(s, a, b + 1)
  OBVIOUS
<1>2. t \in Seq(X) /\ Len(t) = b - a + 1 /\ \A i \in 1..b - a + 1 : t[i] = s[a + i - 1]
  BY <1>1, RunOf
<1>3. v \in Seq(X) /\ Len(v) = b + 1 - a + 1 /\ \A i \in 1..b + 1 - a + 1 : v[i] = s[a + i - 1]
  <2>1. b + 1 \in Nat /\ a <= b + 1 + 1
    OBVIOUS
  <2> QED
    BY <2>1, <1>1, RunOf
<1>4. s[b + 1] \in X
  OBVIOUS
<1>5. PICK u, y : y = s[b + 1] /\ u = Append(t, y)
  OBVIOUS
<1>6. /\ u \in Seq(X) /\ Len(u) = Len(t) + 1 /\ u[Len(t) + 1] = y
      /\ \A i \in 1..Len(t) : u[i] = t[i]
  <2>1. y \in X
    BY <1>4, <1>5
  <2>2. t \in Seq(X)
    BY <1>2
  <2>3. /\ Append(t, y) \in Seq(X) /\ Len(Append(t, y)) = Len(t) + 1
        /\ Append(t, y)[Len(t) + 1] = y
        /\ \A i \in 1..Len(t) : Append(t, y)[i] = t[i]
    BY ONLY <2>1, <2>2
  <2> QED
    BY <2>3, <1>5
<1>8. Len(u) = Len(v)
  BY <1>2, <1>3, <1>6
<1>7. ASSUME NEW i \in 1..Len(u) PROVE u[i] = v[i]
  <2>1. CASE i = Len(u)
    BY <2>1, <1>2, <1>3, <1>5, <1>6
  <2>2. CASE i # Len(u)
    <3>1. i \in 1..b - a + 1 /\ i \in 1..Len(t) /\ i \in 1..b + 1 - a + 1
      BY <2>2, <1>2, <1>6
    <3> QED
      BY <3>1, <1>2, <1>3, <1>6
  <2> QED
    BY <2>1, <2>2
<1> QED
  BY <1>1, <1>3, <1>5, <1>6, <1>7, <1>8, SeqEqual
-----------------------------------------------------------------------------
(* The loop of chunk_document.                                             *)

\* The overlap is the longest end of the group that fits.
LEMMA OverlapIs ==
  ASSUME NEW group \in Seq(Sentence), NEW limit \in Nat
  PROVE  \E k \in 1..Len(group) + 1 :
           /\ Overlap(group, limit) = SubSeq(group, k, Len(group))
           /\ TokensOf(SubSeq(group, k, Len(group))) <= limit
           /\ \A j \in 1..k - 1 : TokensOf(SubSeq(group, j, Len(group))) > limit
<1> DEFINE fit == {k \in 1..Len(group) + 1 : TokensOf(SubSeq(group, k, Len(group))) <= limit}
<1>1. Len(group) \in Nat
  OBVIOUS
<1>2. SubSeq(group, Len(group) + 1, Len(group)) = <<>>
  BY <1>1
<1>3. Len(group) + 1 \in fit
  <2>1. TokensOf(SubSeq(group, Len(group) + 1, Len(group))) = 0
    BY <1>2, TokensEmpty, Zenon
  <2> QED
    BY <1>1, <2>1
<1>4. fit \subseteq Nat /\ fit # {}
  BY <1>1, <1>3
<1>5. \E k \in fit : \A j \in fit : k <= j
  <2> HIDE DEF fit
  <2> QED
    BY <1>4, LeastNatural
<1>6. PICK k : k = CHOOSE i \in fit : \A j \in fit : i <= j
  OBVIOUS
<1>7. k \in fit /\ \A j \in fit : k <= j
  <2> HIDE DEF fit
  <2> QED
    BY <1>5, <1>6
<1>8. Overlap(group, limit) = SubSeq(group, k, Len(group))
  BY <1>6 DEF Overlap
<1>9. ASSUME NEW j \in 1..k - 1 PROVE TokensOf(SubSeq(group, j, Len(group))) > limit
  <2>1. j \in 1..Len(group) + 1 /\ ~ (k <= j) /\ k \in 1..Len(group) + 1
    BY <1>1, <1>7
  <2>2. ~ (TokensOf(SubSeq(group, j, Len(group))) <= limit)
    BY <2>1, <1>7
  <2>3. SubSeq(group, j, Len(group)) \in Seq(Sentence)
    BY <2>1, <1>1, RunOf
  <2>4. TokensOf(SubSeq(group, j, Len(group))) \in Nat
    BY <2>3, TokensNat
  <2> QED
    BY <2>2, <2>4
<1> QED
  BY <1>7, <1>8, <1>9

\* One pass of the loop, and the function BuildChunkGroups is defined by.
AddSentence(acc, x, size, overlap) ==
  IF acc.current # <<>> /\ TokensOf(acc.current) + x.tokens > size
  THEN [groups |-> Append(acc.groups, acc.current),
        current |-> Append(Overlap(acc.current, overlap), x)]
  ELSE [acc EXCEPT !.current = Append(@, x)]
NoGroups == [groups |-> <<>>, current |-> <<>>]
After(s, size, overlap) ==
  CHOOSE f : f = [n \in 0..Len(s) |->
                    IF n = 0 THEN NoGroups ELSE AddSentence(f[n - 1], s[n], size, overlap)]

LEMMA GroupsAre ==
  ASSUME NEW s, NEW size, NEW overlap
  PROVE  BuildChunkGroups(s, size, overlap) = Closed(After(s, size, overlap)[Len(s)])
BY DEF BuildChunkGroups, After, AddSentence, NoGroups

Acc == [groups : Seq(Seq(Sentence)), current : Seq(Sentence)]

LEMMA AddType ==
  ASSUME NEW acc \in Acc, NEW x \in Sentence, NEW size \in Nat, NEW overlap \in Nat
  PROVE  AddSentence(acc, x, size, overlap) \in Acc
<1>1. PICK g, c : g = acc.groups /\ c = acc.current
  OBVIOUS
<1>2. g \in Seq(Seq(Sentence)) /\ c \in Seq(Sentence) /\ acc = [groups |-> g, current |-> c]
  BY <1>1 DEF Acc
<1>3. PICK o : o = Overlap(c, overlap)
  OBVIOUS
<1>4. o \in Seq(Sentence)
  <2>1. PICK k \in 1..Len(c) + 1 : o = SubSeq(c, k, Len(c))
    BY <1>2, <1>3, OverlapIs
  <2>2. Len(c) \in Nat
    BY <1>2
  <2> QED
    BY <2>1, <2>2, <1>2, RunOf
<1>5. Append(g, c) \in Seq(Seq(Sentence)) /\ Append(c, x) \in Seq(Sentence) /\ Append(o, x) \in Seq(Sentence)
  BY <1>2, <1>4
<1>6. CASE c # <<>> /\ TokensOf(c) + x.tokens > size
  <2>1. AddSentence(acc, x, size, overlap) = [groups |-> Append(g, c), current |-> Append(o, x)]
    BY <1>1, <1>3, <1>6 DEF AddSentence
  <2> QED
    BY <2>1, <1>5 DEF Acc
<1>7. CASE ~ (c # <<>> /\ TokensOf(c) + x.tokens > size)
  <2>1. AddSentence(acc, x, size, overlap) = [groups |-> g, current |-> Append(c, x)]
    BY <1>1, <1>2, <1>7 DEF AddSentence
  <2> QED
    BY <2>1, <1>2, <1>5 DEF Acc
<1> QED
  BY <1>6, <1>7

LEMMA AfterIs ==
  ASSUME NEW s \in Seq(Sentence), NEW size \in Nat, NEW overlap \in Nat, NEW h,
         h = After(s, size, overlap)
  PROVE  /\ h[0] = NoGroups
         /\ \A n \in 0..Len(s) : h[n] \in Acc
         /\ \A n \in 0..Len(s) - 1 : h[n + 1] = AddSentence(h[n], s[n + 1], size, overlap)
<1>1. PICK m : m = Len(s)
  OBVIOUS
<1>2. m \in Nat /\ \A n \in 0..m - 1 : s[n + 1] \in Sentence
  BY <1>1
<1> DEFINE g == [n \in Nat |-> [acc \in Acc |->
                   IF n < m THEN AddSentence(acc, s[n + 1], size, overlap) ELSE acc]]
<1>3. ASSUME NEW n \in Nat, NEW acc \in Acc
      PROVE  /\ g[n][acc] \in Acc
             /\ n < m => g[n][acc] = AddSentence(acc, s[n + 1], size, overlap)
  <2>1. g[n][acc] = IF n < m THEN AddSentence(acc, s[n + 1], size, overlap) ELSE acc
    OBVIOUS
  <2> HIDE DEF g
  <2>2. CASE n < m
    <3>1. n \in 0..m - 1
      BY <2>2, <1>2
    <3>2. AddSentence(acc, s[n + 1], size, overlap) \in Acc
      BY <3>1, <1>2, AddType
    <3> QED
      BY <2>1, <2>2, <3>2
  <2>3. CASE ~ (n < m)
    BY <2>1, <2>3
  <2> QED
    BY <2>2, <2>3
<1> HIDE DEF g
<1>4. ClosedUnder(g, Acc)
  BY <1>3 DEF ClosedUnder
<1>5. NoGroups \in Acc
  <2>1. <<>> \in Seq(Seq(Sentence)) /\ <<>> \in Seq(Sentence)
    OBVIOUS
  <2> QED
    BY <2>1 DEF NoGroups, Acc
<1>6. PICK f : IsRecursionTo(f, Acc, NoGroups, g, m)
  BY <1>2, <1>4, <1>5, BoundedRecursion
<1>7. /\ f \in [0..m -> Acc]
      /\ f = [n \in 0..m |-> IF n = 0 THEN NoGroups ELSE g[n - 1][f[n - 1]]]
  BY <1>6 DEF IsRecursionTo
<1>8. ASSUME NEW n \in 0..m
      PROVE  f[n] = IF n = 0 THEN NoGroups ELSE AddSentence(f[n - 1], s[n], size, overlap)
  <2>1. CASE n = 0
    BY <2>1, <1>7
  <2>2. CASE n # 0
    <3>1. n - 1 \in 0..m /\ n - 1 \in Nat /\ n - 1 < m /\ (n - 1) + 1 = n
      BY <2>2, <1>2
    <3>2. f[n] = g[n - 1][f[n - 1]] /\ f[n - 1] \in Acc
      BY <2>2, <3>1, <1>7
    <3> QED
      BY <2>2, <3>1, <3>2, <1>3
  <2> QED
    BY <2>1, <2>2
<1>9. f = [n \in 0..m |-> IF n = 0 THEN NoGroups ELSE AddSentence(f[n - 1], s[n], size, overlap)]
  BY <1>7, <1>8
<1>10. h = [n \in 0..m |-> IF n = 0 THEN NoGroups ELSE AddSentence(h[n - 1], s[n], size, overlap)]
  BY <1>1, <1>9, Zenon DEF After
<1>11. h[0] = NoGroups
  BY <1>2, <1>10
<1>12. ASSUME NEW n \in 0..m - 1 PROVE h[n + 1] = AddSentence(h[n], s[n + 1], size, overlap)
  <2>1. n + 1 \in 0..m /\ n + 1 # 0 /\ (n + 1) - 1 = n
    BY <1>2
  <2> QED
    BY <2>1, <1>10
<1> DEFINE S == {n \in Nat : n <= m => h[n] \in Acc}
<1>13. 0 \in S
  BY <1>5, <1>11
<1>14. ASSUME NEW n \in Nat, n \in S PROVE n + 1 \in S
  <2> SUFFICES ASSUME n + 1 <= m PROVE h[n + 1] \in Acc
    BY DEF S
  <2>1. n \in 0..m - 1 /\ h[n] \in Acc
    BY <1>14, <1>2
  <2> QED
    BY <2>1, <1>2, <1>12, AddType
<1> HIDE DEF S
<1>15. \A n \in Nat : n \in S
  BY <1>13, <1>14, SetInduction
<1>16. \A n \in 0..m : h[n] \in Acc
  BY <1>15, <1>2 DEF S
<1> QED
  BY <1>1, <1>11, <1>12, <1>16

\* After n sentences the groups and the current one are runs of them, from
\* first[i] to last[i]; what IsGrouping says, with the positions named.
Runs(groups, s, n, first, last, size, overlap) ==
  LET m == Len(groups)
  IN /\ m # 0 /\ first \in [1..m -> Nat] /\ last \in [1..m -> Nat]
     /\ first[1] = 1 /\ last[m] = n
     /\ \A i \in 1..m :
          /\ 1 <= first[i] /\ first[i] <= last[i] /\ last[i] <= n
          /\ groups[i] = SubSeq(s, first[i], last[i])
          /\ \/ TokensOf(groups[i]) <= size
             \/ TokensOf(SubSeq(s, first[i], last[i] - 1)) <= overlap
     /\ \A i \in 1..m - 1 :
          /\ first[i] <= first[i + 1] /\ first[i + 1] <= last[i] + 1 /\ last[i] < last[i + 1]
          /\ TokensOf(SubSeq(s, first[i + 1], last[i])) <= overlap
          /\ \A k \in first[i]..first[i + 1] - 1 : TokensOf(SubSeq(s, k, last[i])) > overlap
          /\ TokensOf(groups[i]) + s[last[i] + 1].tokens > size

\* The first sentence makes the first run.
LEMMA RunsStart ==
  ASSUME NEW s \in Seq(Sentence), NEW size \in Nat, NEW overlap \in Nat, 1 <= Len(s)
  PROVE  \E first, last : Runs(<< <<s[1]>> >>, s, 1, first, last, size, overlap)
<1> DEFINE one == [i \in 1..1 |-> 1]
<1>1. PICK g : g = << <<s[1]>> >>
  OBVIOUS
<1>2. Len(g) = 1 /\ g[1] = <<s[1]>>
  BY <1>1
<1>3. one \in [1..1 -> Nat] /\ \A i \in 1..1 : one[i] = 1
  OBVIOUS
<1>4. <<s[1]>> = SubSeq(s, 1, 1) /\ SubSeq(s, 1, 0) = <<>>
  OBVIOUS
<1>5. TokensOf(SubSeq(s, 1, 1 - 1)) <= overlap
  <2>1. TokensOf(SubSeq(s, 1, 0)) = 0
    BY <1>4, TokensEmpty, Zenon
  <2> QED
    BY <2>1
<1> HIDE DEF one
<1>6. \A i \in 1..1 : i = 1
  OBVIOUS
<1>7. ASSUME NEW i \in 1..1
      PROVE  /\ 1 <= one[i] /\ one[i] <= one[i] /\ one[i] <= 1
             /\ g[i] = SubSeq(s, one[i], one[i])
             /\ TokensOf(SubSeq(s, one[i], one[i] - 1)) <= overlap
  <2>1. i = 1 /\ one[i] = 1
    BY <1>3
  <2> QED
    BY <2>1, <1>2, <1>4, <1>5
<1>8. one[1] = 1 /\ 1..1 - 1 = {}
  BY <1>3
<1>9. Runs(g, s, 1, one, one, size, overlap)
  BY <1>2, <1>3, <1>7, <1>8 DEF Runs
<1> QED
  BY <1>1, <1>9

\* A sentence that fits makes the last run longer.
LEMMA RunsFit ==
  ASSUME NEW s \in Seq(Sentence), NEW size \in Nat, NEW overlap \in Nat,
         NEW n \in Nat, n + 1 <= Len(s),
         NEW g \in Seq(Seq(Sentence)), NEW c \in Seq(Sentence), NEW first, NEW last,
         Runs(Append(g, c), s, n, first, last, size, overlap),
         TokensOf(c) + s[n + 1].tokens <= size
  PROVE  \E l : Runs(Append(g, Append(c, s[n + 1])), s, n + 1, first, l, size, overlap)
<1>1. PICK a, b, m : a = Append(g, c) /\ b = Append(g, Append(c, s[n + 1])) /\ m = Len(g) + 1
  OBVIOUS
<1>2. s[n + 1] \in Sentence
  OBVIOUS
<1>3. Append(c, s[n + 1]) \in Seq(Sentence)
  BY <1>2
<1>4. /\ m \in Nat \ {0} /\ Len(a) = m /\ Len(b) = m
      /\ a[m] = c /\ b[m] = Append(c, s[n + 1])
      /\ \A i \in 1..m - 1 : a[i] = g[i] /\ b[i] = g[i]
      /\ m \in 1..m
  BY <1>1, <1>3
<1>5. Runs(a, s, n, first, last, size, overlap)
  BY <1>1
<1>6. /\ first \in [1..m -> Nat] /\ last \in [1..m -> Nat]
      /\ first[1] = 1 /\ last[m] = n
      /\ \A i \in 1..m :
           /\ 1 <= first[i] /\ first[i] <= last[i] /\ last[i] <= n
           /\ a[i] = SubSeq(s, first[i], last[i])
           /\ \/ TokensOf(a[i]) <= size
              \/ TokensOf(SubSeq(s, first[i], last[i] - 1)) <= overlap
      /\ \A i \in 1..m - 1 :
           /\ first[i] <= first[i + 1] /\ first[i + 1] <= last[i] + 1 /\ last[i] < last[i + 1]
           /\ TokensOf(SubSeq(s, first[i + 1], last[i])) <= overlap
           /\ \A k \in first[i]..first[i + 1] - 1 : TokensOf(SubSeq(s, k, last[i])) > overlap
           /\ TokensOf(a[i]) + s[last[i] + 1].tokens > size
  BY <1>4, <1>5 DEF Runs
<1> DEFINE l == [last EXCEPT ![m] = n + 1]
<1>7. l \in [1..m -> Nat] /\ l[m] = n + 1 /\ \A i \in 1..m - 1 : l[i] = last[i]
  BY <1>4, <1>6
<1> HIDE DEF l
<1>8. b[m] = SubSeq(s, first[m], l[m]) /\ TokensOf(b[m]) <= size
  <2>0. m \in 1..m /\ a[m] = c /\ last[m] = n
    BY <1>4, <1>6
  <2>a. /\ first[m] \in Nat
        /\ 1 <= first[m] /\ first[m] <= last[m] /\ a[m] = SubSeq(s, first[m], last[m])
    BY <2>0, <1>6, Zenon
  <2>b. PICK f : f = first[m]
    OBVIOUS
  <2>1. f \in Nat /\ 1 <= f /\ f <= n + 1 /\ c = SubSeq(s, f, n)
    BY <2>0, <2>a, <2>b
  <2>c. Append(c, s[n + 1]) = SubSeq(s, f, n + 1)
    BY <2>1, RunAppend
  <2>2. Append(c, s[n + 1]) = SubSeq(s, first[m], n + 1)
    BY <2>b, <2>c, Zenon
  <2>3. TokensOf(Append(c, s[n + 1])) = TokensOf(c) + s[n + 1].tokens
    BY <1>2, TokensAppend
  <2> QED
    BY <2>2, <2>3, <1>4, <1>7
<1>9. ASSUME NEW i \in 1..m
      PROVE  /\ 1 <= first[i] /\ first[i] <= l[i] /\ l[i] <= n + 1
             /\ b[i] = SubSeq(s, first[i], l[i])
             /\ \/ TokensOf(b[i]) <= size
                \/ TokensOf(SubSeq(s, first[i], l[i] - 1)) <= overlap
  <2>0. /\ 1 <= first[i] /\ first[i] <= last[i] /\ last[i] <= n
        /\ first[i] \in Nat /\ last[i] \in Nat
    BY <1>6
  <2>1. CASE i = m
    <3>1. first[i] <= n + 1 /\ l[i] = n + 1
      BY <2>0, <2>1, <1>7
    <3>2. b[i] = SubSeq(s, first[i], l[i]) /\ TokensOf(b[i]) <= size
      BY <2>1, <1>8
    <3> QED
      BY <2>0, <3>1, <3>2
  <2>2. CASE i # m
    <3>0. m \in Nat
      BY <1>4
    <3>1. i \in 1..m - 1
      BY <2>2, <3>0
    <3>2. l[i] = last[i] /\ b[i] = a[i]
      BY <3>1, <1>4, <1>7
    <3> QED
      BY <2>0, <3>2, <1>6
  <2> QED
    BY <2>1, <2>2
<1>10. ASSUME NEW i \in 1..m - 1
       PROVE  /\ first[i] <= first[i + 1] /\ first[i + 1] <= l[i] + 1 /\ l[i] < l[i + 1]
              /\ TokensOf(SubSeq(s, first[i + 1], l[i])) <= overlap
              /\ \A k \in first[i]..first[i + 1] - 1 : TokensOf(SubSeq(s, k, l[i])) > overlap
              /\ TokensOf(b[i]) + s[l[i] + 1].tokens > size
  <2>1. l[i] = last[i] /\ b[i] = a[i]
    BY <1>4, <1>7
  <2>2. last[i] < l[i + 1]
    <3>1. CASE i + 1 = m
      <4>0. m \in Nat /\ i \in 1..m
        BY <1>4
      <4>1. last[i] \in Nat /\ last[i] < n
        BY <3>1, <4>0, <1>6
      <4> QED
        BY <3>1, <4>1, <1>7
    <3>2. CASE i + 1 # m
      <4>1. i + 1 \in 1..m - 1
        BY <3>2, <1>4
      <4> QED
        BY <4>1, <1>6, <1>7
    <3> QED
      BY <3>1, <3>2
  <2> QED
    BY <2>1, <2>2, <1>6
<1>11. Runs(b, s, n + 1, first, l, size, overlap)
  BY <1>4, <1>6, <1>7, <1>9, <1>10 DEF Runs
<1> QED
  BY <1>1, <1>11

\* A sentence that does not fit starts a run with the overlap.
LEMMA RunsClose ==
  ASSUME NEW s \in Seq(Sentence), NEW size \in Nat, NEW overlap \in Nat,
         NEW n \in Nat, n + 1 <= Len(s),
         NEW g \in Seq(Seq(Sentence)), NEW c \in Seq(Sentence), NEW first, NEW last,
         Runs(Append(g, c), s, n, first, last, size, overlap),
         TokensOf(c) + s[n + 1].tokens > size
  PROVE  \E f, l : Runs(Append(Append(g, c), Append(Overlap(c, overlap), s[n + 1])),
                        s, n + 1, f, l, size, overlap)
<1>1. PICK a, m, o : a = Append(g, c) /\ m = Len(g) + 1 /\ o = Overlap(c, overlap)
  OBVIOUS
<1>2. s[n + 1] \in Sentence
  OBVIOUS
<1>3. /\ m \in Nat \ {0} /\ m \in 1..m /\ 1 \in 1..m
      /\ Len(a) = m /\ a[m] = c /\ a \in Seq(Seq(Sentence))
  BY <1>1
<1>4. Runs(a, s, n, first, last, size, overlap)
  BY <1>1
<1>5. /\ first \in [1..m -> Nat] /\ last \in [1..m -> Nat]
      /\ first[1] = 1 /\ last[m] = n
      /\ \A i \in 1..m :
           /\ 1 <= first[i] /\ first[i] <= last[i] /\ last[i] <= n
           /\ a[i] = SubSeq(s, first[i], last[i])
           /\ \/ TokensOf(a[i]) <= size
              \/ TokensOf(SubSeq(s, first[i], last[i] - 1)) <= overlap
      /\ \A i \in 1..m - 1 :
           /\ first[i] <= first[i + 1] /\ first[i + 1] <= last[i] + 1 /\ last[i] < last[i + 1]
           /\ TokensOf(SubSeq(s, first[i + 1], last[i])) <= overlap
           /\ \A k \in first[i]..first[i + 1] - 1 : TokensOf(SubSeq(s, k, last[i])) > overlap
           /\ TokensOf(a[i]) + s[last[i] + 1].tokens > size
  BY <1>3, <1>4 DEF Runs
<1>6. PICK p : p = first[m]
  OBVIOUS
<1>7. p \in Nat /\ 1 <= p /\ p <= n /\ c = SubSeq(s, p, n)
  BY <1>3, <1>5, <1>6
<1>8. Len(c) = n - p + 1
  BY <1>7, RunOf
<1>9. PICK k \in 1..Len(c) + 1 :
        /\ o = SubSeq(c, k, Len(c))
        /\ TokensOf(SubSeq(c, k, Len(c))) <= overlap
        /\ \A j \in 1..k - 1 : TokensOf(SubSeq(c, j, Len(c))) > overlap
  BY <1>1, OverlapIs
<1>10. k \in Nat /\ 1 <= k /\ k <= n - p + 2
  BY <1>7, <1>8, <1>9
<1>11. PICK q : q = p + k - 1
  OBVIOUS
<1>12. q \in Nat /\ p <= q /\ q <= n + 1
  BY <1>7, <1>10, <1>11
<1>13. ASSUME NEW j \in Nat, 1 <= j, j <= n - p + 2
       PROVE  SubSeq(c, j, Len(c)) = SubSeq(s, p + j - 1, n)
  <2>1. SubSeq(SubSeq(s, p, n), j, n - p + 1) = SubSeq(s, p + j - 1, n)
    BY <1>7, <1>13, RunOfRun
  <2> QED
    BY <2>1, <1>7, <1>8
<1>14. o = SubSeq(s, q, n) /\ TokensOf(SubSeq(s, q, n)) <= overlap
  BY <1>9, <1>10, <1>11, <1>13
<1>15. ASSUME NEW i \in p..q - 1 PROVE TokensOf(SubSeq(s, i, n)) > overlap
  <2>1. PICK j : j = i - p + 1
    OBVIOUS
  <2>2. j \in 1..k - 1 /\ j \in Nat /\ 1 <= j /\ j <= n - p + 2 /\ p + j - 1 = i
    BY <2>1, <1>7, <1>10, <1>11
  <2>3. TokensOf(SubSeq(c, j, Len(c))) > overlap
    BY <2>2, <1>9
  <2>4. SubSeq(c, j, Len(c)) = SubSeq(s, i, n)
    BY <2>2, <1>13
  <2> QED
    BY <2>3, <2>4
<1>16. PICK d : d = Append(o, s[n + 1])
  OBVIOUS
<1>17. d = SubSeq(s, q, n + 1) /\ d \in Seq(Sentence)
  <2>1. 1 <= q
    BY <1>7, <1>12
  <2>2. d = SubSeq(s, q, n + 1)
    BY <2>1, <1>12, <1>14, <1>16, RunAppend
  <2>3. n + 1 \in Nat /\ q <= n + 1 + 1
    BY <1>12
  <2> QED
    BY <2>1, <2>2, <2>3, <1>12, RunOf
<1>18. PICK b : b = Append(a, d)
  OBVIOUS
<1>19. Len(b) = m + 1 /\ b[m + 1] = d /\ \A i \in 1..m : b[i] = a[i]
  <2>0. a \in Seq(Seq(Sentence)) /\ d \in Seq(Sentence) /\ b = Append(a, d)
    BY <1>3, <1>17, <1>18
  <2>1. /\ Len(b) = Len(a) + 1 /\ b[Len(a) + 1] = d
        /\ \A i \in 1..Len(a) : b[i] = a[i]
    BY ONLY <2>0
  <2> QED
    BY <2>1, <1>3
<1> DEFINE f == [i \in 1..m + 1 |-> IF i = m + 1 THEN q ELSE first[i]]
           l == [i \in 1..m + 1 |-> IF i = m + 1 THEN n + 1 ELSE last[i]]
<1>20. f[m + 1] = q /\ l[m + 1] = n + 1 /\ \A i \in 1..m : f[i] = first[i] /\ l[i] = last[i]
  BY <1>3
<1>21. f \in [1..m + 1 -> Nat] /\ l \in [1..m + 1 -> Nat]
  <2>1. ASSUME NEW i \in 1..m + 1
        PROVE  /\ (IF i = m + 1 THEN q ELSE first[i]) \in Nat
               /\ (IF i = m + 1 THEN n + 1 ELSE last[i]) \in Nat
    <3>1. CASE i = m + 1
      BY <3>1, <1>12
    <3>2. CASE i # m + 1
      <4>1. m \in Nat
        BY <1>3
      <4>2. i \in 1..m
        BY <3>2, <4>1
      <4> QED
        BY <3>2, <4>2, <1>5
    <3> QED
      BY <3>1, <3>2
  <2> QED
    BY <2>1
<1> HIDE DEF f, l
<1>22. ASSUME NEW i \in 1..m + 1
       PROVE  /\ 1 <= f[i] /\ f[i] <= l[i] /\ l[i] <= n + 1
              /\ b[i] = SubSeq(s, f[i], l[i])
              /\ \/ TokensOf(b[i]) <= size
                 \/ TokensOf(SubSeq(s, f[i], l[i] - 1)) <= overlap
  <2>1. CASE i = m + 1
    <3>1. (n + 1) - 1 = n
      OBVIOUS
    <3> QED
      BY <2>1, <3>1, <1>7, <1>12, <1>14, <1>17, <1>19, <1>20
  <2>2. CASE i # m + 1
    <3>1. i \in 1..m
      BY <2>2, <1>3
    <3>2. f[i] = first[i] /\ l[i] = last[i] /\ b[i] = a[i]
      BY <3>1, <1>19, <1>20
    <3>3. /\ 1 <= first[i] /\ first[i] <= last[i] /\ last[i] <= n
          /\ a[i] = SubSeq(s, first[i], last[i])
          /\ \/ TokensOf(a[i]) <= size
             \/ TokensOf(SubSeq(s, first[i], last[i] - 1)) <= overlap
      BY <3>1, <1>5, Zenon
    <3>4. last[i] \in Nat
      BY <3>1, <1>5
    <3>5. last[i] <= n + 1
      BY <3>3, <3>4
    <3> QED
      BY <3>2, <3>3, <3>5, Zenon
  <2> QED
    BY <2>1, <2>2
<1>23. ASSUME NEW i \in 1..m
       PROVE  /\ f[i] <= f[i + 1] /\ f[i + 1] <= l[i] + 1 /\ l[i] < l[i + 1]
              /\ TokensOf(SubSeq(s, f[i + 1], l[i])) <= overlap
              /\ \A j \in f[i]..f[i + 1] - 1 : TokensOf(SubSeq(s, j, l[i])) > overlap
              /\ TokensOf(b[i]) + s[l[i] + 1].tokens > size
  <2>1. f[i] = first[i] /\ l[i] = last[i] /\ b[i] = a[i]
    BY <1>19, <1>20
  <2>2. CASE i = m
    <3>1. f[i] = p /\ f[i + 1] = q /\ l[i] = n /\ l[i + 1] = n + 1 /\ b[i] = c
      BY <2>1, <2>2, <1>3, <1>5, <1>6, <1>20
    <3> QED
      BY <3>1, <1>12, <1>14, <1>15
  <2>3. CASE i # m
    <3>1. i \in 1..m - 1 /\ i + 1 \in 1..m
      BY <2>3, <1>3
    <3>2. f[i + 1] = first[i + 1] /\ l[i + 1] = last[i + 1]
      BY <3>1, <1>20
    <3>3. /\ first[i] <= first[i + 1] /\ first[i + 1] <= last[i] + 1 /\ last[i] < last[i + 1]
          /\ TokensOf(SubSeq(s, first[i + 1], last[i])) <= overlap
          /\ \A j \in first[i]..first[i + 1] - 1 : TokensOf(SubSeq(s, j, last[i])) > overlap
          /\ TokensOf(a[i]) + s[last[i] + 1].tokens > size
      BY <3>1, <1>5
    <3> QED
      BY <2>1, <3>2, <3>3, Zenon
  <2> QED
    BY <2>2, <2>3
<1>24. (m + 1) - 1 = m /\ m + 1 # 0 /\ f[1] = 1
  <2>1. f[1] = 1
    BY <1>3, <1>5, <1>20
  <2>2. m \in Nat
    BY <1>3
  <2> QED
    BY <2>1, <2>2
<1>25. Runs(b, s, n + 1, f, l, size, overlap)
  BY <1>19, <1>20, <1>21, <1>22, <1>23, <1>24 DEF Runs
<1> QED
  BY <1>1, <1>16, <1>18, <1>25

\* What the loop has made of the first n sentences.
LoopInv(acc, s, n, size, overlap) ==
  IF n = 0 THEN acc = NoGroups
  ELSE /\ acc.current # <<>>
       /\ \E first, last : Runs(Append(acc.groups, acc.current), s, n, first, last, size, overlap)

LEMMA LoopStep ==
  ASSUME NEW s \in Seq(Sentence), NEW size \in Nat, NEW overlap \in Nat,
         NEW n \in Nat, n + 1 <= Len(s), NEW acc \in Acc, LoopInv(acc, s, n, size, overlap)
  PROVE  LoopInv(AddSentence(acc, s[n + 1], size, overlap), s, n + 1, size, overlap)
<1>1. PICK g, c, x, o, new :
         /\ g = acc.groups /\ c = acc.current /\ x = s[n + 1] /\ o = Overlap(c, overlap)
         /\ new = AddSentence(acc, x, size, overlap)
  OBVIOUS
<1>2. g \in Seq(Seq(Sentence)) /\ c \in Seq(Sentence) /\ acc = [groups |-> g, current |-> c]
  BY <1>1 DEF Acc
<1>3. x \in Sentence
  BY <1>1
<1>4. o \in Seq(Sentence)
  <2>1. PICK k \in 1..Len(c) + 1 : o = SubSeq(c, k, Len(c))
    BY <1>1, <1>2, OverlapIs
  <2>2. Len(c) \in Nat
    BY <1>2
  <2> QED
    BY <2>1, <2>2, <1>2, RunOf
<1>5. TokensOf(c) \in Nat /\ x.tokens \in Nat
  BY <1>2, <1>3, TokensNat DEF Sentence
<1>6. n + 1 # 0
  OBVIOUS
<1>7. ASSUME new.current # <<>>,
             \E f, l : Runs(Append(new.groups, new.current), s, n + 1, f, l, size, overlap)
      PROVE  LoopInv(new, s, n + 1, size, overlap)
  BY <1>6, <1>7 DEF LoopInv
<1>8. CASE n = 0
  <2>1. g = <<>> /\ c = <<>>
    BY <1>1, <1>8 DEF LoopInv, NoGroups
  <2>2. new = [groups |-> g, current |-> Append(c, x)]
    BY <1>1, <1>2, <2>1 DEF AddSentence
  <2>3. Append(c, x) = <<x>>
    BY <2>1
  <2>4. new.current = <<x>> /\ Append(new.groups, new.current) = << <<x>> >>
    BY <2>1, <2>2, <2>3
  <2>5. \E f, l : Runs(<< <<x>> >>, s, 1, f, l, size, overlap)
    <3>1. 1 <= Len(s) /\ x = s[1]
      BY <1>1, <1>8
    <3> QED
      BY <3>1, RunsStart
  <2>6. <<x>> # <<>> /\ n + 1 = 1
    BY <1>8
  <2> QED
    BY <2>4, <2>5, <2>6, <1>1, <1>7
<1>9. CASE n # 0
  <2>1. c # <<>>
    BY <1>1, <1>9 DEF LoopInv
  <2>2. PICK first, last : Runs(Append(g, c), s, n, first, last, size, overlap)
    BY <1>1, <1>9 DEF LoopInv
  <2>3. CASE TokensOf(c) + x.tokens > size
    <3>1. new = [groups |-> Append(g, c), current |-> Append(o, x)]
      BY <2>1, <2>3, <1>1 DEF AddSentence
    <3>2. \E f, l : Runs(Append(Append(g, c), Append(o, x)), s, n + 1, f, l, size, overlap)
      BY <2>2, <2>3, <1>1, <1>2, RunsClose
    <3>3. Append(o, x) # <<>>
      BY <1>3, <1>4
    <3>4. new.groups = Append(g, c) /\ new.current = Append(o, x)
      BY <3>1
    <3> QED
      BY <3>2, <3>3, <3>4, <1>1, <1>7
  <2>4. CASE ~ (TokensOf(c) + x.tokens > size)
    <3>1. new = [groups |-> g, current |-> Append(c, x)]
      BY <2>4, <1>1, <1>2 DEF AddSentence
    <3>2. TokensOf(c) + x.tokens <= size
      BY <2>4, <1>5
    <3>3. \E l : Runs(Append(g, Append(c, x)), s, n + 1, first, l, size, overlap)
      BY <2>2, <3>2, <1>1, <1>2, RunsFit
    <3>4. Append(c, x) # <<>>
      BY <1>2, <1>3
    <3>5. new.groups = g /\ new.current = Append(c, x)
      BY <3>1
    <3> QED
      BY <3>3, <3>4, <3>5, <1>1, <1>7
  <2> QED
    BY <2>3, <2>4
<1> QED
  BY <1>1, <1>8, <1>9

\* The chunker's groups are runs of its sentences, and none where there are none.
LEMMA GroupsAreRuns ==
  ASSUME NEW s \in Seq(Sentence), NEW size \in Nat, NEW overlap \in Nat
  PROVE  /\ BuildChunkGroups(s, size, overlap) \in Seq(Seq(Sentence))
         /\ s = <<>> => BuildChunkGroups(s, size, overlap) = <<>>
         /\ s # <<>> => \E first, last :
               Runs(BuildChunkGroups(s, size, overlap), s, Len(s), first, last, size, overlap)
<1>1. PICK h, m : h = After(s, size, overlap) /\ m = Len(s)
  OBVIOUS
<1>2. m \in Nat /\ (s = <<>> <=> m = 0)
  BY <1>1
<1>3. /\ h[0] = NoGroups
      /\ \A n \in 0..m : h[n] \in Acc
      /\ \A n \in 0..m - 1 : h[n + 1] = AddSentence(h[n], s[n + 1], size, overlap)
  BY <1>1, AfterIs
<1> DEFINE S == {n \in Nat : n <= m => LoopInv(h[n], s, n, size, overlap)}
<1>4. 0 \in S
  <2>1. LoopInv(h[0], s, 0, size, overlap)
    BY <1>3 DEF LoopInv
  <2> QED
    BY <2>1
<1>5. ASSUME NEW n \in Nat, n \in S PROVE n + 1 \in S
  <2> SUFFICES ASSUME n + 1 <= m PROVE LoopInv(h[n + 1], s, n + 1, size, overlap)
    BY DEF S
  <2>1. n \in 0..m - 1 /\ n \in 0..m /\ n <= m
    BY <1>2
  <2>2. LoopInv(h[n], s, n, size, overlap)
    BY <1>5, <2>1
  <2>3. h[n + 1] = AddSentence(h[n], s[n + 1], size, overlap) /\ h[n] \in Acc
    BY <2>1, <1>3
  <2> QED
    BY <2>2, <2>3, <1>1, LoopStep
<1> HIDE DEF S
<1>6. \A n \in Nat : n \in S
  BY <1>4, <1>5, SetInduction
<1>7. LoopInv(h[m], s, m, size, overlap)
  BY <1>2, <1>6 DEF S
<1>8. PICK acc : acc = h[m]
  OBVIOUS
<1>9. acc \in Acc
  BY <1>2, <1>3, <1>8
<1>10. PICK all : all = BuildChunkGroups(s, size, overlap)
  OBVIOUS
<1>11. all = IF acc.current = <<>> THEN acc.groups ELSE Append(acc.groups, acc.current)
  BY <1>1, <1>8, <1>10, GroupsAre DEF Closed
<1>12. acc.groups \in Seq(Seq(Sentence)) /\ acc.current \in Seq(Sentence)
  BY <1>9 DEF Acc
<1>13. all \in Seq(Seq(Sentence))
  <2>1. Append(acc.groups, acc.current) \in Seq(Seq(Sentence))
    BY <1>12
  <2> QED
    BY <2>1, <1>11, <1>12
<1>14. ASSUME s = <<>> PROVE all = <<>>
  <2>1. acc = NoGroups
    BY <1>2, <1>7, <1>8, <1>14 DEF LoopInv
  <2> QED
    BY <2>1, <1>11 DEF NoGroups
<1>15. ASSUME s # <<>>
       PROVE  \E first, last : Runs(all, s, m, first, last, size, overlap)
  <2>1. /\ acc.current # <<>>
        /\ \E first, last : Runs(Append(acc.groups, acc.current), s, m, first, last, size, overlap)
    BY <1>2, <1>7, <1>8, <1>15 DEF LoopInv
  <2>2. all = Append(acc.groups, acc.current)
    BY <2>1, <1>11
  <2> QED
    BY <2>1, <2>2
<1> QED
  BY <1>1, <1>10, <1>13, <1>14, <1>15

\* A run of numbered sentences is numbered; its first and its last sentence tell
\* where it stands.
IsRun(t, s, a, b) == t = SubSeq(s, a, b)

LEMMA RunPlace ==
  ASSUME NEW s, Numbered(s), NEW a \in Nat, NEW b \in Nat, 1 <= a, a <= b, b <= Len(s),
         NEW t, IsRun(t, s, a, b)
  PROVE  /\ Numbered(t) /\ t # <<>>
         /\ t[1].id - s[1].id + 1 = a
         /\ Last(t).id - s[1].id + 1 = b
         /\ IsRun(Front(t), s, a, b - 1)
<1>1. s \in Seq(Sentence) /\ Len(s) \in Nat /\ \A i \in 1..Len(s) : s[i].id = s[1].id + i - 1
  BY DEF Numbered
<1>2. s[1] \in Sentence /\ s[1].id \in Nat
  <2>1. 1 \in 1..Len(s)
    BY <1>1
  <2>2. s[1] \in Sentence
    BY <2>1, <1>1
  <2> QED
    BY <2>2 DEF Sentence
<1>3. /\ t \in Seq(Sentence) /\ Len(t) = b - a + 1
      /\ \A i \in 1..b - a + 1 : t[i] = s[a + i - 1]
  <2>1. a <= b + 1
    OBVIOUS
  <2>2. /\ SubSeq(s, a, b) \in Seq(Sentence) /\ Len(SubSeq(s, a, b)) = b - a + 1
        /\ \A i \in 1..b - a + 1 : SubSeq(s, a, b)[i] = s[a + i - 1]
    BY <2>1, <1>1, RunOf
  <2> QED
    BY <2>2, Zenon DEF IsRun
<1> DEFINE y == s[1].id
<1>4. ASSUME NEW i \in 1..b - a + 1 PROVE t[i].id = y + (a + i - 1) - 1
  <2>1. a + i - 1 \in 1..Len(s)
    BY <1>1
  <2> QED
    BY <2>1, <1>1, <1>3
<1>0. y \in Nat
  BY <1>2
<1> HIDE DEF y
<1>5. t[1].id = y + a - 1
  <2>1. 1 \in 1..b - a + 1 /\ a + 1 - 1 = a
    OBVIOUS
  <2>2. t[1].id = y + (a + 1 - 1) - 1
    BY <2>1, <1>4
  <2> QED
    BY <2>1, <2>2
<1>6. Numbered(t)
  <2>1. ASSUME NEW i \in 1..Len(t) PROVE t[i].id = t[1].id + i - 1
    <3>1. i \in 1..b - a + 1
      BY <1>3
    <3>2. t[i].id = y + (a + i - 1) - 1
      BY <3>1, <1>4
    <3>3. y + (a + i - 1) - 1 = (y + a - 1) + i - 1
      BY <1>0
    <3> QED
      BY <3>2, <3>3, <1>5
  <2> QED
    BY <2>1, <1>3 DEF Numbered
<1>7. Last(t).id = y + b - 1
  <2>1. Last(t) = t[b - a + 1]
    BY <1>3 DEF Last
  <2>2. b - a + 1 \in 1..b - a + 1 /\ a + (b - a + 1) - 1 = b
    OBVIOUS
  <2>3. t[b - a + 1].id = y + (a + (b - a + 1) - 1) - 1
    BY <2>2, <1>4
  <2> QED
    BY <2>1, <2>2, <2>3
<1>8. Front(t) = SubSeq(s, a, b - 1)
  <2>1. PICK u, v : u = SubSeq(t, 1, b - a) /\ v = SubSeq(s, a, b - 1)
    OBVIOUS
  <2>2. Front(t) = u
    BY <2>1, <1>3 DEF Front
  <2>3. u \in Seq(Sentence) /\ Len(u) = b - a /\ \A i \in 1..b - a : u[i] = t[i]
    <3>1. b - a \in Nat /\ 1 <= b - a + 1 /\ b - a <= Len(t)
      BY <1>3
    <3> QED
      BY <3>1, <2>1, <1>3, RunOf
  <2>4. v \in Seq(Sentence) /\ Len(v) = b - a /\ \A i \in 1..b - a : v[i] = s[a + i - 1]
    <3>1. b - 1 \in Nat /\ a <= b - 1 + 1 /\ b - 1 <= Len(s) /\ b - 1 - a + 1 = b - a
      BY <1>1
    <3> QED
      BY <3>1, <2>1, <1>1, RunOf
  <2>5. ASSUME NEW i \in 1..Len(u) PROVE u[i] = v[i]
    <3>1. i \in 1..b - a /\ i \in 1..b - a + 1
      BY <2>3
    <3> QED
      BY <3>1, <2>3, <2>4, <1>3, Zenon
  <2>6. u = v
    BY <2>3, <2>4, <2>5, SeqEqual
  <2> QED
    BY <2>1, <2>2, <2>6
<1>9. t # <<>>
  BY <1>3
<1>10. t[1].id - y + 1 = a /\ Last(t).id - y + 1 = b
  <2>1. (y + a - 1) - y + 1 = a /\ (y + b - 1) - y + 1 = b
    BY <1>0
  <2> QED
    BY <2>1, <1>5, <1>7
<1> QED
  BY <1>6, <1>8, <1>9, <1>10, Zenon DEF y, IsRun

\* The chunker groups any numbered sentences, by any size and overlap, as
\* IsGrouping says: what _build_chunk_groups computes, for every input.
THEOREM GroupsAreGrouping ==
  ASSUME NEW s, Numbered(s), NEW size \in Nat, NEW overlap \in Nat
  PROVE  IsGrouping(BuildChunkGroups(s, size, overlap), s, size, overlap)
<1>1. s \in Seq(Sentence)
  BY DEF Numbered
<1>2. PICK g : g = BuildChunkGroups(s, size, overlap)
  OBVIOUS
<1>3. CASE s = <<>>
  <2>1. g = <<>>
    BY <1>1, <1>2, <1>3, GroupsAreRuns
  <2>2. Len(g) = 0 /\ 1..Len(g) = {} /\ 2..Len(g) = {}
    BY <2>1
  <2> QED
    BY <2>1, <2>2, <1>2, <1>3 DEF IsGrouping
<1>4. CASE s # <<>>
  <2>1. PICK first, last : Runs(g, s, Len(s), first, last, size, overlap)
    BY <1>1, <1>2, <1>4, GroupsAreRuns
  <2>2. PICK m : m = Len(g)
    OBVIOUS
  <2>3. m \in Nat /\ Len(s) \in Nat
    BY <1>1, <1>2, <2>2, GroupsAreRuns
  <2>4. /\ m # 0 /\ first \in [1..m -> Nat] /\ last \in [1..m -> Nat]
        /\ first[1] = 1 /\ last[m] = Len(s)
        /\ \A i \in 1..m :
             /\ 1 <= first[i] /\ first[i] <= last[i] /\ last[i] <= Len(s)
             /\ g[i] = SubSeq(s, first[i], last[i])
             /\ \/ TokensOf(g[i]) <= size
                \/ TokensOf(SubSeq(s, first[i], last[i] - 1)) <= overlap
        /\ \A i \in 1..m - 1 :
             /\ first[i] <= first[i + 1] /\ first[i + 1] <= last[i] + 1 /\ last[i] < last[i + 1]
             /\ TokensOf(SubSeq(s, first[i + 1], last[i])) <= overlap
             /\ \A k \in first[i]..first[i + 1] - 1 : TokensOf(SubSeq(s, k, last[i])) > overlap
             /\ TokensOf(g[i]) + s[last[i] + 1].tokens > size
    BY <2>1, <2>2 DEF Runs
  <2> DEFINE fst(i) == g[i][1].id - s[1].id + 1
             lst(i) == Last(g[i]).id - s[1].id + 1
  <2>5. ASSUME NEW i \in 1..m
        PROVE  /\ fst(i) = first[i] /\ lst(i) = last[i]
               /\ g[i] # <<>> /\ Front(g[i]) = SubSeq(s, first[i], last[i] - 1)
    <3>1. /\ first[i] \in Nat /\ last[i] \in Nat /\ 1 <= first[i] /\ first[i] <= last[i]
          /\ last[i] <= Len(s) /\ g[i] = SubSeq(s, first[i], last[i])
      BY <2>4
    <3>2. PICK a, b, t : a = first[i] /\ b = last[i] /\ t = g[i]
      OBVIOUS
    <3>3. a \in Nat /\ b \in Nat /\ 1 <= a /\ a <= b /\ b <= Len(s) /\ IsRun(t, s, a, b)
      BY <3>1, <3>2 DEF IsRun
    <3>4. /\ t # <<>> /\ t[1].id - s[1].id + 1 = a /\ Last(t).id - s[1].id + 1 = b
          /\ IsRun(Front(t), s, a, b - 1)
      BY <3>3, RunPlace
    <3>5. Front(t) = SubSeq(s, a, b - 1)
      BY <3>4 DEF IsRun
    <3> QED
      BY <3>2, <3>4, <3>5, Zenon
  <2> HIDE DEF fst, lst
  <2>6. ASSUME NEW i \in 1..m
        PROVE  /\ g[i] # <<>>
               /\ 1 <= fst(i) /\ fst(i) <= lst(i) /\ lst(i) <= Len(s)
               /\ g[i] = SubSeq(s, fst(i), lst(i))
               /\ TokensOf(g[i]) <= size \/ TokensOf(Front(g[i])) <= overlap
    BY <2>4, <2>5
  <2>7. fst(1) = 1 /\ lst(m) = Len(s)
    <3>1. 1 \in 1..m /\ m \in 1..m
      BY <2>3, <2>4
    <3> QED
      BY <3>1, <2>4, <2>5
  <2>8. ASSUME NEW i \in 2..m
        PROVE  /\ fst(i - 1) <= fst(i) /\ fst(i) <= lst(i - 1) + 1 /\ lst(i - 1) < lst(i)
               /\ TokensOf(SubSeq(s, fst(i), lst(i - 1))) <= overlap
               /\ \A k \in fst(i - 1)..fst(i) - 1 : TokensOf(SubSeq(s, k, lst(i - 1))) > overlap
               /\ TokensOf(g[i - 1]) + s[lst(i - 1) + 1].tokens > size
    <3>1. i - 1 \in 1..m - 1 /\ i - 1 \in 1..m /\ i \in 1..m /\ (i - 1) + 1 = i
      BY <2>3
    <3>2. PICK j : j = i - 1
      OBVIOUS
    <3>3. fst(j) = first[j] /\ lst(j) = last[j] /\ fst(i) = first[j + 1] /\ lst(i) = last[j + 1]
      BY <3>1, <3>2, <2>5
    <3> QED
      BY <3>1, <3>2, <3>3, <2>4
  <2>9. g # <<>>
    BY <2>2, <2>4
  <2> QED
    BY <2>2, <2>6, <2>7, <2>8, <2>9, <1>2, <1>4 DEF IsGrouping, fst, lst
<1> QED
  BY <1>3, <1>4

\* Every sentence is in a group.
LEMMA GroupsCover ==
  ASSUME NEW s \in Seq(Sentence), NEW size \in Nat, NEW overlap \in Nat, NEW k \in 1..Len(s),
         NEW g, g = BuildChunkGroups(s, size, overlap)
  PROVE  \E i \in 1..Len(g) : \E j \in 1..Len(g[i]) : g[i][j] = s[k]
<1>1. PICK n, m : n = Len(s) /\ m = Len(g)
  OBVIOUS
<1>2. s # <<>> /\ n \in Nat
  BY <1>1
<1>3. g \in Seq(Seq(Sentence)) /\ m \in Nat
  BY <1>1, GroupsAreRuns
<1>4. PICK first, last : Runs(g, s, n, first, last, size, overlap)
  BY <1>1, <1>2, GroupsAreRuns
<1>5. /\ m # 0 /\ first \in [1..m -> Nat] /\ last \in [1..m -> Nat]
      /\ first[1] = 1 /\ last[m] = n
      /\ \A i \in 1..m : /\ 1 <= first[i] /\ first[i] <= last[i] /\ last[i] <= n
                         /\ g[i] = SubSeq(s, first[i], last[i])
      /\ \A i \in 1..m - 1 : first[i + 1] <= last[i] + 1
  BY <1>1, <1>4 DEF Runs
<1> DEFINE T == {i \in 1..m : k <= last[i]}
<1>6. m \in T /\ T \subseteq Nat
  BY <1>1, <1>3, <1>5
<1> HIDE DEF T
<1>7. PICK i \in T : \A j \in T : i <= j
  BY <1>6, LeastNatural
<1>8. i \in 1..m /\ k <= last[i]
  BY <1>7 DEF T
<1>9. first[i] \in Nat /\ last[i] \in Nat
  BY <1>5, <1>8
<1>10. first[i] <= k
  <2>1. CASE i = 1
    BY <2>1, <1>5
  <2>2. CASE i # 1
    <3>1. i - 1 \in 1..m /\ i - 1 \in 1..m - 1 /\ (i - 1) + 1 = i /\ ~ (i <= i - 1)
      BY <2>2, <1>3, <1>8
    <3>2. i - 1 \notin T
      BY <3>1, <1>7
    <3>3. ~ (k <= last[i - 1]) /\ last[i - 1] \in Nat
      BY <3>1, <3>2, <1>5 DEF T
    <3>4. first[i] <= last[i - 1] + 1
      BY <3>1, <1>5
    <3> QED
      BY <3>3, <3>4, <1>9
  <2> QED
    BY <2>1, <2>2
<1>11. PICK a, b : a = first[i] /\ b = last[i]
  OBVIOUS
<1>12. a \in Nat /\ b \in Nat /\ 1 <= a /\ a <= b + 1 /\ b <= Len(s) /\ a <= k /\ k <= b
  BY <1>1, <1>5, <1>8, <1>9, <1>10, <1>11
<1>13. /\ Len(SubSeq(s, a, b)) = b - a + 1
       /\ \A j \in 1..b - a + 1 : SubSeq(s, a, b)[j] = s[a + j - 1]
  BY <1>12, RunOf
<1>14. PICK j : j = k - a + 1
  OBVIOUS
<1>15. j \in 1..b - a + 1 /\ a + j - 1 = k
  BY <1>12, <1>14
<1>16. g[i] = SubSeq(s, a, b)
  BY <1>5, <1>8, <1>11
<1>17. j \in 1..Len(g[i]) /\ g[i][j] = s[k]
  BY <1>13, <1>15, <1>16, Zenon
<1> QED
  BY <1>1, <1>8, <1>17

-----------------------------------------------------------------------------
(* What the strategies make of a document.                                 *)

ChunkSet == [group : Seq(Sentence), parent : Nat]

LEMMA SizesNat ==
  /\ FixedSize \in Nat /\ FixedOverlap \in Nat
  /\ ParentSize \in Nat /\ ParentOverlap \in Nat
  /\ ChildSize \in Nat /\ ChildOverlap \in Nat
BY DEF FixedSize, FixedOverlap, ParentSize, ParentOverlap, ChildSize, ChildOverlap

LEMMA FixedIs ==
  ASSUME NEW doc \in Seq(Seq(Nat)), NEW made, made = StrategyFixed(doc),
         NEW s, s = SentencesWithPages(doc), NEW g, g = BuildChunkGroups(s, FixedSize, FixedOverlap)
  PROVE  /\ made.parents = <<>>
         /\ made.chunks \in Seq(ChunkSet) /\ Len(made.chunks) = Len(g)
         /\ \A i \in 1..Len(g) : made.chunks[i].group = g[i] /\ made.chunks[i].parent = 0
<1>1. s \in Seq(Sentence)
  BY SentencesType DEF Numbered
<1>2. g \in Seq(Seq(Sentence))
  BY <1>1, SizesNat, GroupsAreRuns
<1>3. Len(g) \in Nat /\ DOMAIN g = 1..Len(g) /\ \A i \in 1..Len(g) : g[i] \in Seq(Sentence)
  BY <1>2
<1>4. PICK c : c = [i \in 1..Len(g) |-> [group |-> g[i], parent |-> 0]]
  OBVIOUS
<1>5. made.chunks = c /\ made.parents = <<>>
  BY <1>3, <1>4 DEF StrategyFixed
<1>6. ASSUME NEW i \in 1..Len(g)
      PROVE  c[i] \in ChunkSet /\ c[i].group = g[i] /\ c[i].parent = 0
  BY <1>3, <1>4 DEF ChunkSet
<1>7. c \in Seq(ChunkSet) /\ Len(c) = Len(g)
  <2>1. c \in [1..Len(g) -> ChunkSet]
    BY <1>4, <1>6
  <2> QED
    BY <2>1, <1>3
<1> QED
  BY <1>5, <1>6, <1>7

Children(parents, i) ==
  LET groups == BuildChunkGroups(parents[i], ChildSize, ChildOverlap)
  IN [j \in DOMAIN groups |-> [group |-> groups[j], parent |-> i]]

\* The children of parent i are chunks off[i - 1] + 1 to off[i].
HierarchicalIs(made, p, off) ==
  /\ made.parents = p /\ made.chunks \in Seq(ChunkSet)
  /\ off \in [0..Len(p) -> Nat] /\ off[0] = 0 /\ off[Len(p)] = Len(made.chunks)
  /\ \A i \in 1..Len(p) :
       /\ off[i] = off[i - 1] + Len(BuildChunkGroups(p[i], ChildSize, ChildOverlap))
       /\ off[i] <= Len(made.chunks)
       /\ \A j \in 1..off[i] - off[i - 1] :
            /\ made.chunks[off[i - 1] + j].parent = i
            /\ made.chunks[off[i - 1] + j].group
                 = BuildChunkGroups(p[i], ChildSize, ChildOverlap)[j]
  /\ \A k \in 1..Len(made.chunks) : \E i \in 1..Len(p) : off[i - 1] < k /\ k <= off[i]

LEMMA HierarchicalOf ==
  ASSUME NEW doc \in Seq(Seq(Nat)), NEW made, made = StrategyHierarchical(doc),
         NEW p, p = BuildChunkGroups(SentencesWithPages(doc), ParentSize, ParentOverlap)
  PROVE  \E off : HierarchicalIs(made, p, off)
<1>1. p \in Seq(Seq(Sentence))
  <2>1. SentencesWithPages(doc) \in Seq(Sentence)
    BY SentencesType DEF Numbered
  <2> QED
    BY <2>1, SizesNat, GroupsAreRuns
<1>2. Len(p) \in Nat /\ DOMAIN p = 1..Len(p) /\ \A i \in 1..Len(p) : p[i] \in Seq(Sentence)
  BY <1>1
<1>3. PICK t : t = [i \in 1..Len(p) |-> Children(p, i)]
  OBVIOUS
<1>4. made.parents = p /\ made.chunks = FlattenSeq(t)
  BY <1>2, <1>3 DEF StrategyHierarchical, Children
<1>5. ASSUME NEW i \in 1..Len(p), NEW g, g = BuildChunkGroups(p[i], ChildSize, ChildOverlap)
      PROVE  /\ t[i] \in Seq(ChunkSet) /\ Len(t[i]) = Len(g)
             /\ \A j \in 1..Len(g) : t[i][j].group = g[j] /\ t[i][j].parent = i
  <2>1. g \in Seq(Seq(Sentence))
    BY <1>2, <1>5, SizesNat, GroupsAreRuns
  <2>2. Len(g) \in Nat /\ DOMAIN g = 1..Len(g) /\ \A j \in 1..Len(g) : g[j] \in Seq(Sentence)
    BY <2>1
  <2>3. PICK c : c = t[i]
    OBVIOUS
  <2>4. c = [j \in 1..Len(g) |-> [group |-> g[j], parent |-> i]]
    BY <1>3, <1>5, <2>2, <2>3 DEF Children
  <2>5. ASSUME NEW j \in 1..Len(g)
        PROVE  c[j] \in ChunkSet /\ c[j].group = g[j] /\ c[j].parent = i
    <3>1. i \in Nat
      BY <1>2
    <3> QED
      BY <3>1, <2>2, <2>4 DEF ChunkSet
  <2>6. c \in [1..Len(g) -> ChunkSet]
    BY <2>4, <2>5
  <2>7. c \in Seq(ChunkSet) /\ Len(c) = Len(g)
    <3>1. PICK k : k = Len(g)
      OBVIOUS
    <3>2. k \in Nat /\ c \in [1..k -> ChunkSet]
      BY <2>2, <2>6, <3>1
    <3>3. c \in Seq(ChunkSet) /\ Len(c) = k
      BY ONLY <3>2
    <3> QED
      BY <3>1, <3>3
  <2> QED
    BY <2>3, <2>5, <2>7
<1>6. t \in Seq(Seq(ChunkSet)) /\ Len(t) = Len(p)
  <2>1. \A i \in 1..Len(p) : t[i] \in Seq(ChunkSet)
    BY <1>5
  <2>2. t \in [1..Len(p) -> Seq(ChunkSet)]
    BY <2>1, <1>3
  <2> QED
    BY <2>2, <1>2
<1>7. PICK flat : flat = FlattenSeq(t)
  OBVIOUS
<1>8. PICK off : Parts(t, flat, off)
  BY <1>6, <1>7, FlattenParts
<1>9. flat \in Seq(ChunkSet)
  BY <1>6, <1>7, FlattenType
<1>10. /\ off \in [0..Len(p) -> Nat] /\ off[0] = 0 /\ off[Len(p)] = Len(flat)
       /\ \A i \in 1..Len(p) :
            /\ off[i] = off[i - 1] + Len(t[i]) /\ off[i] <= Len(flat)
            /\ \A j \in 1..Len(t[i]) : flat[off[i - 1] + j] = t[i][j]
  BY <1>6, <1>8 DEF Parts
<1>11. ASSUME NEW i \in 1..Len(p), NEW g, g = BuildChunkGroups(p[i], ChildSize, ChildOverlap)
       PROVE  /\ off[i] = off[i - 1] + Len(g) /\ off[i] <= Len(flat)
              /\ \A j \in 1..off[i] - off[i - 1] :
                   flat[off[i - 1] + j].parent = i /\ flat[off[i - 1] + j].group = g[j]
  <2>1. /\ Len(t[i]) = Len(g)
        /\ \A j \in 1..Len(g) : t[i][j].group = g[j] /\ t[i][j].parent = i
    BY <1>5, <1>11
  <2>2. /\ off[i] = off[i - 1] + Len(t[i]) /\ off[i] <= Len(flat)
        /\ \A j \in 1..Len(t[i]) : flat[off[i - 1] + j] = t[i][j]
    BY <1>10
  <2>3. off[i] \in Nat /\ off[i - 1] \in Nat
    <3>1. i - 1 \in 0..Len(p) /\ i \in 0..Len(p)
      BY <1>2
    <3> QED
      BY <3>1, <1>10
  <2>4. off[i] - off[i - 1] = Len(g)
    <3>1. g \in Seq(Seq(Sentence))
      BY <1>2, <1>11, SizesNat, GroupsAreRuns
    <3>2. Len(g) \in Nat
      BY <3>1
    <3> QED
      BY <3>2, <2>1, <2>2, <2>3
  <2> QED
    BY <2>1, <2>2, <2>4
<1>12. \A k \in 1..Len(flat) : \E i \in 1..Len(p) : off[i - 1] < k /\ k <= off[i]
  <2>1. Len(t) \in Nat
    BY <1>2, <1>6
  <2> QED
    BY <2>1, <1>6, <1>8, PartOf
<1>13. HierarchicalIs(made, p, off)
  BY <1>4, <1>7, <1>9, <1>10, <1>11, <1>12 DEF HierarchicalIs
<1> QED
  BY <1>13

-----------------------------------------------------------------------------
(* The inductive invariant.                                                *)

FutureSet == [state : FutureStates, tries : 0..MaxRetries - 1, text : Text]

\* What the pool may make of chunk i.
TextsOf(i) == {EnrichedText(i, c) : c \in ContextSizes \cup {0}} \cup {RawText(i)}

StateInv ==
  /\ pages \in Documents
  /\ pc \in {"parsed", "chunked", "enriching", "embedding", "done", "failed"}
  /\ tries \in 0..MaxRetries - 1
  /\ short \in BOOLEAN /\ long \in BOOLEAN

MadeInv ==
  IF pc = "parsed" THEN chunked = Nothing
  ELSE chunked = StrategyFixed(pages) \/ chunked = StrategyHierarchical(pages)

\* Every text is typed; one that is ready or collected is of its own chunk.
PoolInv ==
  /\ \A i \in DOMAIN future : future[i] \in FutureSet
  /\ \A i \in DOMAIN enriched : enriched[i] \in Text
  /\ pc = "enriching" =>
       /\ future \in [Chunks -> FutureSet] /\ enriched \in [Chunks -> Text]
       /\ \A i \in Chunks :
            /\ future[i].state \in {"ready", "collected"} => future[i].text \in TextsOf(i)
            /\ future[i].state = "collected" => enriched[i] \in TextsOf(i)
  /\ pc \in {"embedding", "done"} =>
       enriched \in [Chunks -> Text] /\ \A i \in Chunks : enriched[i] \in TextsOf(i)

\* As long as every batch was answered in full the vectors are the chunks' own;
\* after batches that were only short, or only long, the total is wrong too.
VectorInv ==
  /\ vectors \in Seq(Nat) /\ sent \in 0..Len(chunked.chunks)
  /\ ~ short /\ ~ long => Len(vectors) = sent /\ \A k \in 1..sent : vectors[k] = k
  /\ short /\ ~ long => Len(vectors) < sent
  /\ long /\ ~ short => Len(vectors) > sent

DoneInv ==
  pc = "done" =>
    /\ sent = Len(chunked.chunks) /\ Len(vectors) = Len(chunked.chunks)
    /\ results = [i \in Chunks |-> [vector |-> vectors[i], text |-> enriched[i], bm25 |-> i]]

PrepInv == StateInv /\ MadeInv /\ PoolInv /\ VectorInv /\ DoneInv

LEMMA MadeType ==
  ASSUME StateInv, MadeInv
  PROVE  /\ chunked.chunks \in Seq(ChunkSet) /\ pages \in Seq(Seq(Nat))
         /\ Len(chunked.chunks) \in Nat /\ Chunks = 1..Len(chunked.chunks)
<1>1. pages \in Seq(Seq(Nat))
  BY ConstantsAssumption DEF StateInv
<1>2. chunked.chunks \in Seq(ChunkSet)
  <2>1. CASE pc = "parsed"
    <3>1. chunked.chunks = <<>>
      BY <2>1 DEF MadeInv, Nothing
    <3>2. <<>> \in Seq(ChunkSet)
      OBVIOUS
    <3> QED
      BY <3>1, <3>2
  <2>2. CASE pc # "parsed" /\ chunked = StrategyFixed(pages)
    BY <2>2, <1>1, FixedIs
  <2>3. CASE pc # "parsed" /\ chunked = StrategyHierarchical(pages)
    BY <2>3, <1>1, HierarchicalOf DEF HierarchicalIs
  <2> QED
    BY <2>1, <2>2, <2>3 DEF MadeInv
<1>3. Len(chunked.chunks) \in Nat /\ DOMAIN chunked.chunks = 1..Len(chunked.chunks)
  BY <1>2
<1> QED
  BY <1>1, <1>2, <1>3 DEF Chunks

LEMMA ChunkTokensNat ==
  ASSUME StateInv, MadeInv, NEW i \in Chunks
  PROVE  i \in Nat /\ chunked.chunks[i].group \in Seq(Sentence) /\ ChunkTokens(i) \in Nat
<1>1. i \in Nat /\ i \in 1..Len(chunked.chunks) /\ chunked.chunks \in Seq(ChunkSet)
  BY MadeType
<1>2. chunked.chunks[i] \in ChunkSet
  BY <1>1
<1>3. chunked.chunks[i].group \in Seq(Sentence)
  BY <1>2 DEF ChunkSet
<1> QED
  BY <1>1, <1>3, TokensNat DEF ChunkTokens

\* A text of chunk i keeps all of it, or as much as its context leaves room for.
LEMMA TextsAre ==
  ASSUME StateInv, MadeInv, NEW i \in Chunks, NEW t \in TextsOf(i)
  PROVE  /\ t \in Text /\ t.chunk = i
         /\ \/ t.kept = ChunkTokens(i)
            \/ \E c \in ContextSizes \cup {0} : t.kept = EmbeddingTokenLimit - c
<1>1. i \in Nat /\ ChunkTokens(i) \in Nat
  BY ChunkTokensNat
<1>2. PICK n : n = ChunkTokens(i)
  OBVIOUS
<1>3. CASE t = RawText(i)
  BY <1>1, <1>3 DEF RawText, Text
<1>4. CASE \E c \in ContextSizes \cup {0} : t = EnrichedText(i, c)
  <2>1. PICK c \in ContextSizes \cup {0} : t = EnrichedText(i, c)
    BY <1>4
  <2>2. c \in Nat /\ EmbeddingTokenLimit - c \in Nat
    BY ConstantsAssumption DEF EmbeddingTokenLimit
  <2>3. PICK k : k = Smaller(n, EmbeddingTokenLimit - c)
    OBVIOUS
  <2>4. k \in Nat /\ (k = n \/ k = EmbeddingTokenLimit - c)
    BY <1>1, <1>2, <2>2, <2>3 DEF Smaller
  <2>5. t = [chunk |-> i, context |-> c, kept |-> k]
    BY <1>2, <2>1, <2>3 DEF EnrichedText
  <2>6. t \in Text /\ t.chunk = i /\ t.kept = k
    BY <1>1, <2>2, <2>4, <2>5 DEF Text
  <2> QED
    BY <1>2, <2>4, <2>6
<1> QED
  BY <1>3, <1>4 DEF TextsOf

LEMMA NoTextType == NoText \in Text
BY DEF NoText, Text

\* How one task's record changes.
LEMMA FutureMoves ==
  ASSUME NEW f \in FutureSet, NEW st \in FutureStates, NEW g, g = [f EXCEPT !.state = st]
  PROVE  g \in FutureSet /\ g.state = st /\ g.text = f.text
BY DEF FutureSet

LEMMA FutureRetries ==
  ASSUME NEW f \in FutureSet, f.tries < MaxRetries - 1, NEW g, g = [f EXCEPT !.tries = f.tries + 1]
  PROVE  g \in FutureSet /\ g.state = f.state /\ g.text = f.text
<1>1. f.tries + 1 \in 0..MaxRetries - 1
  BY ConstantsAssumption DEF FutureSet
<1> QED
  BY <1>1 DEF FutureSet

LEMMA FutureEnds ==
  ASSUME NEW f \in FutureSet, NEW t \in Text, NEW g,
         g = [state |-> "ready", tries |-> f.tries, text |-> t]
  PROVE  g \in FutureSet /\ g.state = "ready" /\ g.text = t
BY DEF FutureSet, FutureStates

\* A document that was parsed and not chunked yet.
THEOREM PrepInit == Init => PrepInv
<1> SUFFICES ASSUME Init PROVE PrepInv
  OBVIOUS
<1>1. StateInv
  <2>1. 0 \in 0..MaxRetries - 1
    BY ConstantsAssumption
  <2> QED
    BY <2>1 DEF Init, StateInv
<1>2. MadeInv
  BY DEF Init, MadeInv
<1>3. PoolInv
  BY DEF Init, PoolInv
<1>4. VectorInv
  <2>1. vectors = <<>> /\ sent = 0 /\ chunked.chunks = <<>> /\ ~ short /\ ~ long
    BY DEF Init, Nothing
  <2>2. Len(chunked.chunks) = 0 /\ Len(vectors) = 0 /\ vectors \in Seq(Nat)
    BY <2>1
  <2> QED
    BY <2>1, <2>2 DEF VectorInv
<1>5. DoneInv
  BY DEF Init, DoneInv
<1> QED
  BY <1>1, <1>2, <1>3, <1>4, <1>5 DEF PrepInv

\* An answer against the contract is one short or one long.
LEMMA AnswerLengths ==
  ASSUME NEW B \in Seq(Nat), NEW k \in 1..Len(B)
  PROVE  /\ RemoveAt(B, k) \in Seq(Nat) /\ Len(RemoveAt(B, k)) = Len(B) - 1
         /\ InsertAt(B, k, B[k]) \in Seq(Nat) /\ Len(InsertAt(B, k, B[k])) = Len(B) + 1
<1>1. PICK n : n = Len(B)
  OBVIOUS
<1>2. n \in Nat /\ k \in Nat /\ 1 <= k /\ k <= n
  BY <1>1
<1>3. PICK a, c, d, x : /\ a = SubSeq(B, 1, k - 1) /\ c = SubSeq(B, k + 1, n)
                        /\ d = SubSeq(B, k, n) /\ x = << B[k] >>
  OBVIOUS
<1>4. a \in Seq(Nat) /\ Len(a) = k - 1
  <2>1. k - 1 \in Nat /\ 1 <= (k - 1) + 1 /\ k - 1 <= Len(B)
    BY <1>1, <1>2
  <2> QED
    BY <2>1, <1>3, RunOf
<1>5. c \in Seq(Nat) /\ Len(c) = n - (k + 1) + 1
  <2>1. k + 1 \in Nat /\ 1 <= k + 1 /\ k + 1 <= n + 1 /\ n <= Len(B)
    BY <1>1, <1>2
  <2> QED
    BY <2>1, <1>2, <1>3, RunOf
<1>6. d \in Seq(Nat) /\ Len(d) = n - k + 1
  <2>1. 1 <= k /\ k <= n + 1 /\ n <= Len(B)
    BY <1>1, <1>2
  <2> QED
    BY <2>1, <1>2, <1>3, RunOf
<1>7. x \in Seq(Nat) /\ Len(x) = 1
  <2>1. B[k] \in Nat
    OBVIOUS
  <2> QED
    BY <2>1, <1>3
<1>8. a \o c \in Seq(Nat) /\ Len(a \o c) = Len(a) + Len(c)
  BY <1>4, <1>5, ConcatProperties
<1>9. a \o x \in Seq(Nat) /\ Len(a \o x) = Len(a) + Len(x)
  BY <1>4, <1>7, ConcatProperties
<1>10. (a \o x) \o d \in Seq(Nat) /\ Len((a \o x) \o d) = Len(a \o x) + Len(d)
  BY <1>6, <1>9, ConcatProperties
<1>11. RemoveAt(B, k) = a \o c /\ InsertAt(B, k, B[k]) = (a \o x) \o d
  BY <1>1, <1>3 DEF RemoveAt, InsertAt
<1>12. Len(a \o c) = n - 1 /\ Len((a \o x) \o d) = n + 1
  BY <1>2, <1>4, <1>5, <1>6, <1>7, <1>8, <1>9, <1>10
<1> QED
  BY <1>1, <1>8, <1>10, <1>11, <1>12, Zenon

\* The batch in hand holds the next chunks in order.
LEMMA BatchIs ==
  ASSUME PrepInv, pc = "embedding", sent < Len(enriched)
  PROVE  \E b \in Nat \ {0} : /\ sent + b <= Len(chunked.chunks)
                            /\ Batch = [k \in 1..b |-> sent + k]
<1>1. PICK n : n = Len(chunked.chunks)
  OBVIOUS
<1>2. n \in Nat /\ Chunks = 1..n /\ sent \in 0..n
  BY <1>1, MadeType DEF PrepInv, VectorInv
<1>3. enriched \in [1..n -> Text] /\ \A i \in 1..n : enriched[i].chunk = i
  <2>1. enriched \in [Chunks -> Text] /\ \A i \in Chunks : enriched[i] \in TextsOf(i)
    BY DEF PrepInv, PoolInv
  <2>2. \A i \in Chunks : enriched[i].chunk = i
    BY <2>1, TextsAre DEF PrepInv
  <2> QED
    BY <2>1, <2>2, <1>2
<1>4. Len(enriched) = n
  BY <1>2, <1>3
<1>5. PICK b : b = Smaller(BatchSize, n - sent)
  OBVIOUS
<1>6. b \in Nat \ {0} /\ sent + b <= n
  BY <1>2, <1>4, <1>5, ConstantsAssumption DEF Smaller
<1>7. Batch = [k \in 1..b |-> enriched[sent + k].chunk]
  BY <1>4, <1>5 DEF Batch
<1>8. ASSUME NEW k \in 1..b PROVE enriched[sent + k].chunk = sent + k
  <2>1. sent + k \in 1..n
    BY <1>2, <1>6
  <2> QED
    BY <2>1, <1>3
<1> QED
  BY <1>1, <1>6, <1>7, <1>8

LEMMA EmbedBatchKeeps ==
  ASSUME PrepInv, EmbedBatch
  PROVE  VectorInv' /\ tries' = 0 /\ short' \in BOOLEAN /\ long' \in BOOLEAN
<1>1. PICK n, v : n = sent /\ v = vectors
  OBVIOUS
<1>2. PICK b \in Nat \ {0} : n + b <= Len(chunked.chunks) /\ Batch = [k \in 1..b |-> n + k]
  BY <1>1, BatchIs DEF EmbedBatch
<1>3. PICK B : B = Batch
  OBVIOUS
<1>4. v \in Seq(Nat) /\ n \in Nat /\ Len(chunked.chunks) \in Nat
  BY <1>1, MadeType DEF PrepInv, VectorInv
<1>5. B \in Seq(Nat) /\ Len(B) = b /\ \A k \in 1..b : B[k] = n + k
  BY <1>2, <1>3, <1>4
<1>6. PICK answer \in {B} \cup Fewer \cup More :
        /\ vectors' = v \o answer
        /\ short' = (short \/ answer \in Fewer)
        /\ long' = (long \/ answer \in More)
  BY <1>1, <1>3 DEF EmbedBatch
<1>7. ASSUME NEW x \in Fewer PROVE x \in Seq(Nat) /\ Len(x) = b - 1
  <2>1. PICK k \in 1..b : x = RemoveAt(B, k)
    BY <1>3, <1>5, <1>7 DEF Fewer
  <2> QED
    BY <2>1, <1>5, AnswerLengths
<1>8. ASSUME NEW x \in More PROVE x \in Seq(Nat) /\ Len(x) = b + 1
  <2>1. PICK k \in 1..b : x = InsertAt(B, k, B[k])
    BY <1>3, <1>5, <1>8 DEF More
  <2> QED
    BY <2>1, <1>5, AnswerLengths
<1> DEFINE F == answer \in Fewer
           M == answer \in More
<1>9. /\ answer \in Seq(Nat)
      /\ F => Len(answer) = b - 1
      /\ M => Len(answer) = b + 1
      /\ ~ F /\ ~ M => answer = B
  BY <1>5, <1>6, <1>7, <1>8
<1>10. vectors' \in Seq(Nat) /\ Len(vectors') = Len(v) + Len(answer)
  BY <1>4, <1>6, <1>9, ConcatProperties
<1>11. sent' = n + b /\ tries' = 0 /\ chunked' = chunked
  BY <1>1, <1>3, <1>5 DEF EmbedBatch
<1>12. sent' \in 0..Len(chunked'.chunks)
  BY <1>2, <1>4, <1>11
<1>13. Len(v) \in Nat /\ Len(answer) \in Nat
  BY <1>4, <1>9
<1>14. /\ ~ short /\ ~ long => Len(v) = n /\ \A k \in 1..n : v[k] = k
       /\ short /\ ~ long => Len(v) < n
       /\ long /\ ~ short => Len(v) > n
  BY <1>1 DEF PrepInv, VectorInv
<1>15. (short' <=> short \/ F) /\ (long' <=> long \/ M)
  BY <1>6
<1> HIDE DEF F, M
<1>16. ASSUME ~ short', ~ long'
       PROVE  Len(vectors') = sent' /\ \A k \in 1..sent' : vectors'[k] = k
  <2>1. ~ short /\ ~ long /\ ~ F /\ ~ M
    BY <1>15, <1>16
  <2>2. Len(v) = n /\ (\A k \in 1..n : v[k] = k) /\ answer = B
    BY <2>1, <1>9, <1>14
  <2>3. ASSUME NEW k \in 1..n + b PROVE vectors'[k] = k
    <3>1. k \in 1..Len(v) + Len(answer)
      BY <2>2, <1>5
    <3>2. vectors'[k] = IF k <= Len(v) THEN v[k] ELSE answer[k - Len(v)]
      BY <3>1, <1>4, <1>6, <1>9, ConcatProperties
    <3>3. CASE k <= n
      BY <3>2, <3>3, <2>2
    <3>4. CASE ~ (k <= n)
      <4>1. k - n \in 1..b
        BY <3>4, <1>4
      <4>2. B[k - n] = n + (k - n)
        BY <4>1, <1>5
      <4> QED
        BY <3>2, <3>4, <4>1, <4>2, <2>2, <1>4
    <3> QED
      BY <3>3, <3>4
  <2>4. Len(vectors') = n + b
    BY <2>2, <1>5, <1>10
  <2> QED
    BY <2>3, <2>4, <1>11
<1>17. ASSUME short', ~ long' PROVE Len(vectors') < sent'
  <2>1. ~ long /\ ~ M /\ (short \/ F)
    BY <1>15, <1>17
  <2>2. Len(answer) <= b /\ Len(v) <= n /\ (Len(answer) < b \/ Len(v) < n)
    <3>1. CASE F
      <4>1. Len(answer) = b - 1 /\ Len(v) <= n
        BY <3>1, <2>1, <1>9, <1>13, <1>14, <1>4
      <4> QED
        BY <4>1
    <3>2. CASE ~ F
      <4>1. Len(answer) = b /\ Len(v) < n
        BY <3>2, <2>1, <1>5, <1>9, <1>14
      <4> QED
        BY <4>1, <1>4, <1>13
    <3> QED
      BY <3>1, <3>2
  <2> QED
    BY <2>2, <1>4, <1>10, <1>11, <1>13
<1>18. ASSUME long', ~ short' PROVE Len(vectors') > sent'
  <2>1. ~ short /\ ~ F /\ (long \/ M)
    BY <1>15, <1>18
  <2>2. Len(answer) >= b /\ Len(v) >= n /\ (Len(answer) > b \/ Len(v) > n)
    <3>1. CASE M
      <4>1. Len(answer) = b + 1 /\ Len(v) >= n
        BY <3>1, <2>1, <1>9, <1>13, <1>14, <1>4
      <4> QED
        BY <4>1
    <3>2. CASE ~ M
      <4>1. Len(answer) = b /\ Len(v) > n
        BY <3>2, <2>1, <1>5, <1>9, <1>14
      <4> QED
        BY <4>1, <1>4, <1>13
    <3> QED
      BY <3>1, <3>2
  <2> QED
    BY <2>2, <1>4, <1>10, <1>11, <1>13
<1>19. VectorInv'
  BY <1>10, <1>12, <1>16, <1>17, <1>18 DEF VectorInv
<1> QED
  BY <1>6, <1>11, <1>19

LEMMA MadeChunks ==
  ASSUME NEW doc \in Seq(Seq(Nat)), NEW made \in {StrategyFixed(doc), StrategyHierarchical(doc)}
  PROVE  made.chunks \in Seq(ChunkSet) /\ Len(made.chunks) \in Nat
<1>1. made.chunks \in Seq(ChunkSet)
  <2>1. CASE made = StrategyFixed(doc)
    BY <2>1, FixedIs
  <2>2. CASE made = StrategyHierarchical(doc)
    BY <2>2, HierarchicalOf DEF HierarchicalIs
  <2> QED
    BY <2>1, <2>2
<1> QED
  BY <1>1

\* The texts of a chunk are a matter of the chunks alone.
LEMMA SameTexts ==
  ASSUME chunked' = chunked
  PROVE  Chunks' = Chunks /\ \A i : TextsOf(i)' = TextsOf(i)
<1>1. Chunks' = Chunks
  BY DEF Chunks
<1>2. ASSUME NEW i PROVE TextsOf(i)' = TextsOf(i)
  <2>1. ChunkTokens(i)' = ChunkTokens(i)
    BY DEF ChunkTokens
  <2>2. RawText(i)' = RawText(i)
    BY <2>1 DEF RawText
  <2>3. ASSUME NEW c PROVE EnrichedText(i, c)' = EnrichedText(i, c)
    BY <2>1, Zenon DEF EnrichedText
  <2> QED
    BY <2>2, <2>3, Zenon DEF TextsOf
<1> QED
  BY <1>1, <1>2

\* What a step of the pool on task i leaves true of the pool.
LEMMA PoolMoves ==
  ASSUME PrepInv, pc = "enriching", pc' = pc, chunked' = chunked,
         NEW i \in Chunks, NEW r \in FutureSet, NEW t \in Text,
         future' = [future EXCEPT ![i] = r], enriched' = [enriched EXCEPT ![i] = t],
         r.state \in {"ready", "collected"} => r.text \in TextsOf(i),
         r.state = "collected" => t \in TextsOf(i)
  PROVE  PoolInv'
<1>1. /\ future \in [Chunks -> FutureSet] /\ enriched \in [Chunks -> Text]
      /\ \A k \in Chunks :
           /\ future[k].state \in {"ready", "collected"} => future[k].text \in TextsOf(k)
           /\ future[k].state = "collected" => enriched[k] \in TextsOf(k)
  BY DEF PrepInv, PoolInv
<1>2. Chunks' = Chunks /\ \A k : TextsOf(k)' = TextsOf(k)
  BY SameTexts
<1>3. future' \in [Chunks -> FutureSet] /\ enriched' \in [Chunks -> Text]
  BY <1>1
<1>4. ASSUME NEW k \in Chunks
      PROVE  /\ future'[k].state \in {"ready", "collected"} => future'[k].text \in TextsOf(k)
             /\ future'[k].state = "collected" => enriched'[k] \in TextsOf(k)
  <2>1. CASE k = i
    <3>1. future'[k] = r /\ enriched'[k] = t
      BY <2>1, <1>1
    <3> QED
      BY <2>1, <3>1
  <2>2. CASE k # i
    <3>1. future'[k] = future[k] /\ enriched'[k] = enriched[k]
      BY <2>2, <1>1
    <3> QED
      BY <3>1, <1>1
  <2> QED
    BY <2>1, <2>2
<1>5. DOMAIN future' = Chunks /\ DOMAIN enriched' = Chunks
  BY <1>3
<1>6. (\A k \in Chunks : future'[k] \in FutureSet) /\ (\A k \in Chunks : enriched'[k] \in Text)
  BY <1>3
<1>7. pc' = "enriching"
  OBVIOUS
<1>8. ASSUME NEW k \in Chunks'
      PROVE  /\ future'[k].state \in {"ready", "collected"} => future'[k].text \in TextsOf(k)'
             /\ future'[k].state = "collected" => enriched'[k] \in TextsOf(k)'
  BY <1>2, <1>4
<1> QED
  BY <1>2, <1>3, <1>5, <1>6, <1>7, <1>8 DEF PoolInv

LEMMA TakeTaskKeeps ==
  ASSUME PrepInv, NEW i \in Chunks, TakeTask(i)
  PROVE  PoolInv'
<1>1. /\ pc = "enriching" /\ pc' = pc /\ chunked' = chunked /\ enriched' = enriched
      /\ future' = [future EXCEPT ![i].state = "running"]
  BY DEF TakeTask
<1>2. future \in [Chunks -> FutureSet] /\ enriched \in [Chunks -> Text]
  BY <1>1 DEF PrepInv, PoolInv
<1>3. PICK r : r = [future[i] EXCEPT !.state = "running"]
  OBVIOUS
<1>4. future[i] \in FutureSet /\ "running" \in FutureStates
  BY <1>2 DEF FutureStates
<1>5. r \in FutureSet /\ r.state = "running"
  BY <1>3, <1>4, FutureMoves
<1>6. future' = [future EXCEPT ![i] = r]
  BY <1>1, <1>3
<1>7. enriched' = [enriched EXCEPT ![i] = enriched[i]] /\ enriched[i] \in Text
  BY <1>1, <1>2
<1> QED
  BY <1>1, <1>5, <1>6, <1>7, PoolMoves

LEMMA ThrottledKeeps ==
  ASSUME PrepInv, NEW i \in Chunks, Throttled(i)
  PROVE  PoolInv'
<1>1. /\ pc = "enriching" /\ pc' = pc /\ chunked' = chunked /\ enriched' = enriched
      /\ future[i].state = "running" /\ future[i].tries < MaxRetries - 1
      /\ future' = [future EXCEPT ![i].tries = @ + 1]
  BY DEF Throttled
<1>2. future \in [Chunks -> FutureSet] /\ enriched \in [Chunks -> Text]
  BY <1>1 DEF PrepInv, PoolInv
<1>3. PICK r : r = [future[i] EXCEPT !.tries = future[i].tries + 1]
  OBVIOUS
<1>4. future[i] \in FutureSet
  BY <1>2
<1>5. r \in FutureSet /\ r.state = "running"
  BY <1>1, <1>3, <1>4, FutureRetries
<1>6. future' = [future EXCEPT ![i] = r]
  BY <1>1, <1>3
<1>7. enriched' = [enriched EXCEPT ![i] = enriched[i]] /\ enriched[i] \in Text
  BY <1>1, <1>2
<1> QED
  BY <1>1, <1>5, <1>6, <1>7, PoolMoves

LEMMA EnrichKeeps ==
  ASSUME PrepInv, NEW i \in Chunks, Enrich(i)
  PROVE  PoolInv'
<1>1. /\ pc = "enriching" /\ pc' = pc /\ chunked' = chunked /\ enriched' = enriched
  BY DEF Enrich
<1>0. PICK text \in TextsOf(i) :
        future' = [future EXCEPT ![i].state = "ready", ![i].text = text]
  BY DEF Enrich, TextsOf
<1>2. future \in [Chunks -> FutureSet] /\ enriched \in [Chunks -> Text]
  BY <1>1 DEF PrepInv, PoolInv
<1>3. PICK f : f = future[i]
  OBVIOUS
<1>4. f \in FutureSet /\ text \in Text
  BY <1>2, <1>3, TextsAre DEF PrepInv
<1>5. PICK r : r = [state |-> "ready", tries |-> f.tries, text |-> text]
  OBVIOUS
<1>6. r \in FutureSet /\ r.state = "ready" /\ r.text = text
  BY <1>4, <1>5, FutureEnds
<1>7. future' = [future EXCEPT ![i] = r]
  <2>1. f = [state |-> f.state, tries |-> f.tries, text |-> f.text]
    BY <1>4 DEF FutureSet
  <2>2. [[f EXCEPT !.state = "ready"] EXCEPT !.text = text] = r
    <3>1. PICK q : q = [f EXCEPT !.state = "ready"]
      OBVIOUS
    <3>2. q = [state |-> "ready", tries |-> f.tries, text |-> f.text]
      BY <2>1, <3>1
    <3>3. [q EXCEPT !.text = text] = r
      BY <1>5, <3>2
    <3> QED
      BY <3>1, <3>3
  <2>3. future' = [future EXCEPT ![i] = [[f EXCEPT !.state = "ready"] EXCEPT !.text = text]]
    BY <1>0, <1>2, <1>3
  <2> QED
    BY <2>2, <2>3
<1>8. enriched' = [enriched EXCEPT ![i] = enriched[i]] /\ enriched[i] \in Text
  BY <1>1, <1>2
<1> QED
  BY <1>1, <1>6, <1>7, <1>8, PoolMoves

LEMMA CollectKeeps ==
  ASSUME PrepInv, NEW i \in Chunks, Collect(i)
  PROVE  PoolInv'
<1>1. /\ pc = "enriching" /\ pc' = pc /\ chunked' = chunked
      /\ future[i].state = "ready"
      /\ enriched' = [enriched EXCEPT ![i] = future[i].text]
      /\ future' = [future EXCEPT ![i].state = "collected"]
  BY DEF Collect
<1>2. /\ future \in [Chunks -> FutureSet]
      /\ future[i].text \in TextsOf(i)
  BY <1>1 DEF PrepInv, PoolInv
<1>3. PICK r : r = [future[i] EXCEPT !.state = "collected"]
  OBVIOUS
<1>4. future[i] \in FutureSet /\ "collected" \in FutureStates
  BY <1>2 DEF FutureStates
<1>5. r \in FutureSet /\ r.state = "collected" /\ r.text = future[i].text
  BY <1>3, <1>4, FutureMoves
<1>6. future' = [future EXCEPT ![i] = r]
  BY <1>1, <1>3
<1>7. future[i].text \in Text
  BY <1>2, TextsAre DEF PrepInv
<1> QED
  BY <1>1, <1>2, <1>5, <1>6, <1>7, PoolMoves

LEMMA ChunkKeeps ==
  ASSUME PrepInv, Chunk
  PROVE  PrepInv'
<1>1. PICK made \in {StrategyFixed(pages), StrategyHierarchical(pages)} :
        /\ pc = "parsed" /\ chunked' = made
        /\ pc' = IF made.chunks = <<>> THEN "failed" ELSE "chunked"
        /\ UNCHANGED <<pages, future, enriched, tries, vectors, sent, results, short, long>>
  BY DEF Chunk
<1>2. Len(made.chunks) \in Nat
  BY <1>1, MadeType, MadeChunks DEF PrepInv
<1>3. sent = 0
  <2>1. Len(chunked.chunks) = 0
    <3>1. chunked.chunks = <<>>
      BY <1>1 DEF PrepInv, MadeInv, Nothing
    <3> QED
      BY <3>1
  <2> QED
    BY <2>1 DEF PrepInv, VectorInv
<1>4. pc' \in {"failed", "chunked"} /\ chunked'.chunks = made.chunks
  BY <1>1
<1>5. StateInv'
  BY <1>1, <1>4 DEF PrepInv, StateInv
<1>6. MadeInv'
  BY <1>1, <1>4 DEF MadeInv
<1>7. PoolInv'
  BY <1>1, <1>4 DEF PrepInv, PoolInv
<1>8. VectorInv'
  <2>1. sent' \in 0..Len(chunked'.chunks)
    BY <1>1, <1>2, <1>3, <1>4
  <2> QED
    BY <1>1, <2>1 DEF PrepInv, VectorInv
<1>9. DoneInv'
  BY <1>4 DEF DoneInv
<1> QED
  BY <1>5, <1>6, <1>7, <1>8, <1>9 DEF PrepInv

\* After chunking the document and what was made of it stay.
LEMMA MadeStays ==
  ASSUME PrepInv, pc # "parsed", pc' # "parsed", pages' = pages, chunked' = chunked
  PROVE  MadeInv'
<1>1. MadeInv
  BY DEF PrepInv
<1> QED
  BY <1>1 DEF MadeInv

LEMMA VectorsStay ==
  ASSUME PrepInv, chunked' = chunked, vectors' = vectors, sent' = sent, short' = short, long' = long
  PROVE  VectorInv'
BY DEF PrepInv, VectorInv

LEMMA StartPoolKeeps ==
  ASSUME PrepInv, StartPool
  PROVE  PoolInv'
<1>1. /\ pc' = "enriching" /\ chunked' = chunked
      /\ future' = [i \in Chunks |-> Queued] /\ enriched' = [i \in Chunks |-> NoText]
  BY DEF StartPool
<1>2. Queued \in FutureSet /\ Queued.state = "queued"
  <2>1. 0 \in 0..MaxRetries - 1
    BY ConstantsAssumption
  <2> QED
    BY <2>1, NoTextType DEF Queued, FutureSet, FutureStates
<1>3. Chunks' = Chunks
  BY <1>1, SameTexts
<1>4. /\ future' \in [Chunks -> FutureSet] /\ enriched' \in [Chunks -> Text]
      /\ DOMAIN future' = Chunks /\ DOMAIN enriched' = Chunks
  BY <1>1, <1>2, NoTextType
<1>5. \A i \in Chunks : future'[i].state = "queued"
  BY <1>1, <1>2
<1>6. (\A i \in Chunks : future'[i] \in FutureSet) /\ (\A i \in Chunks : enriched'[i] \in Text)
  BY <1>4
<1> QED
  BY <1>1, <1>3, <1>4, <1>5, <1>6 DEF PoolInv

LEMMA SkipContextKeeps ==
  ASSUME PrepInv, SkipContext
  PROVE  PoolInv'
<1>1. /\ pc' = "embedding" /\ chunked' = chunked /\ future' = future
      /\ enriched' = [i \in Chunks |-> EnrichedText(i, 0)]
  BY DEF SkipContext
<1>2. Chunks' = Chunks /\ \A i : TextsOf(i)' = TextsOf(i)
  BY <1>1, SameTexts
<1>3. ASSUME NEW i \in Chunks PROVE enriched'[i] \in TextsOf(i) /\ enriched'[i] \in Text
  <2>1. enriched'[i] = EnrichedText(i, 0)
    BY <1>1
  <2>2. EnrichedText(i, 0) \in TextsOf(i)
    BY DEF TextsOf
  <2> QED
    BY <2>1, <2>2, TextsAre DEF PrepInv
<1>4. enriched' \in [Chunks -> Text] /\ DOMAIN enriched' = Chunks
  BY <1>1, <1>3
<1>5. \A i \in DOMAIN future' : future'[i] \in FutureSet
  BY <1>1 DEF PrepInv, PoolInv
<1> QED
  BY <1>1, <1>2, <1>3, <1>4, <1>5 DEF PoolInv

\* When the pool is through every text is a chunk's own.
LEMMA PoolDoneKeeps ==
  ASSUME PrepInv, PoolDone
  PROVE  PoolInv'
<1>1. /\ pc = "enriching" /\ pc' = "embedding" /\ chunked' = chunked
      /\ future' = future /\ enriched' = enriched
      /\ \A i \in Chunks : future[i].state = "collected"
  BY DEF PoolDone
<1>2. Chunks' = Chunks /\ \A i : TextsOf(i)' = TextsOf(i)
  BY <1>1, SameTexts
<1>3. enriched \in [Chunks -> Text] /\ \A i \in Chunks : enriched[i] \in TextsOf(i)
  BY <1>1 DEF PrepInv, PoolInv
<1>4. /\ \A i \in DOMAIN future : future[i] \in FutureSet
      /\ \A i \in DOMAIN enriched : enriched[i] \in Text
  BY DEF PrepInv, PoolInv
<1> QED
  BY <1>1, <1>2, <1>3, <1>4 DEF PoolInv

\* The steps of the embedding call leave the texts alone.
LEMMA TextsStay ==
  ASSUME PrepInv, pc = "embedding", pc' # "enriching",
         chunked' = chunked, future' = future, enriched' = enriched
  PROVE  PoolInv'
<1>2. Chunks' = Chunks /\ \A i : TextsOf(i)' = TextsOf(i)
  BY SameTexts
<1>3. enriched \in [Chunks -> Text] /\ \A i \in Chunks : enriched[i] \in TextsOf(i)
  BY DEF PrepInv, PoolInv
<1>4. /\ \A i \in DOMAIN future : future[i] \in FutureSet
      /\ \A i \in DOMAIN enriched : enriched[i] \in Text
  BY DEF PrepInv, PoolInv
<1> QED
  BY <1>2, <1>3, <1>4 DEF PoolInv

LEMMA AssembleKeeps ==
  ASSUME PrepInv, Assemble
  PROVE  DoneInv'
<1>1. /\ pc = "embedding" /\ sent = Len(enriched)
      /\ chunked' = chunked /\ enriched' = enriched /\ vectors' = vectors /\ sent' = sent
  BY DEF Assemble
<1> SUFFICES ASSUME pc' = "done" PROVE DoneInv'
  BY DEF DoneInv
<1>2. /\ Len(vectors) = Len(enriched)
      /\ results' = [i \in Chunks |-> [vector |-> vectors[i], text |-> enriched[i], bm25 |-> i]]
  BY DEF Assemble
<1>3. Len(enriched) = Len(chunked.chunks)
  <2>1. PICK n : n = Len(chunked.chunks)
    OBVIOUS
  <2>2. n \in Nat /\ Chunks = 1..n
    BY <2>1, MadeType DEF PrepInv
  <2>3. enriched \in [Chunks -> Text]
    BY <1>1 DEF PrepInv, PoolInv
  <2>4. Len(enriched) = n
    BY <2>2, <2>3
  <2> QED
    BY <2>1, <2>4
<1>4. Chunks' = Chunks
  BY <1>1, SameTexts
<1> QED
  BY <1>1, <1>2, <1>3, <1>4 DEF DoneInv

\* Chunking, every step of the pool, every answer to a batch and the assembly
\* keep the invariant.
THEOREM PrepStep == PrepInv /\ [Next]_vars => PrepInv'
<1> SUFFICES ASSUME PrepInv, [Next]_vars PROVE PrepInv'
  OBVIOUS
<1>0. StateInv
  BY DEF PrepInv
<1>1. CASE Chunk
  BY <1>1, ChunkKeeps
<1>2. CASE StartPool \/ SkipContext \/ PoolDone
  <2>1. /\ pc \in {"chunked", "enriching"} /\ pc' \in {"enriching", "embedding"}
        /\ UNCHANGED <<pages, chunked, tries, vectors, sent, results, short, long>>
    BY <1>2 DEF StartPool, SkipContext, PoolDone
  <2>2. StateInv'
    BY <1>0, <2>1 DEF StateInv
  <2>3. MadeInv'
    BY <2>1, MadeStays
  <2>4. PoolInv'
    BY <1>2, StartPoolKeeps, SkipContextKeeps, PoolDoneKeeps
  <2>5. VectorInv'
    BY <2>1, VectorsStay
  <2>6. DoneInv'
    BY <2>1 DEF DoneInv
  <2> QED
    BY <2>2, <2>3, <2>4, <2>5, <2>6 DEF PrepInv
<1>3. CASE \E i \in Chunks : PoolStep(i)
  <2>1. PICK i \in Chunks : TakeTask(i) \/ Throttled(i) \/ Enrich(i) \/ Collect(i)
    BY <1>3 DEF PoolStep
  <2>2. /\ pc = "enriching" /\ pc' = "enriching"
        /\ UNCHANGED <<pages, chunked, tries, vectors, sent, results, short, long>>
    BY <2>1 DEF TakeTask, Throttled, Enrich, Collect
  <2>3. StateInv'
    BY <1>0, <2>2 DEF StateInv
  <2>4. MadeInv'
    BY <2>2, MadeStays
  <2>5. PoolInv'
    BY <2>1, TakeTaskKeeps, ThrottledKeeps, EnrichKeeps, CollectKeeps
  <2>6. VectorInv'
    BY <2>2, VectorsStay
  <2>7. DoneInv'
    BY <2>2 DEF DoneInv
  <2> QED
    BY <2>3, <2>4, <2>5, <2>6, <2>7 DEF PrepInv
<1>4. CASE EmbedBatch
  <2>1. /\ pc = "embedding" /\ pc' = "embedding"
        /\ UNCHANGED <<pages, chunked, future, enriched, results>>
    BY <1>4 DEF EmbedBatch
  <2>2. VectorInv' /\ tries' = 0 /\ short' \in BOOLEAN /\ long' \in BOOLEAN
    BY <1>4, EmbedBatchKeeps
  <2>3. StateInv'
    <3>1. 0 \in 0..MaxRetries - 1
      BY ConstantsAssumption
    <3> QED
      BY <1>0, <2>1, <2>2, <3>1 DEF StateInv
  <2>4. MadeInv'
    BY <2>1, MadeStays
  <2>5. PoolInv'
    BY <2>1, TextsStay
  <2>6. DoneInv'
    BY <2>1 DEF DoneInv
  <2> QED
    BY <2>2, <2>3, <2>4, <2>5, <2>6 DEF PrepInv
<1>5. CASE EmbedRetry
  <2>1. /\ pc = "embedding" /\ pc' = "embedding" /\ tries < MaxRetries - 1 /\ tries' = tries + 1
        /\ UNCHANGED <<pages, chunked, future, enriched, vectors, sent, results, short, long>>
    BY <1>5 DEF EmbedRetry
  <2>2. StateInv'
    <3>1. tries' \in 0..MaxRetries - 1
      BY <1>0, <2>1, ConstantsAssumption DEF StateInv
    <3> QED
      BY <1>0, <2>1, <3>1 DEF StateInv
  <2>3. MadeInv'
    BY <2>1, MadeStays
  <2>4. PoolInv'
    BY <2>1, TextsStay
  <2>5. VectorInv'
    BY <2>1, VectorsStay
  <2>6. DoneInv'
    BY <2>1 DEF DoneInv
  <2> QED
    BY <2>2, <2>3, <2>4, <2>5, <2>6 DEF PrepInv
<1>6. CASE EmbedFails \/ Assemble
  <2>1. /\ pc = "embedding" /\ pc' \in {"done", "failed"}
        /\ UNCHANGED <<pages, chunked, future, enriched, tries, vectors, sent, short, long>>
    BY <1>6 DEF EmbedFails, Assemble
  <2>2. StateInv'
    BY <1>0, <2>1 DEF StateInv
  <2>3. MadeInv'
    BY <2>1, MadeStays
  <2>4. PoolInv'
    BY <2>1, TextsStay
  <2>5. VectorInv'
    BY <2>1, VectorsStay
  <2>6. DoneInv'
    <3>1. CASE EmbedFails
      BY <3>1 DEF EmbedFails, DoneInv
    <3>2. CASE Assemble
      BY <3>2, AssembleKeeps
    <3> QED
      BY <1>6, <3>1, <3>2
  <2> QED
    BY <2>2, <2>3, <2>4, <2>5, <2>6 DEF PrepInv
<1>7. CASE UNCHANGED vars
  <2>1. UNCHANGED <<pages, pc, chunked, future, enriched, tries, vectors, sent, results, short, long>>
    BY <1>7 DEF vars
  <2>2. StateInv'
    BY <1>0, <2>1 DEF StateInv
  <2>3. MadeInv'
    BY <2>1 DEF PrepInv, MadeInv
  <2>4. Chunks' = Chunks /\ \A i : TextsOf(i)' = TextsOf(i)
    BY <2>1, SameTexts
  <2>5. PoolInv'
    BY <2>1, <2>4 DEF PrepInv, PoolInv
  <2>6. VectorInv'
    BY <2>1, VectorsStay
  <2>7. DoneInv'
    BY <2>1, <2>4 DEF PrepInv, DoneInv
  <2> QED
    BY <2>2, <2>3, <2>5, <2>6, <2>7 DEF PrepInv
<1> QED
  BY <1>1, <1>2, <1>3, <1>4, <1>5, <1>6, <1>7 DEF Next

\* The inductive invariant of chunk_document and embed_chunks.
THEOREM PrepAlways == Spec => []PrepInv
BY PrepInit, PrepStep, PTL DEF Spec

-----------------------------------------------------------------------------
(* The theorems.                                                           *)

\* Every state of the pool and of the embedding call is of its type, and no task
\* and no batch is tried more often than MaxRetries allows.
THEOREM PreparationTypes == Spec => []TypeOK
<1>1. PrepInv => TypeOK
  BY DEF PrepInv, StateInv, PoolInv, VectorInv, TypeOK, FutureSet
<1> QED
  BY <1>1, PrepAlways, PTL

\* Whatever answers the model gives to whatever batches, in whatever order the
\* pool ends: a document that is uploaded has each chunk with its own text, and
\* with its own vector unless a short batch and a long one made up the total.
THEOREM VectorsAreOwn == Spec => []OwnVectors
<1>1. PrepInv => OwnVectors
  <2> SUFFICES ASSUME PrepInv, pc = "done" PROVE OwnVectors
    BY DEF OwnVectors
  <2>1. PICK n : n = Len(chunked.chunks)
    OBVIOUS
  <2>2. n \in Nat /\ Chunks = 1..n
    BY <2>1, MadeType DEF PrepInv
  <2>3. /\ sent = n /\ Len(vectors) = n
        /\ results = [i \in 1..n |-> [vector |-> vectors[i], text |-> enriched[i], bm25 |-> i]]
    BY <2>1, <2>2 DEF PrepInv, DoneInv
  <2>4. Len(results) = n
    BY <2>2, <2>3
  <2>5. ASSUME NEW i \in Chunks PROVE results[i].text = enriched[i] /\ results[i].vector = vectors[i]
    BY <2>2, <2>3
  <2>6. ASSUME NEW i \in Chunks PROVE enriched[i].chunk = i
    <3>1. enriched[i] \in TextsOf(i)
      BY DEF PrepInv, PoolInv
    <3> QED
      BY <3>1, TextsAre DEF PrepInv
  <2>7. (short /\ long) \/ \A k \in 1..n : vectors[k] = k
    BY <2>2, <2>3 DEF PrepInv, VectorInv
  <2>8. ASSUME NEW i \in Chunks
        PROVE  results[i].text.chunk = i /\ (results[i].vector = i \/ (short /\ long))
    <3>1. (short /\ long) \/ vectors[i] = i
      BY <2>2, <2>7, Zenon
    <3> QED
      BY <3>1, <2>5, <2>6, Zenon
  <2> QED
    BY <2>1, <2>4, <2>8, Zenon DEF OwnVectors
<1> QED
  BY <1>1, PrepAlways, PTL

LEMMA GroupsNumbered ==
  ASSUME NEW s, Numbered(s), NEW size \in Nat, NEW overlap \in Nat,
         NEW g, g = BuildChunkGroups(s, size, overlap), NEW i \in 1..Len(g)
  PROVE  Numbered(g[i])
<1>1. s \in Seq(Sentence)
  BY DEF Numbered
<1>2. s # <<>>
  <2>1. CASE s = <<>>
    <3>1. g = <<>>
      BY <1>1, <2>1, GroupsAreRuns
    <3>2. Len(g) = 0
      BY <3>1
    <3> QED
      BY <3>2
  <2> QED
    BY <2>1
<1>3. PICK first, last : Runs(g, s, Len(s), first, last, size, overlap)
  BY <1>1, <1>2, GroupsAreRuns
<1>4. PICK a, b, t : a = first[i] /\ b = last[i] /\ t = g[i]
  OBVIOUS
<1>5. a \in Nat /\ b \in Nat /\ 1 <= a /\ a <= b /\ b <= Len(s) /\ IsRun(t, s, a, b)
  BY <1>3, <1>4 DEF Runs, IsRun
<1>6. Numbered(t)
  BY <1>5, RunPlace
<1> QED
  BY <1>4, <1>6

LEMMA NoGroupsNoSentences ==
  ASSUME NEW s \in Seq(Sentence), NEW size \in Nat, NEW overlap \in Nat,
         BuildChunkGroups(s, size, overlap) = <<>>
  PROVE  s = <<>>
<1>1. CASE s # <<>>
  <2>1. PICK first, last : Runs(<<>>, s, Len(s), first, last, size, overlap)
    BY <1>1, GroupsAreRuns
  <2>2. Len(<<>>) # 0
    BY <2>1, Zenon DEF Runs
  <2> QED
    BY <2>2
<1> QED
  BY <1>1

\* The groups of chunks m + 1 to n.
GroupsOf(made, m, n) == [k \in 1..n - m |-> made.chunks[m + k].group]

LEMMA FixedCovers ==
  ASSUME NEW doc \in Seq(Seq(Nat)), NEW made, made = StrategyFixed(doc)
  PROVE  /\ made.parents = <<>>
         /\ \A k \in 1..Len(made.chunks) : made.chunks[k].parent = 0
         /\ IsGrouping(GroupsOf(made, 0, Len(made.chunks)), SentencesWithPages(doc),
                       FixedSize, FixedOverlap)
<1>1. PICK s, g : s = SentencesWithPages(doc) /\ g = BuildChunkGroups(s, FixedSize, FixedOverlap)
  OBVIOUS
<1>2. Numbered(s) /\ s \in Seq(Sentence)
  BY <1>1, SentencesType DEF Numbered
<1>3. /\ made.parents = <<>> /\ Len(made.chunks) = Len(g)
      /\ \A i \in 1..Len(g) : made.chunks[i].group = g[i] /\ made.chunks[i].parent = 0
  BY <1>1, FixedIs
<1>4. g \in Seq(Seq(Sentence))
  BY <1>1, <1>2, SizesNat, GroupsAreRuns
<1>5. GroupsOf(made, 0, Len(made.chunks)) = g
  <2>1. PICK n, h : n = Len(g) /\ h = GroupsOf(made, 0, n)
    OBVIOUS
  <2>2. n \in Nat /\ n - 0 = n /\ g = [k \in 1..n |-> g[k]]
    BY <2>1, <1>4
  <2>3. h = [k \in 1..n |-> made.chunks[0 + k].group]
    BY <2>1, <2>2 DEF GroupsOf
  <2>4. ASSUME NEW k \in 1..n PROVE h[k] = g[k]
    <3>1. 0 + k = k
      OBVIOUS
    <3> QED
      BY <3>1, <2>1, <2>3, <1>3
  <2>5. h = g
    BY <2>2, <2>3, <2>4
  <2> QED
    BY <2>1, <2>5, <1>3
<1>6. IsGrouping(g, s, FixedSize, FixedOverlap)
  BY <1>1, <1>2, SizesNat, GroupsAreGrouping
<1> QED
  BY <1>1, <1>3, <1>5, <1>6

LEMMA HierarchicalCovers ==
  ASSUME NEW doc \in Seq(Seq(Nat)), NEW made, made = StrategyHierarchical(doc), made.parents # <<>>
  PROVE  /\ IsGrouping(made.parents, SentencesWithPages(doc), ParentSize, ParentOverlap)
         /\ \A k \in 1..Len(made.chunks) : made.chunks[k].parent \in DOMAIN made.parents
         /\ \A i \in DOMAIN made.parents : \E m, n \in 0..Len(made.chunks) :
              /\ m <= n /\ {k \in 1..Len(made.chunks) : made.chunks[k].parent = i} = m + 1..n
              /\ IsGrouping(GroupsOf(made, m, n), made.parents[i], ChildSize, ChildOverlap)
<1>1. PICK s, p : s = SentencesWithPages(doc) /\ p = BuildChunkGroups(s, ParentSize, ParentOverlap)
  OBVIOUS
<1>2. Numbered(s) /\ s \in Seq(Sentence)
  BY <1>1, SentencesType DEF Numbered
<1>3. PICK off : HierarchicalIs(made, p, off)
  BY <1>1, HierarchicalOf
<1>4. p \in Seq(Seq(Sentence)) /\ made.parents = p /\ made.chunks \in Seq(ChunkSet)
  BY <1>1, <1>2, <1>3, SizesNat, GroupsAreRuns DEF HierarchicalIs
<1> DEFINE c == made.chunks
           total == Len(made.chunks)
<1>5. c = made.chunks /\ total = Len(made.chunks)
  OBVIOUS
<1> HIDE DEF c, total
<1>6. Len(p) \in Nat /\ DOMAIN p = 1..Len(p) /\ total \in Nat
  BY <1>4, <1>5
<1>7. /\ off \in [0..Len(p) -> Nat]
      /\ \A i \in 1..Len(p) :
           /\ off[i] = off[i - 1] + Len(BuildChunkGroups(p[i], ChildSize, ChildOverlap))
           /\ off[i] <= total
           /\ \A j \in 1..off[i] - off[i - 1] :
                /\ c[off[i - 1] + j].parent = i
                /\ c[off[i - 1] + j].group = BuildChunkGroups(p[i], ChildSize, ChildOverlap)[j]
      /\ \A k \in 1..total : \E i \in 1..Len(p) : off[i - 1] < k /\ k <= off[i]
  BY <1>3, Zenon DEF HierarchicalIs, c, total
<1>8. ASSUME NEW i \in 1..Len(p)
      PROVE  off[i - 1] \in Nat /\ off[i] \in Nat
  <2>1. i - 1 \in 0..Len(p) /\ i \in 0..Len(p)
    BY <1>6
  <2> QED
    BY <2>1, <1>7
<1>9. ASSUME NEW k \in 1..total, NEW i \in 1..Len(p), off[i - 1] < k, k <= off[i]
      PROVE  c[k].parent = i
  <2>1. PICK j : j = k - off[i - 1]
    OBVIOUS
  <2>2. j \in 1..off[i] - off[i - 1] /\ off[i - 1] + j = k
    BY <2>1, <1>8, <1>9
  <2> QED
    BY <2>2, <1>7
<1>10. ASSUME NEW k \in 1..total PROVE c[k].parent \in DOMAIN p
  <2>1. PICK i \in 1..Len(p) : off[i - 1] < k /\ k <= off[i]
    BY <1>7, Zenon
  <2>2. c[k].parent = i
    BY <2>1, <1>9, Zenon
  <2> QED
    BY <2>2, <1>6
<1>11. IsGrouping(p, s, ParentSize, ParentOverlap)
  BY <1>1, <1>2, SizesNat, GroupsAreGrouping
<1>12. ASSUME NEW i \in 1..Len(p)
       PROVE  \E m, n \in 0..total :
                /\ m <= n /\ {k \in 1..total : c[k].parent = i} = m + 1..n
                /\ IsGrouping(GroupsOf(made, m, n), p[i], ChildSize, ChildOverlap)
  <2>1. PICK m, n, g : m = off[i - 1] /\ n = off[i] /\ g = BuildChunkGroups(p[i], ChildSize, ChildOverlap)
    OBVIOUS
  <2>2. Numbered(p[i]) /\ p[i] \in Seq(Sentence)
    <3>1. Numbered(p[i])
      BY <1>1, <1>2, SizesNat, GroupsNumbered
    <3> QED
      BY <3>1 DEF Numbered
  <2>3. g \in Seq(Seq(Sentence)) /\ Len(g) \in Nat
    <3>1. g \in Seq(Seq(Sentence))
      BY <2>1, <2>2, SizesNat, GroupsAreRuns
    <3> QED
      BY <3>1
  <2>4. m \in Nat /\ n \in Nat /\ n = m + Len(g) /\ n <= total
    BY <2>1, <1>7, <1>8
  <2>5. ASSUME NEW j \in 1..n - m PROVE c[m + j].parent = i /\ c[m + j].group = g[j]
    BY <2>1, <1>7
  <2>6. ASSUME NEW k \in 1..total, c[k].parent = i PROVE k \in m + 1..n
    <3>1. PICK l \in 1..Len(p) : off[l - 1] < k /\ k <= off[l]
      BY <1>7
    <3>2. c[k].parent = l
      BY <3>1, <1>9
    <3>3. l = i
      BY <3>2, <2>6
    <3>4. m < k /\ k <= n
      BY <3>1, <3>3, <2>1
    <3> QED
      BY <3>4, <2>4
  <2>7. ASSUME NEW k \in m + 1..n PROVE k \in 1..total /\ c[k].parent = i
    <3>1. k \in 1..total
      BY <2>4, <1>6
    <3>2. off[i - 1] < k /\ k <= off[i]
      BY <2>1, <2>4
    <3> QED
      BY <3>1, <3>2, <1>9
  <2>8. {k \in 1..total : c[k].parent = i} = m + 1..n
    BY <2>6, <2>7
  <2>9. GroupsOf(made, m, n) = g
    <3>1. PICK h, b : h = GroupsOf(made, m, n) /\ b = Len(g)
      OBVIOUS
    <3>2. n - m = b /\ b \in Nat
      BY <2>3, <2>4, <3>1
    <3>3. h = [k \in 1..b |-> c[m + k].group]
      BY <3>1, <3>2, <1>5 DEF GroupsOf
    <3>4. g = [k \in 1..b |-> g[k]]
      BY <2>3, <3>1
    <3>5. \A k \in 1..b : h[k] = g[k]
      BY <3>2, <3>3, <2>5
    <3> QED
      BY <3>1, <3>3, <3>4, <3>5
  <2>10. IsGrouping(g, p[i], ChildSize, ChildOverlap)
    BY <2>1, <2>2, SizesNat, GroupsAreGrouping
  <2>11. m \in 0..total /\ n \in 0..total /\ m <= n
    BY <2>3, <2>4, <1>6
  <2> QED
    BY <2>8, <2>9, <2>10, <2>11
<1>13. /\ IsGrouping(p, s, ParentSize, ParentOverlap)
       /\ \A k \in 1..total : c[k].parent \in DOMAIN p
       /\ \A i \in DOMAIN p : \E m, n \in 0..total :
            /\ m <= n /\ {k \in 1..total : c[k].parent = i} = m + 1..n
            /\ IsGrouping(GroupsOf(made, m, n), p[i], ChildSize, ChildOverlap)
  BY <1>6, <1>10, <1>11, <1>12, Zenon
<1> QED
  BY <1>1, <1>4, <1>13, Zenon DEF c, total

\* ChunksCoverDocument, of a document and what was made of it.
Covers(made, doc) ==
  LET sentences == SentencesWithPages(doc)
      total == Len(made.chunks)
  IN IF made.parents = <<>>
     THEN /\ \A k \in DOMAIN made.chunks : made.chunks[k].parent = 0
          /\ IsGrouping(GroupsOf(made, 0, total), sentences, FixedSize, FixedOverlap)
     ELSE /\ IsGrouping(made.parents, sentences, ParentSize, ParentOverlap)
          /\ \A k \in DOMAIN made.chunks : made.chunks[k].parent \in DOMAIN made.parents
          /\ \A i \in DOMAIN made.parents : \E m, n \in 0..total :
               /\ m <= n /\ {k \in DOMAIN made.chunks : made.chunks[k].parent = i} = m + 1..n
               /\ IsGrouping(GroupsOf(made, m, n), made.parents[i], ChildSize, ChildOverlap)

LEMMA CoversIs ==
  ASSUME pc # "parsed" => Covers(chunked, pages)
  PROVE  ChunksCoverDocument
BY Zenon DEF ChunksCoverDocument, Covers, GroupsOf, Chunks

\* For any document and any counts of its sentences: whichever strategy chunks
\* it, the chunks or, parent by parent, the children are runs of its sentences
\* without a gap, within their sizes but for the one sentence that follows an
\* overlap, and with the longest overlap that fits.
THEOREM ChunksCover == Spec => []ChunksCoverDocument
<1>1. PrepInv => ChunksCoverDocument
  <2> SUFFICES ASSUME PrepInv, pc # "parsed" PROVE Covers(chunked, pages)
    BY CoversIs
  <2>1. /\ pages \in Seq(Seq(Nat)) /\ Len(chunked.chunks) \in Nat
        /\ DOMAIN chunked.chunks = 1..Len(chunked.chunks)
    BY MadeType DEF PrepInv, Chunks
  <2> DEFINE total == Len(chunked.chunks)
  <2>2. CASE chunked = StrategyFixed(pages)
    <3>1. /\ chunked.parents = <<>>
          /\ \A k \in 1..total : chunked.chunks[k].parent = 0
          /\ IsGrouping(GroupsOf(chunked, 0, total), SentencesWithPages(pages),
                        FixedSize, FixedOverlap)
      BY <2>1, <2>2, FixedCovers
    <3> QED
      BY <2>1, <3>1, Zenon DEF Covers
  <2>3. CASE chunked = StrategyHierarchical(pages) /\ chunked.parents # <<>>
    <3>1. /\ IsGrouping(chunked.parents, SentencesWithPages(pages), ParentSize, ParentOverlap)
          /\ \A k \in 1..total : chunked.chunks[k].parent \in DOMAIN chunked.parents
          /\ \A i \in DOMAIN chunked.parents : \E m, n \in 0..total :
               /\ m <= n /\ {k \in 1..total : chunked.chunks[k].parent = i} = m + 1..n
               /\ IsGrouping(GroupsOf(chunked, m, n), chunked.parents[i], ChildSize, ChildOverlap)
      BY <2>1, <2>3, HierarchicalCovers
    <3> QED
      BY <2>1, <2>3, <3>1, Zenon DEF Covers
  <2>4. CASE chunked = StrategyHierarchical(pages) /\ chunked.parents = <<>>
    <3>1. PICK s, p : s = SentencesWithPages(pages) /\ p = BuildChunkGroups(s, ParentSize, ParentOverlap)
      OBVIOUS
    <3>2. Numbered(s) /\ s \in Seq(Sentence)
      BY <2>1, <3>1, SentencesType DEF Numbered
    <3>3. PICK off : HierarchicalIs(chunked, p, off)
      BY <2>1, <2>4, <3>1, HierarchicalOf
    <3>4. p = <<>> /\ total = 0
      <4>1. p = <<>>
        BY <2>4, <3>3 DEF HierarchicalIs
      <4>2. Len(p) = 0
        BY <4>1
      <4> QED
        BY <3>3, <4>1, <4>2 DEF HierarchicalIs
    <3>5. s = <<>>
      BY <3>1, <3>2, <3>4, SizesNat, NoGroupsNoSentences
    <3>6. GroupsOf(chunked, 0, total) = <<>>
      <4>1. 1..total - 0 = {}
        BY <3>4
      <4> QED
        BY <4>1 DEF GroupsOf
    <3>7. IsGrouping(<<>>, s, FixedSize, FixedOverlap)
      <4>1. BuildChunkGroups(s, FixedSize, FixedOverlap) = <<>>
        BY <3>2, <3>5, SizesNat, GroupsAreRuns
      <4>2. IsGrouping(BuildChunkGroups(s, FixedSize, FixedOverlap), s, FixedSize, FixedOverlap)
        BY <3>2, SizesNat, GroupsAreGrouping
      <4> QED
        BY <4>1, <4>2
    <3>8. /\ \A k \in DOMAIN chunked.chunks : chunked.chunks[k].parent = 0
          /\ IsGrouping(GroupsOf(chunked, 0, total), SentencesWithPages(pages),
                        FixedSize, FixedOverlap)
      <4>1. DOMAIN chunked.chunks = {}
        BY <2>1, <3>4
      <4> QED
        BY <4>1, <3>1, <3>6, <3>7, Zenon
    <3> QED
      BY <2>4, <3>8, Zenon DEF Covers
  <2> QED
    BY <2>2, <2>3, <2>4 DEF PrepInv, MadeInv
<1> QED
  BY <1>1, PrepAlways, PTL

\* Every sentence of an uploaded document is in a parent, or whole in the text of
\* a chunk, or ends so late in each of its chunks that a context can push it out.
THEOREM SentencesStored == Spec => []EverySentenceStored
<1>1. PrepInv => EverySentenceStored
  <2> SUFFICES ASSUME PrepInv, pc = "done", NEW x \in ToSet(SentencesWithPages(pages)),
                      ~ InParent(x),
                      ~ \E i \in Chunks : \E end \in EndsIn(i, x) : end <= results[i].text.kept
               PROVE  /\ \E i \in Chunks : EndsIn(i, x) # {}
                      /\ \A i \in Chunks : \A end \in EndsIn(i, x) :
                           \E c \in ContextSizes \cup {0} : end + c > EmbeddingTokenLimit
    BY Zenon DEF EverySentenceStored
  <2>0. /\ pages \in Seq(Seq(Nat)) /\ Len(chunked.chunks) \in Nat
        /\ Chunks = 1..Len(chunked.chunks)
    BY MadeType DEF PrepInv
  <2>1. PICK s : s = SentencesWithPages(pages)
    OBVIOUS
  <2>2. s \in Seq(Sentence) /\ Len(s) \in Nat /\ DOMAIN s = 1..Len(s)
    <3>1. s \in Seq(Sentence)
      BY <2>0, <2>1, SentencesType DEF Numbered
    <3> QED
      BY <3>1
  <2>3. PICK q \in 1..Len(s) : x = s[q]
    BY <2>1, <2>2 DEF ToSet
  <2>4. CASE chunked = StrategyHierarchical(pages)
    <3>1. PICK p : p = BuildChunkGroups(s, ParentSize, ParentOverlap)
      OBVIOUS
    <3>2. PICK i \in 1..Len(p) : \E j \in 1..Len(p[i]) : p[i][j] = x
      BY <2>2, <2>3, <3>1, SizesNat, GroupsCover
    <3>3. PICK j \in 1..Len(p[i]) : p[i][j] = x
      BY <3>2
    <3>4. p \in Seq(Seq(Sentence)) /\ chunked.parents = p
      <4>1. PICK off : HierarchicalIs(chunked, p, off)
        BY <2>0, <2>1, <2>4, <3>1, HierarchicalOf
      <4> QED
        BY <4>1, <2>2, <3>1, SizesNat, GroupsAreRuns DEF HierarchicalIs
    <3>5. i \in DOMAIN p /\ p[i] \in Seq(Sentence)
      BY <3>4
    <3>6. j \in DOMAIN p[i]
      BY <3>5
    <3>7. InParent(x)
      BY <3>3, <3>4, <3>5, <3>6 DEF InParent, ToSet
    <3> QED
      BY <3>7
  <2>5. CASE chunked = StrategyFixed(pages)
    <3>1. PICK g : g = BuildChunkGroups(s, FixedSize, FixedOverlap)
      OBVIOUS
    <3>2. PICK i \in 1..Len(g) : \E j \in 1..Len(g[i]) : g[i][j] = x
      BY <2>2, <2>3, <3>1, SizesNat, GroupsCover
    <3>3. PICK j \in 1..Len(g[i]) : g[i][j] = x
      BY <3>2
    <3>4. g \in Seq(Seq(Sentence)) /\ Len(chunked.chunks) = Len(g) /\ chunked.chunks[i].group = g[i]
      <4>1. g \in Seq(Seq(Sentence))
        BY <2>2, <3>1, SizesNat, GroupsAreRuns
      <4>2. Len(chunked.chunks) = Len(g) /\ chunked.chunks[i].group = g[i]
        BY <2>0, <2>1, <2>5, <3>1, FixedIs
      <4> QED
        BY <4>1, <4>2
    <3>5. i \in Chunks /\ j \in DOMAIN g[i]
      BY <2>0, <3>4
    <3>6. EndsIn(i, x) # {}
      BY <3>3, <3>4, <3>5 DEF EndsIn
    <3>7. ASSUME NEW k \in Chunks, NEW end \in EndsIn(k, x)
          PROVE  \E c \in ContextSizes \cup {0} : end + c > EmbeddingTokenLimit
      <4>1. PICK group : group = chunked.chunks[k].group
        OBVIOUS
      <4>2. group \in Seq(Sentence) /\ ChunkTokens(k) = TokensOf(group)
        BY <4>1, ChunkTokensNat DEF PrepInv, ChunkTokens
      <4>3. PICK l \in DOMAIN group : end = TokensOf(SubSeq(group, 1, l))
        BY <4>1 DEF EndsIn
      <4>4. l \in 0..Len(group)
        BY <4>2
      <4>5. end \in Nat /\ end <= ChunkTokens(k)
        BY <4>2, <4>3, <4>4, TokensPrefix
      <4>6. PICK t : t = results[k].text
        OBVIOUS
      <4>7. t \in TextsOf(k)
        <5>1. enriched[k] \in TextsOf(k) /\ results[k].text = enriched[k]
          BY DEF PrepInv, PoolInv, DoneInv
        <5> QED
          BY <4>6, <5>1
      <4>8. /\ t.kept \in Nat
            /\ \/ t.kept = ChunkTokens(k)
               \/ \E c \in ContextSizes \cup {0} : t.kept = EmbeddingTokenLimit - c
        <5>1. t \in Text
          BY <4>7, TextsAre DEF PrepInv
        <5> QED
          BY <4>7, <5>1, TextsAre DEF PrepInv, Text
      <4>9. ~ (end <= t.kept)
        BY <4>6
      <4>10. PICK c \in ContextSizes \cup {0} : t.kept = EmbeddingTokenLimit - c
        BY <4>5, <4>8, <4>9
      <4>11. c \in Nat /\ EmbeddingTokenLimit \in Nat
        <5>1. EmbeddingTokenLimit \in Nat
          BY DEF EmbeddingTokenLimit
        <5>2. c \in (1..(EmbeddingTokenLimit - 1)) \cup {0}
          BY ConstantsAssumption, Zenon
        <5> QED
          BY <5>1, <5>2
      <4>12. end + c > EmbeddingTokenLimit
        BY <4>5, <4>8, <4>9, <4>10, <4>11
      <4> QED
        BY <4>12
    <3> QED
      BY <3>5, <3>6, <3>7
  <2> QED
    BY <2>4, <2>5 DEF PrepInv, MadeInv
<1> QED
  BY <1>1, PrepAlways, PTL
=============================================================================
