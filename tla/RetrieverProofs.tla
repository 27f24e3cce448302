---------------------------- MODULE RetrieverProofs ----------------------------
(***************************************************************************)
(* The labels of query_chunks, maximal marginal relevance and the prompt,  *)
(* for any collection of points, any tenants, parameters and queries, and  *)
(* whatever search, reranker and LLM return.                               *)
(***************************************************************************)
EXTENDS Retriever, Induction, FiniteSetTheorems, SequenceTheorems

States == {"retrieve", "synthesize", "evaluate", "done"}

\* An answer in ans cites the file of row x.
Says(x, ans) ==
  \E a \in x.attempt..MaxRetries, p \in Points :
    PointFile[p] = PointFile[x.point] /\ <<x.query, a, p>> \in ans

\* The answer of row x's attempt, in ans, cites its chunk.
Names(x, ans) == <<x.query, x.attempt, x.point>> \in ans

RowOf(q, a, p, b) == [query |-> q, attempt |-> a, point |-> p, cited |-> b]

\* A row is of an attempt that has been made, and an answer is of one that has
\* been searched for: of an earlier one while its query searches.
LabelInv ==
  /\ pc \in [Queries -> States]
  /\ attempt \in [Queries -> 0..MaxRetries]
  /\ \A x \in rows :
       \E q \in Queries, b \in BOOLEAN : \E a \in 0..attempt[q] : \E p : x = RowOf(q, a, p, b)
  /\ \A q \in Queries : \A a, p : <<q, a, p>> \in answered =>
       a \in 0..attempt[q] /\ (pc[q] = "retrieve" => a # attempt[q])

Labels == \A x \in rows :
  /\ x.cited => Says(x, answered)
  /\ Names(x, answered) => x.cited \/ x.query \in unmarked

LEMMA LabelsAre == Labels <=> LabelsFollowAnswers
BY DEF Labels, LabelsFollowAnswers, FileIsCited, Says, Names

\* What a row is known by.
LEMMA Rows ==
  ASSUME LabelInv, NEW x \in rows
  PROVE  /\ x.query \in Queries /\ x.cited \in BOOLEAN
         /\ x.attempt \in 0..attempt[x.query] /\ attempt[x.query] \in 0..MaxRetries
         /\ x = RowOf(x.query, x.attempt, x.point, x.cited)
<1>1. PICK q \in Queries, b \in BOOLEAN : \E a \in 0..attempt[q] : \E p : x = RowOf(q, a, p, b)
  BY DEF LabelInv
<1>2. PICK a \in 0..attempt[q] : \E p : x = RowOf(q, a, p, b)
  BY <1>1
<1>3. PICK p : x = RowOf(q, a, p, b)
  BY <1>2
<1>4. x.query = q /\ x.attempt = a /\ x.point = p /\ x.cited = b
  BY <1>3 DEF RowOf
<1> QED
  BY <1>3, <1>4 DEF LabelInv

\* The rows a search logs: of this query and attempt, not cited.
LEMMA LoggedRows ==
  ASSUME NEW q \in Queries, NEW c, NEW x \in Logged(q, c)
  PROVE  \E p : x = RowOf(q, attempt[q], p, FALSE)
BY DEF Logged, RowOf

-----------------------------------------------------------------------------
LEMMA InitLabels == Init => LabelInv /\ Labels
<1> SUFFICES ASSUME Init PROVE LabelInv /\ Labels
  OBVIOUS
<1>1. MaxRetries \in Nat
  BY ConstantsAssumption
<1> QED
  BY <1>1 DEF Init, LabelInv, Labels, States

\* Where a query goes, and the counter, by a step of q that is no retry.
LEMMA Moved ==
  ASSUME LabelInv, NEW q \in Queries, NEW l \in States \ {"retrieve"}, Goto(q, l)
  PROVE  /\ pc' \in [Queries -> States]
         /\ \A r \in Queries : pc'[r] = "retrieve" => pc[r] = "retrieve" /\ r # q
BY DEF LabelInv, Goto, States

\* A step that leaves counter, answers and rows alone.
LEMMA Quiet ==
  ASSUME LabelInv, Labels, NEW q \in Queries, NEW l \in States \ {"retrieve"}, Goto(q, l),
         UNCHANGED <<attempt, rows, answered, unmarked>>
  PROVE  LabelInv' /\ Labels'
<1>1. /\ pc' \in [Queries -> States]
      /\ \A r \in Queries : pc'[r] = "retrieve" => pc[r] = "retrieve" /\ r # q
  BY Moved
<1> QED
  BY <1>1 DEF LabelInv, Labels, Says, Names

LEMMA RetrieveStep ==
  ASSUME LabelInv, Labels, NEW q \in Queries, Retrieve(q)
  PROVE  LabelInv' /\ Labels'
<1>1. /\ pc' \in [Queries -> States]
      /\ \A r \in Queries : pc'[r] = "retrieve" => pc[r] = "retrieve" /\ r # q
  BY Moved DEF Retrieve, States
<1>2. UNCHANGED <<attempt, answered, unmarked>>
  BY DEF Retrieve
<1>3. PICK c : rows' \in {rows, rows \cup Logged(q, c)}
  BY DEF Retrieve
<1>4. attempt[q] \in 0..MaxRetries /\ attempt[q] \in 0..attempt[q]
  BY DEF LabelInv
<1>5. LabelInv'
  <2>1. ASSUME NEW x \in rows'
        PROVE  \E r \in Queries, b \in BOOLEAN :
                 \E a \in 0..attempt[r] : \E p : x = RowOf(r, a, p, b)
    <3>1. CASE x \in rows
      BY <3>1 DEF LabelInv
    <3>2. CASE x \in Logged(q, c)
      <4>1. \E p : x = RowOf(q, attempt[q], p, FALSE)
        BY <3>2, LoggedRows
      <4> QED
        BY <4>1, <1>4
    <3> QED
      BY <3>1, <3>2, <1>3
  <2> QED
    BY <1>1, <1>2, <2>1 DEF LabelInv
<1>6. Labels'
  <2> SUFFICES ASSUME NEW x \in rows'
               PROVE  /\ x.cited => Says(x, answered)
                      /\ Names(x, answered) => x.cited \/ x.query \in unmarked
    BY <1>2 DEF Labels, Says, Names
  <2>1. CASE x \in rows
    BY <2>1 DEF Labels
  <2>2. CASE x \in Logged(q, c)
    <3>1. x.query = q /\ x.attempt = attempt[q] /\ x.cited = FALSE
      BY <2>2, LoggedRows DEF RowOf
    <3>2. ASSUME NEW p, <<q, attempt[q], p>> \in answered PROVE FALSE
      BY <3>2 DEF LabelInv, Retrieve
    <3>3. ~ Names(x, answered)
      BY <3>1, <3>2 DEF Names
    <3> QED
      BY <3>1, <3>3
  <2> QED
    BY <2>1, <2>2, <1>3
<1> QED
  BY <1>5, <1>6

\* What an answer adds to what is said.
LEMMA NewlySaid ==
  ASSUME LabelInv, NEW q \in Queries, NEW cites \in SUBSET Points, NEW x \in rows,
         answered' = answered \cup {<<q, attempt[q], p>> : p \in cites}
  PROVE  /\ Says(x, answered) => Says(x, answered')
         /\ x.query = q /\ PointFile[x.point] \in {PointFile[p] : p \in cites}
              => Says(x, answered')
         /\ Names(x, answered') => Names(x, answered) \/ (x.query = q /\ x.point \in cites)
<1>1. x.attempt \in 0..attempt[x.query] /\ attempt[x.query] \in 0..MaxRetries
  BY Rows
<1>2. Says(x, answered) => Says(x, answered')
  BY DEF Says
<1>3. Names(x, answered') => Names(x, answered) \/ (x.query = q /\ x.point \in cites)
  BY DEF Names
<1>4. ASSUME x.query = q, NEW p \in cites, PointFile[p] = PointFile[x.point]
      PROVE  Says(x, answered')
  <2>1. attempt[q] \in x.attempt..MaxRetries
    BY <1>1, <1>4, ConstantsAssumption
  <2>2. <<x.query, attempt[q], p>> \in answered' /\ p \in Points
    BY <1>4
  <2> QED
    BY <2>1, <2>2, <1>4 DEF Says
<1> QED
  BY <1>2, <1>3, <1>4

\* Marking a row changes its label only.
LEMMA MarkedRecord ==
  ASSUME NEW Q, NEW A, NEW P,
         NEW y \in [query : Q, attempt : A, point : P, cited : BOOLEAN]
  PROVE  /\ [y EXCEPT !.cited = TRUE] \in [query : Q, attempt : A, point : P, cited : BOOLEAN]
         /\ [y EXCEPT !.cited = TRUE].query = y.query
         /\ [y EXCEPT !.cited = TRUE].attempt = y.attempt
         /\ [y EXCEPT !.cited = TRUE].point = y.point
         /\ [y EXCEPT !.cited = TRUE].cited = TRUE
OBVIOUS

LEMMA Marking ==
  ASSUME NEW q, NEW a, NEW p, NEW b \in BOOLEAN, NEW x, x = RowOf(q, a, p, b)
  PROVE  [x EXCEPT !.cited = TRUE] = RowOf(q, a, p, TRUE)
<1>1. x \in [query : {q}, attempt : {a}, point : {p}, cited : BOOLEAN]
  BY DEF RowOf
<1>2. x.query = q /\ x.attempt = a /\ x.point = p
  BY DEF RowOf
<1>3. PICK y : y = [x EXCEPT !.cited = TRUE]
  OBVIOUS
<1>4. /\ y \in [query : {q}, attempt : {a}, point : {p}, cited : BOOLEAN]
      /\ y.query = q /\ y.attempt = a /\ y.point = p /\ y.cited = TRUE
  BY <1>1, <1>2, <1>3, MarkedRecord
<1>5. y = RowOf(q, a, p, TRUE)
  BY <1>4 DEF RowOf
<1> QED
  BY <1>3, <1>5

LEMMA SynthesizeStep ==
  ASSUME LabelInv, Labels, NEW q \in Queries, Synthesize(q)
  PROVE  LabelInv' /\ Labels'
<1>1. /\ pc' \in [Queries -> States]
      /\ \A r \in Queries : pc'[r] = "retrieve" => pc[r] = "retrieve" /\ r # q
  BY Moved DEF Synthesize, States
<1>2. attempt' = attempt /\ attempt[q] \in 0..MaxRetries
  BY DEF Synthesize, LabelInv
<1>0. PICK cites \in SUBSET Points :
        /\ answered' = answered \cup {<<q, attempt[q], p>> : p \in cites}
        /\ \/ /\ rows' = (rows \ MarkedRows(q, {PointFile[p] : p \in cites}))
                           \cup {[x EXCEPT !.cited = TRUE] :
                                   x \in MarkedRows(q, {PointFile[p] : p \in cites})}
              /\ unmarked' = unmarked
           \/ rows' = rows /\ unmarked' = unmarked \cup {q}
  BY DEF Synthesize, Searchable
<1> DEFINE files == {PointFile[p] : p \in cites}
<1>3. /\ answered' = answered \cup {<<q, attempt[q], p>> : p \in cites}
        /\ \/ /\ rows' = (rows \ MarkedRows(q, files))
                           \cup {[x EXCEPT !.cited = TRUE] : x \in MarkedRows(q, files)}
              /\ unmarked' = unmarked
           \/ rows' = rows /\ unmarked' = unmarked \cup {q}
  BY <1>0
<1>8. ASSUME NEW x \in rows
      PROVE  /\ Says(x, answered) => Says(x, answered')
             /\ x.query = q /\ PointFile[x.point] \in files => Says(x, answered')
             /\ Names(x, answered') => Names(x, answered) \/ (x.query = q /\ PointFile[x.point] \in files)
  <2>1. /\ Says(x, answered) => Says(x, answered')
        /\ x.query = q /\ PointFile[x.point] \in files => Says(x, answered')
        /\ Names(x, answered') => Names(x, answered) \/ (x.query = q /\ x.point \in cites)
    BY <1>3, NewlySaid
  <2> QED
    BY <2>1
<1> HIDE DEF files
<1>4. ASSUME NEW x \in rows PROVE [x EXCEPT !.cited = TRUE] = RowOf(x.query, x.attempt, x.point, TRUE)
  <2>1. x = RowOf(x.query, x.attempt, x.point, x.cited) /\ x.cited \in BOOLEAN
    BY Rows
  <2>2. PICK r, a, p, b : r = x.query /\ a = x.attempt /\ p = x.point /\ b = x.cited
    OBVIOUS
  <2>3. x = RowOf(r, a, p, b) /\ b \in BOOLEAN
    BY <2>1, <2>2
  <2>4. [x EXCEPT !.cited = TRUE] = RowOf(r, a, p, TRUE)
    BY ONLY <2>3, Marking
  <2>5. RowOf(r, a, p, TRUE) = RowOf(x.query, x.attempt, x.point, TRUE)
    BY <2>2
  <2> QED
    BY <2>4, <2>5
\* Each row is an old one, as it was or marked.
<1>5. ASSUME NEW y \in rows', y \notin rows
      PROVE  \E x \in MarkedRows(q, files) : y = RowOf(x.query, x.attempt, x.point, TRUE)
  <2>1. PICK x \in MarkedRows(q, files) : y = [x EXCEPT !.cited = TRUE]
    BY <1>3, <1>5
  <2> QED
    BY <2>1, <1>4 DEF MarkedRows
<1>6. LabelInv'
  <2>1. ASSUME NEW y \in rows'
        PROVE  \E r \in Queries, b \in BOOLEAN :
                 \E a \in 0..attempt[r] : \E p : y = RowOf(r, a, p, b)
    <3>1. CASE y \in rows
      BY <3>1 DEF LabelInv
    <3>2. CASE y \notin rows
      <4>1. PICK x \in rows : y = RowOf(x.query, x.attempt, x.point, TRUE)
        BY <3>2, <1>5 DEF MarkedRows
      <4> QED
        BY <4>1, Rows
    <3> QED
      BY <3>1, <3>2
  <2>2. ASSUME NEW r \in Queries, NEW a, NEW p, <<r, a, p>> \in answered'
        PROVE  a \in 0..attempt[r] /\ (pc'[r] = "retrieve" => a # attempt[r])
    <3>1. CASE <<r, a, p>> \in answered
      BY <3>1, <1>1 DEF LabelInv
    <3>2. CASE r = q /\ a = attempt[q]
      BY <3>2, <1>1, <1>2
    <3> QED
      BY <2>2, <3>1, <3>2, <1>3
  <2> QED
    BY <1>1, <1>2, <2>1, <2>2 DEF LabelInv
<1>7. Labels'
  <2> SUFFICES ASSUME NEW y \in rows'
               PROVE  /\ y.cited => Says(y, answered')
                      /\ Names(y, answered') => y.cited \/ y.query \in unmarked'
    BY DEF Labels, Says, Names
  <2>1. CASE y \notin rows
    <3>1. PICK x \in MarkedRows(q, files) : y = RowOf(x.query, x.attempt, x.point, TRUE)
      BY <2>1, <1>5
    <3>2. Says(x, answered')
      BY <1>8 DEF MarkedRows
    <3>3. y.query = x.query /\ y.attempt = x.attempt /\ y.point = x.point /\ y.cited = TRUE
      BY <3>1 DEF RowOf
    <3> QED
      BY <3>2, <3>3 DEF Says
  <2>2. CASE y \in rows
    <3>1. /\ y.cited => Says(y, answered)
          /\ Names(y, answered) => y.cited \/ y.query \in unmarked
      BY <2>2 DEF Labels
    <3>2. /\ Says(y, answered) => Says(y, answered')
          /\ Names(y, answered') => Names(y, answered) \/ (y.query = q /\ PointFile[y.point] \in files)
      BY <2>2, <1>8
    <3>3. CASE y.query # q \/ PointFile[y.point] \notin files
      BY <3>1, <3>2, <3>3, <1>3
    <3>4. CASE y.query = q /\ PointFile[y.point] \in files /\ rows' = rows /\ unmarked' = unmarked \cup {q}
      BY <3>1, <3>2, <3>4
    <3>5. CASE y \in MarkedRows(q, files)
                 /\ rows' = (rows \ MarkedRows(q, files))
                              \cup {[x EXCEPT !.cited = TRUE] : x \in MarkedRows(q, files)}
      <4>1. PICK x \in MarkedRows(q, files) : y = [x EXCEPT !.cited = TRUE]
        BY <3>5
      <4>2. y.cited = TRUE
        BY <4>1, <1>4 DEF MarkedRows, RowOf
      <4>3. Says(y, answered')
        BY <2>2, <3>5, <1>8 DEF MarkedRows
      <4> QED
        BY <4>2, <4>3
    <3> QED
      BY <2>2, <3>3, <3>4, <3>5, <1>3 DEF MarkedRows
  <2> QED
    BY <2>1, <2>2
<1> QED
  BY <1>6, <1>7

LEMMA EvaluateStep ==
  ASSUME LabelInv, Labels, NEW q \in Queries, Evaluate(q)
  PROVE  LabelInv' /\ Labels'
<1>1. pc' \in [Queries -> States]
  BY DEF Evaluate, Goto, LabelInv, States
<1>2. /\ attempt' \in [Queries -> 0..MaxRetries]
      /\ attempt'[q] = attempt[q] + 1
      /\ \A r \in Queries : attempt[r] \in 0..MaxRetries /\ 0..attempt[r] \subseteq 0..attempt'[r]
  BY ConstantsAssumption DEF Evaluate, LabelInv
<1>3. UNCHANGED <<rows, answered, unmarked>>
  BY DEF Evaluate
<1>4. ASSUME NEW x \in rows
      PROVE  \E r \in Queries, b \in BOOLEAN :
               \E a \in 0..attempt'[r] : \E p : x = RowOf(r, a, p, b)
  BY <1>2, Rows
<1>5. ASSUME NEW r \in Queries, NEW a, NEW p, <<r, a, p>> \in answered
      PROVE  a \in 0..attempt'[r] /\ (pc'[r] = "retrieve" => a # attempt'[r])
  <2>1. a \in 0..attempt[r] /\ (pc[r] = "retrieve" => a # attempt[r])
    BY <1>5 DEF LabelInv
  <2>2. CASE r = q
    BY <2>1, <2>2, <1>2
  <2>3. CASE r # q
    <3>1. pc'[r] = pc[r] /\ attempt'[r] = attempt[r]
      BY <2>3 DEF Evaluate, Goto, LabelInv
    <3> QED
      BY <2>1, <3>1
  <2> QED
    BY <2>2, <2>3
<1>6. LabelInv'
  BY <1>1, <1>2, <1>3, <1>4, <1>5 DEF LabelInv
<1>7. Labels'
  BY <1>3 DEF Labels, Says, Names
<1> QED
  BY <1>6, <1>7

LEMMA StepLabels ==
  ASSUME LabelInv, Labels, [Next]_vars
  PROVE  LabelInv' /\ Labels'
<1>1. CASE UNCHANGED vars
  BY <1>1 DEF vars, LabelInv, Labels, Says, Names
<1>2. ASSUME NEW q \in Queries, Retrieve(q) PROVE LabelInv' /\ Labels'
  BY <1>2, RetrieveStep
<1>3. ASSUME NEW q \in Queries, RetrieveNothing(q) PROVE LabelInv' /\ Labels'
  BY <1>3, Quiet DEF RetrieveNothing, States
<1>4. ASSUME NEW q \in Queries, Synthesize(q) PROVE LabelInv' /\ Labels'
  BY <1>4, SynthesizeStep
<1>5. ASSUME NEW q \in Queries, SynthesizeNothing(q) PROVE LabelInv' /\ Labels'
  BY <1>5, Quiet DEF SynthesizeNothing, States
<1>6. ASSUME NEW q \in Queries, EvaluatePasses(q) PROVE LabelInv' /\ Labels'
  BY <1>6, Quiet DEF EvaluatePasses, States
<1>7. ASSUME NEW q \in Queries, Evaluate(q) PROVE LabelInv' /\ Labels'
  BY <1>7, EvaluateStep
<1>8. ASSUME NEW q \in Queries, Crash(q) PROVE LabelInv' /\ Labels'
  BY <1>8, Quiet DEF Crash, States
<1> QED
  BY <1>1, <1>2, <1>3, <1>4, <1>5, <1>6, <1>7, <1>8 DEF Next

\* A row of the training data is marked cited only when its query's answer of
\* that attempt or a later one cites its file, and always when the answer of its
\* attempt cites its chunk, unless the update was lost.
THEOREM LabelsCorrect == Spec => []LabelsFollowAnswers
<1>1. Init => LabelInv /\ Labels
  BY InitLabels
<1>2. (LabelInv /\ Labels) /\ [Next]_vars => (LabelInv /\ Labels)'
  BY StepLabels
<1>3. LabelInv /\ Labels => LabelsFollowAnswers
  BY LabelsAre
<1> QED
  BY <1>1, <1>2, <1>3, PTL DEF Spec

-----------------------------------------------------------------------------
(* What MMR's loop picks.                                                  *)

\* The score of candidate i when those of B have been picked.
Scored(c, i, B) == 6 * c[i].score - 4 * MaxSim(c[i].point, {c[j].point : j \in B})

\* Of the candidates outside B, i has the best score.
Best(c, i, B) ==
  /\ i \in DOMAIN c \ B
  /\ \A j \in DOMAIN c \ B : Scored(c, i, B) >= Scored(c, j, B)

\* What MMR may have picked of c so far: the first candidate, then each time
\* one of the best of the rest.
Picks(c) ==
  {s \in Seq(DOMAIN c) :
     /\ Len(s) >= 1 /\ s[1] = 1
     /\ \A i \in 2..Len(s) : Best(c, s[i], {s[j] : j \in 1..i - 1})}

\* The function Mmr is defined by.
Selected(c, k) ==
  CHOOSE f : f = [n \in 1..k |-> IF n = 1 THEN <<1>>
                                 ELSE Append(f[n - 1], MmrPick(c, f[n - 1]))]

LEMMA MmrIs ==
  ASSUME NEW c, NEW k
  PROVE Mmr(c, k) = IF Len(c) <= k THEN c ELSE [n \in 1..k |-> c[Selected(c, k)[k][n]]]
BY DEF Mmr, Selected

LEMMA ScoreBound ==
  ASSUME NEW c \in Seq(Hit), NEW i \in DOMAIN c, NEW B
  PROVE  Scored(c, i, B) \in Int /\ 600 - Scored(c, i, B) \in Nat
<1>1. c[i].score \in 0..100
  <2>1. c[i] \in Hit
    BY LenProperties
  <2> QED
    BY <2>1, ConstantsAssumption DEF Hit
<1>2. MaxSim(c[i].point, {c[j].point : j \in B}) \in {0, 100}
  BY DEF MaxSim
<1>3. PICK a, b : a = c[i].score /\ b = MaxSim(c[i].point, {c[j].point : j \in B})
  OBVIOUS
<1>4. Scored(c, i, B) = 6 * a - 4 * b
  BY <1>3 DEF Scored
<1>5. a \in 0..100 /\ b \in {0, 100}
  BY <1>1, <1>2, <1>3
<1>6. 6 * a - 4 * b \in Int /\ 600 - (6 * a - 4 * b) \in Nat
  BY <1>5
<1> QED
  BY <1>4, <1>6

LEMMA PickIsBest ==
  ASSUME NEW c \in Seq(Hit), NEW sel, DOMAIN c \ Range(sel) # {}
  PROVE  Best(c, MmrPick(c, sel), Range(sel))
<1> DEFINE rest == DOMAIN c \ Range(sel)
           T == {600 - Scored(c, i, Range(sel)) : i \in rest}
           M == {i \in rest : \A j \in rest : Scored(c, i, Range(sel)) >= Scored(c, j, Range(sel))}
<1>1. \A i \in rest : Scored(c, i, Range(sel)) \in Int /\ 600 - Scored(c, i, Range(sel)) \in Nat
  BY ScoreBound
<1>2. T \subseteq Nat /\ T # {}
  BY <1>1
<1>3. PICK t \in T : \A u \in T : t <= u
  <2> HIDE DEF T
  <2> QED
    BY <1>2, LeastNatural
<1>4. PICK i \in rest : t = 600 - Scored(c, i, Range(sel))
  BY <1>3
<1>5. ASSUME NEW j \in rest PROVE Scored(c, i, Range(sel)) >= Scored(c, j, Range(sel))
  <2>1. 600 - Scored(c, i, Range(sel)) <= 600 - Scored(c, j, Range(sel))
    BY <1>3, <1>4
  <2> QED
    BY <2>1, <1>1
<1>6. M # {} /\ M \subseteq Nat
  BY <1>5, LenProperties
<1>7. \E x \in M : \A y \in M : x <= y
  <2> HIDE DEF M
  <2> QED
    BY <1>6, LeastNatural
<1>8. MmrPick(c, sel) = CHOOSE x \in M : \A y \in M : x <= y
  BY DEF MmrPick, Min, MmrScore, Scored
<1>9. MmrPick(c, sel) \in M
  <2> HIDE DEF M
  <2> QED
    BY <1>7, <1>8
<1> QED
  BY <1>9 DEF Best

LEMMA PicksDiffer ==
  ASSUME NEW c, NEW s \in Picks(c), NEW i \in 1..Len(s), NEW j \in 1..Len(s), s[i] = s[j]
  PROVE  i = j
<1>1. Len(s) \in Nat
  BY DEF Picks
<1>2. ASSUME NEW a \in 1..Len(s), NEW b \in 1..Len(s), a < b PROVE s[a] # s[b]
  <2>1. b \in 2..Len(s) /\ a \in 1..b - 1
    BY <1>1, <1>2
  <2>2. Best(c, s[b], {s[n] : n \in 1..b - 1})
    BY <2>1 DEF Picks
  <2> QED
    BY <2>1, <2>2 DEF Best
<1>3. ~ (i < j) /\ ~ (j < i)
  BY <1>2
<1> QED
  BY <1>1, <1>3

\* Fewer picks than candidates leave one to pick.
LEMMA SomethingLeft ==
  ASSUME NEW c \in Seq(Hit), NEW s \in Seq(DOMAIN c), Len(s) < Len(c)
  PROVE  DOMAIN c \ Range(s) # {}
<1>1. /\ Len(s) \in Nat /\ Len(c) \in Nat
      /\ DOMAIN s = 1..Len(s) /\ DOMAIN c = 1..Len(c)
      /\ s \in [1..Len(s) -> DOMAIN c]
  BY LenProperties
<1> SUFFICES ASSUME DOMAIN c \subseteq Range(s) PROVE FALSE
  OBVIOUS
<1>2. \A y \in 1..Len(c) : \E x \in 1..Len(s) : s[x] = y
  BY <1>1 DEF Range
<1>3. s \in Surjection(1..Len(s), 1..Len(c))
  BY <1>1, <1>2 DEF Surjection
<1>4. ASSUME NEW n \in Nat PROVE IsFiniteSet(1..n) /\ Cardinality(1..n) = n
  <2>1. n \in Nat
    OBVIOUS
  <2>2. IsFiniteSet(1..n) /\ Cardinality(1..n) = IF 1 > n THEN 0 ELSE n - 1 + 1
    BY ONLY <2>1, FS_Interval
  <2> QED
    BY <2>2
<1>5. Cardinality(1..Len(c)) <= Cardinality(1..Len(s))
  <2>1. IsFiniteSet(1..Len(s))
    BY <1>1, <1>4
  <2> QED
    BY <1>3, <2>1, FS_Surjection
<1> QED
  BY <1>1, <1>4, <1>5

LEMMA PicksExtend ==
  ASSUME NEW c \in Seq(Hit), NEW s \in Picks(c), Len(s) < Len(c)
  PROVE  /\ Append(s, MmrPick(c, s)) \in Picks(c)
         /\ Len(Append(s, MmrPick(c, s))) = Len(s) + 1
<1>1. s \in Seq(DOMAIN c) /\ Len(s) \in Nat /\ Len(s) >= 1
  BY DEF Picks
<1>2. PICK p : p = MmrPick(c, s)
  OBVIOUS
<1>3. Best(c, p, Range(s))
  BY <1>1, <1>2, SomethingLeft, PickIsBest
<1>4. p \in DOMAIN c
  BY <1>3 DEF Best
<1>5. PICK t : t = Append(s, p)
  OBVIOUS
<1>6. /\ t \in Seq(DOMAIN c) /\ Len(t) = Len(s) + 1
      /\ \A i \in 1..Len(s) : t[i] = s[i]
      /\ t[Len(s) + 1] = p
  BY <1>1, <1>4, <1>5, AppendProperties
<1>7. ASSUME NEW i \in 2..Len(t) PROVE Best(c, t[i], {t[j] : j \in 1..i - 1})
  <2>1. CASE i = Len(s) + 1
    <3>1. {t[j] : j \in 1..i - 1} = {s[j] : j \in 1..Len(s)}
      <4>1. i - 1 = Len(s)
        BY <2>1, <1>1
      <4>2. \A j \in 1..Len(s) : t[j] = s[j]
        BY <1>6
      <4> QED
        BY <4>1, <4>2, Zenon
    <3>2. {s[j] : j \in 1..Len(s)} = Range(s)
      BY <1>1, RangeEquality
    <3> QED
      BY <2>1, <3>1, <3>2, <1>3, <1>6, Zenon
  <2>2. CASE i # Len(s) + 1
    <3>1. i \in 2..Len(s)
      BY <2>2, <1>1, <1>6
    <3>2. {t[j] : j \in 1..i - 1} = {s[j] : j \in 1..i - 1} /\ t[i] = s[i]
      <4>1. i \in 1..Len(s) /\ \A j \in 1..i - 1 : j \in 1..Len(s)
        BY <3>1, <1>1
      <4>2. t[i] = s[i] /\ \A j \in 1..i - 1 : t[j] = s[j]
        BY <4>1, <1>6
      <4> QED
        BY <4>2, Zenon
    <3>3. Best(c, s[i], {s[j] : j \in 1..i - 1})
      BY <3>1 DEF Picks
    <3> QED
      BY <3>2, <3>3, Zenon
  <2> QED
    BY <2>1, <2>2
<1>8. t[1] = 1 /\ Len(t) >= 1
  BY <1>1, <1>6 DEF Picks
<1>9. t \in Picks(c)
  BY <1>6, <1>7, <1>8 DEF Picks
<1> QED
  BY <1>2, <1>5, <1>6, <1>9

\* The one candidate picked first.
LEMMA FirstPick ==
  ASSUME NEW c \in Seq(Hit), Len(c) >= 1
  PROVE  <<1>> \in Picks(c) /\ Len(<<1>>) = 1
<1>1. <<1>> \in Seq(DOMAIN c) /\ Len(<<1>>) = 1 /\ <<1>>[1] = 1
  BY LenProperties
<1> QED
  BY <1>1 DEF Picks

\* The loop of MMR exists, and picks k candidates.
LEMMA SelectedPicks ==
  ASSUME NEW c \in Seq(Hit), NEW k \in Nat \ {0}, k < Len(c)
  PROVE  Selected(c, k)[k] \in Picks(c) /\ Len(Selected(c, k)[k]) = k
<1> DEFINE V == Picks(c)
           g == [n \in Nat |-> [s \in V |-> IF Len(s) < Len(c) THEN Append(s, MmrPick(c, s)) ELSE s]]
<1>0. Len(c) \in Nat /\ Len(c) >= 1
  BY LenProperties
<1>1. <<1>> \in V /\ Len(<<1>>) = 1
  BY <1>0, FirstPick
<1>2. ClosedUnder(g, V)
  BY PicksExtend DEF ClosedUnder
<1>3. \A n \in Nat : \A s \in V : Len(s) < Len(c) => g[n][s] = Append(s, MmrPick(c, s))
  OBVIOUS
<1> HIDE DEF g, V
<1>4. PICK h : IsRecursion(h, V, <<1>>, g)
  BY <1>1, <1>2, NatRecursion
<1>5. h \in [Nat -> V] /\ h[0] = <<1>> /\ \A n \in Nat : h[n + 1] = g[n][h[n]]
  BY <1>4 DEF IsRecursion
<1> DEFINE S == {n \in Nat : n < k => Len(h[n]) = n + 1}
<1>6. 0 \in S
  <2>1. Len(h[0]) = 0 + 1
    BY <1>1, <1>5
  <2> QED
    BY <2>1
<1>7. ASSUME NEW n \in Nat, n \in S PROVE n + 1 \in S
  <2> SUFFICES ASSUME n + 1 < k PROVE Len(h[n + 1]) = n + 2
    BY DEF S
  <2>1. h[n] \in V /\ Len(h[n]) = n + 1 /\ Len(h[n]) < Len(c)
    BY <1>7, <1>5, <1>0
  <2>2. h[n + 1] = Append(h[n], MmrPick(c, h[n]))
    BY <2>1, <1>3, <1>5
  <2>3. Len(h[n + 1]) = Len(h[n]) + 1
    BY <2>1, <2>2, PicksExtend DEF V
  <2> QED
    BY <2>1, <2>3
<1> HIDE DEF S
<1>8. \A n \in Nat : n \in S
  BY <1>6, <1>7, SetInduction
<1>9. \A n \in Nat : n < k => h[n] \in V /\ Len(h[n]) = n + 1
  BY <1>5, <1>8 DEF S
<1> DEFINE f == [n \in 1..k |-> h[n - 1]]
<1>10. f = [n \in 1..k |-> IF n = 1 THEN <<1>> ELSE Append(f[n - 1], MmrPick(c, f[n - 1]))]
  <2>1. ASSUME NEW n \in 1..k, n # 1
        PROVE  h[n - 1] = Append(h[n - 2], MmrPick(c, h[n - 2])) /\ f[n - 1] = h[n - 2]
    <3>1. n - 2 \in Nat /\ (n - 2) + 1 = n - 1 /\ n - 2 < k /\ n - 1 \in 1..k /\ (n - 1) - 1 = n - 2
      BY <2>1
    <3>2. h[n - 2] \in V /\ Len(h[n - 2]) = (n - 2) + 1
      BY <3>1, <1>9
    <3>3. Len(h[n - 2]) < Len(c)
      BY <3>2, <1>0
    <3>4. h[n - 1] = g[n - 2][h[n - 2]]
      BY <3>1, <1>5
    <3>5. g[n - 2][h[n - 2]] = Append(h[n - 2], MmrPick(c, h[n - 2]))
      BY <3>1, <3>2, <3>3, <1>3
    <3>6. f[n - 1] = h[n - 2]
      BY <3>1
    <3> QED
      BY <3>4, <3>5, <3>6
  <2>2. ASSUME NEW n \in 1..k
        PROVE  f[n] = IF n = 1 THEN <<1>> ELSE Append(f[n - 1], MmrPick(c, f[n - 1]))
    <3>1. CASE n = 1
      BY <3>1, <1>5
    <3>2. CASE n # 1
      <4>1. f[n] = h[n - 1]
        OBVIOUS
      <4> HIDE DEF f
      <4> QED
        BY <3>2, <4>1, <2>1
    <3> QED
      BY <3>1, <3>2
  <2>3. f = [n \in 1..k |-> f[n]]
    OBVIOUS
  <2> HIDE DEF f
  <2> QED
    BY <2>2, <2>3
<1> HIDE DEF f
<1>11. PICK sel : sel = Selected(c, k)
  OBVIOUS
<1>12. sel = [n \in 1..k |-> IF n = 1 THEN <<1>> ELSE Append(sel[n - 1], MmrPick(c, sel[n - 1]))]
  BY <1>10, <1>11, Zenon DEF Selected
\* The chosen function is that one, and has picked n after n rounds.
<1> DEFINE R == {n \in Nat : n < k => sel[n + 1] \in V /\ Len(sel[n + 1]) = n + 1}
<1>13. 0 \in R
  <2>1. sel[1] = <<1>>
    BY <1>12
  <2> QED
    BY <2>1, <1>1
<1>14. ASSUME NEW n \in Nat, n \in R PROVE n + 1 \in R
  <2> SUFFICES ASSUME n + 1 < k PROVE sel[n + 2] \in V /\ Len(sel[n + 2]) = n + 2
    BY DEF R
  <2>1. sel[n + 1] \in V /\ Len(sel[n + 1]) = n + 1 /\ Len(sel[n + 1]) < Len(c)
    BY <1>14, <1>0
  <2>2. n + 2 \in 1..k /\ n + 2 # 1 /\ (n + 2) - 1 = n + 1
    OBVIOUS
  <2>3. sel[n + 2] = Append(sel[n + 1], MmrPick(c, sel[n + 1]))
    BY <2>2, <1>12
  <2>4. sel[n + 2] \in V /\ Len(sel[n + 2]) = Len(sel[n + 1]) + 1
    BY <2>1, <2>3, PicksExtend DEF V
  <2> QED
    BY <2>1, <2>4
<1> HIDE DEF R
<1>15. \A n \in Nat : n \in R
  BY <1>13, <1>14, SetInduction
<1>16. sel[k] \in V /\ Len(sel[k]) = k
  <2>1. k - 1 \in Nat /\ k - 1 < k /\ (k - 1) + 1 = k
    OBVIOUS
  <2>2. k - 1 \in R
    BY <2>1, <1>15
  <2> QED
    BY <2>1, <2>2 DEF R
<1> QED
  BY <1>11, <1>16 DEF V

-----------------------------------------------------------------------------
\* A list as search and reranker make them: distinct points of P, best first.
IsRanking(h, P) ==
  /\ h \in Seq(Hit)
  /\ \A i, j \in DOMAIN h : h[i].point = h[j].point => i = j
  /\ \A i \in DOMAIN h : h[i].point \in P
  /\ \A i \in DOMAIN h : i > 1 => h[i - 1].score >= h[i].score

LEMMA EmptyRanking ==
  ASSUME NEW P
  PROVE  IsRanking(<<>>, P)
BY DEF IsRanking

LEMMA RankingsAre ==
  ASSUME NEW P, NEW n \in Nat, NEW h \in Rankings(P, n)
  PROVE  IsRanking(h, P)
<1>1. PICK m \in 0..n : h \in [1..m -> Hit]
  BY DEF Rankings, BoundedSeq, SeqOf
<1>2. h \in Seq(Hit)
  BY <1>1
<1>3. \A i \in DOMAIN h : h[i].point \in P /\ (i > 1 => h[i - 1].score >= h[i].score)
  BY DEF Rankings
<1>4. \A i, j \in DOMAIN h : h[i].point = h[j].point => i = j
  BY DEF Rankings, IsInjective
<1> QED
  BY <1>2, <1>3, <1>4 DEF IsRanking

\* Cutting a ranking leaves one.
LEMMA FirstNIs ==
  ASSUME NEW P, NEW n \in Nat, NEW h, IsRanking(h, P)
  PROVE  IsRanking(FirstN(h, n), P)
<1>1. h \in Seq(Hit) /\ Len(h) \in Nat /\ DOMAIN h = 1..Len(h)
  BY LenProperties DEF IsRanking
<1>2. PICK m : m = Min({n, Len(h)})
  OBVIOUS
<1>3. m \in 0..Len(h)
  <2>1. \E x \in {n, Len(h)} : \A y \in {n, Len(h)} : x <= y
    BY <1>1
  <2>2. m \in {n, Len(h)} /\ \A y \in {n, Len(h)} : m <= y
    BY <1>2, <2>1 DEF Min
  <2>3. m \in Nat /\ m <= Len(h)
    BY <2>2, <1>1
  <2> QED
    BY <2>3, <1>1
<1>4. PICK t : t = SubSeq(h, 1, m)
  OBVIOUS
<1>5. t \in Seq(Hit) /\ DOMAIN t = 1..m /\ \A i \in 1..m : t[i] = h[i]
  BY <1>1, <1>3, <1>4
<1>6. \A i \in 1..m : i \in DOMAIN h /\ (i > 1 => i - 1 \in 1..m)
  BY <1>1, <1>3
<1>7. IsRanking(t, P)
  <2>1. \A i \in 1..m : t[i].point \in P
    BY <1>5, <1>6 DEF IsRanking
  <2>2. \A i, j \in 1..m : t[i].point = t[j].point => i = j
    BY <1>5, <1>6 DEF IsRanking
  <2>3. \A i \in 1..m : i > 1 => t[i - 1].score >= t[i].score
    BY <1>5, <1>6 DEF IsRanking
  <2> QED
    BY <1>5, <2>1, <2>2, <2>3 DEF IsRanking
<1> QED
  BY <1>2, <1>4, <1>7 DEF FirstN

LEMMA RankingOfSubset ==
  ASSUME NEW P, NEW Q, P \subseteq Q, NEW h, IsRanking(h, P)
  PROVE  IsRanking(h, Q)
BY DEF IsRanking

LEMMA CandidatesAre ==
  ASSUME NEW q \in Queries, NEW x \in Params, NEW c \in Candidates[q][x]
  PROVE  IsRanking(c, Searchable(q))
<1>1. x[1] \in Nat /\ x[2] \in Nat
  BY ConstantsAssumption
<1>2. PICK hits \in Rankings(Searchable(q), x[1]) : c \in Reranked(hits, x[2])
  BY DEF Candidates
<1>3. IsRanking(hits, Searchable(q))
  BY <1>1, <1>2, RankingsAre
<1>4. CASE c = FirstN(hits, x[2])
  BY <1>4, <1>1, <1>3, FirstNIs
<1>5. CASE c \in Rankings({hits[i].point : i \in DOMAIN hits}, x[2])
  <2>1. IsRanking(c, {hits[i].point : i \in DOMAIN hits})
    BY <1>5, <1>1, RankingsAre
  <2>2. {hits[i].point : i \in DOMAIN hits} \subseteq Searchable(q)
    BY <1>3 DEF IsRanking
  <2> QED
    BY <2>1, <2>2, RankingOfSubset
<1> QED
  BY <1>2, <1>4, <1>5 DEF Reranked

\* The first of a ranking is the best of it.
LEMMA FirstIsBest ==
  ASSUME NEW P, NEW h, IsRanking(h, P)
  PROVE  \A i \in DOMAIN h : h[1].score >= h[i].score
<1>1. h \in Seq(Hit) /\ Len(h) \in Nat /\ DOMAIN h = 1..Len(h)
  BY LenProperties DEF IsRanking
<1>2. \A i \in 1..Len(h) : h[i].score \in Int
  <2>1. ASSUME NEW i \in 1..Len(h) PROVE h[i].score \in 0..100
    <3>1. h[i] \in Hit
      BY <1>1, LenProperties
    <3> QED
      BY <3>1, ConstantsAssumption DEF Hit
  <2>2. 0..100 \subseteq Int
    OBVIOUS
  <2> QED
    BY <2>1, <2>2
<1> DEFINE S == {i \in Nat : i + 1 \in 1..Len(h) => h[1].score >= h[i + 1].score}
<1>3. 0 \in S
  BY <1>2
<1>4. ASSUME NEW i \in Nat, i \in S PROVE i + 1 \in S
  <2> SUFFICES ASSUME i + 2 \in 1..Len(h) PROVE h[1].score >= h[i + 2].score
    BY DEF S
  <2>1. i + 1 \in 1..Len(h) /\ 1 \in 1..Len(h)
    BY <1>1
  <2>2. h[1].score >= h[i + 1].score
    BY <2>1, <1>4
  <2>3. h[i + 1].score >= h[i + 2].score
    <3>1. i + 2 > 1 /\ (i + 2) - 1 = i + 1
      OBVIOUS
    <3> QED
      BY <3>1, <1>1 DEF IsRanking
  <2> QED
    BY <2>1, <2>2, <2>3, <1>2
<1> HIDE DEF S
<1>5. \A i \in Nat : i \in S
  BY <1>3, <1>4, SetInduction
<1>6. ASSUME NEW i \in 1..Len(h) PROVE h[1].score >= h[i].score
  <2>1. i - 1 \in Nat /\ (i - 1) + 1 = i
    OBVIOUS
  <2>2. i - 1 \in S
    BY <2>1, <1>5
  <2> QED
    BY <2>1, <2>2 DEF S
<1> QED
  BY <1>1, <1>6

\* m is what MMR may keep of c: all of it, or what it picked.
Kept(c, m) ==
  \/ m = c
  \/ \E s \in Picks(c) : m = [n \in 1..Len(s) |-> c[s[n]]]

LEMMA MmrKeeps ==
  ASSUME NEW c \in Seq(Hit), NEW k \in Nat \ {0}
  PROVE  Kept(c, Mmr(c, k))
<1>1. CASE Len(c) <= k
  BY <1>1, MmrIs DEF Kept
<1>2. CASE ~ (Len(c) <= k)
  <2>1. k < Len(c)
    BY <1>2, LenProperties
  <2>2. Selected(c, k)[k] \in Picks(c) /\ Len(Selected(c, k)[k]) = k
    BY <2>1, SelectedPicks
  <2>3. Mmr(c, k) = [n \in 1..k |-> c[Selected(c, k)[k][n]]]
    BY <1>2, MmrIs
  <2>4. PICK s : s = Selected(c, k)[k]
    OBVIOUS
  <2>5. s \in Picks(c) /\ Mmr(c, k) = [n \in 1..Len(s) |-> c[s[n]]]
    BY <2>2, <2>3, <2>4
  <2> QED
    BY <2>5 DEF Kept
<1> QED
  BY <1>1, <1>2

\* What is kept of a ranking: distinct points of it, the first of all first.
LEMMA KeptIs ==
  ASSUME NEW P, NEW c, IsRanking(c, P), NEW m, Kept(c, m)
  PROVE  /\ m \in Seq(Hit)
         /\ \A i, j \in DOMAIN m : m[i].point = m[j].point => i = j
         /\ \A i \in DOMAIN m : m[i].point \in P
         /\ m # <<>> => m[1] = c[1]
<1>1. c \in Seq(Hit) /\ Len(c) \in Nat /\ DOMAIN c = 1..Len(c)
  BY LenProperties DEF IsRanking
<1>2. CASE m = c
  BY <1>2, <1>1 DEF IsRanking
<1>3. ASSUME NEW s \in Picks(c), m = [n \in 1..Len(s) |-> c[s[n]]]
      PROVE  /\ m \in Seq(Hit)
             /\ \A i, j \in DOMAIN m : m[i].point = m[j].point => i = j
             /\ \A i \in DOMAIN m : m[i].point \in P
             /\ m[1] = c[1]
  <2>1. s \in Seq(DOMAIN c) /\ Len(s) \in Nat /\ Len(s) >= 1 /\ s[1] = 1
    BY DEF Picks
  <2>2. DOMAIN m = 1..Len(s) /\ \A i \in 1..Len(s) : m[i] = c[s[i]] /\ s[i] \in DOMAIN c
    BY <1>3, <2>1, LenProperties
  <2>3. \A i \in 1..Len(s) : c[s[i]] \in Hit
    BY <1>1, <2>2, LenProperties
  <2>4. m \in Seq(Hit)
    BY <1>3, <2>1, <2>3
  <2>5. ASSUME NEW i \in 1..Len(s), NEW j \in 1..Len(s), m[i].point = m[j].point
        PROVE  i = j
    <3>1. s[i] = s[j]
      BY <2>2, <2>5 DEF IsRanking
    <3> QED
      BY <3>1, PicksDiffer
  <2>6. \A i \in 1..Len(s) : m[i].point \in P
    BY <2>2 DEF IsRanking
  <2>7. m[1] = c[1]
    BY <2>1, <2>2
  <2> QED
    BY <2>2, <2>4, <2>5, <2>6, <2>7
<1>4. CASE m # c
  BY <1>3, <1>4 DEF Kept
<1> QED
  BY <1>2, <1>4

LEMMA SecondLast ==
  ASSUME NEW n \in Nat, n > 2
  PROVE  \E o \in [1..n -> 1..n] :
           /\ o[1] = 1 /\ o[n] = 2 /\ \A i \in 2..n - 1 : o[i] = i + 1
           /\ \A i, j \in 1..n : o[i] = o[j] => i = j
           /\ \A j \in 1..n : \E i \in 1..n : o[i] = j
<1> DEFINE o == [i \in 1..n |-> IF i = 1 THEN 1 ELSE IF i = n THEN 2 ELSE i + 1]
<1>1. o \in [1..n -> 1..n]
  OBVIOUS
<1>2. o[1] = 1 /\ o[n] = 2 /\ \A i \in 2..n - 1 : o[i] = i + 1
  OBVIOUS
<1> HIDE DEF o
<1>3. \A i \in 1..n : i = 1 \/ i = n \/ i \in 2..n - 1
  OBVIOUS
<1>4. \A i, j \in 1..n : o[i] = o[j] => i = j
  BY <1>2, <1>3
<1>5. ASSUME NEW j \in 1..n PROVE \E i \in 1..n : o[i] = j
  <2>1. CASE j = 1
    BY <2>1, <1>2
  <2>2. CASE j = 2
    <3>1. n \in 1..n
      OBVIOUS
    <3> QED
      BY <3>1, <2>2, <1>2
  <2>3. CASE j > 2
    <3>1. j - 1 \in 2..n - 1 /\ j - 1 \in 1..n /\ (j - 1) + 1 = j
      BY <2>3
    <3> QED
      BY <3>1, <1>2
  <2> QED
    BY <2>1, <2>2, <2>3
<1> QED
  BY <1>1, <1>2, <1>4, <1>5

\* The prompt's order is a permutation that leaves the first in its place.
Reorders(o, s, r) ==
  /\ o \in [1..Len(s) -> 1..Len(s)]
  /\ \A i, j \in 1..Len(s) : o[i] = o[j] => i = j
  /\ \A j \in 1..Len(s) : \E i \in 1..Len(s) : o[i] = j
  /\ Len(s) >= 1 => o[1] = 1
  /\ DOMAIN r = 1..Len(s)
  /\ \A i \in 1..Len(s) : r[i] = s[o[i]]

LEMMA Reordered ==
  ASSUME NEW s \in Seq(Hit)
  PROVE  \E o : Reorders(o, s, ReorderChunks(s))
<1>1. Len(s) \in Nat /\ DOMAIN s = 1..Len(s)
  BY LenProperties
<1>2. CASE Len(s) <= 2
  <2> DEFINE o == [i \in 1..Len(s) |-> i]
  <2>1. ReorderChunks(s) = s
    BY <1>2 DEF ReorderChunks
  <2>2. o \in [1..Len(s) -> 1..Len(s)] /\ \A i \in 1..Len(s) : o[i] = i
    OBVIOUS
  <2> HIDE DEF o
  <2>3. Reorders(o, s, s)
    BY <1>1, <2>2 DEF Reorders
  <2> QED
    BY <2>1, <2>3
<1>3. CASE Len(s) > 2
  <2>0. PICK n : n = Len(s)
    OBVIOUS
  <2>1. PICK r : r = ReorderChunks(s)
    OBVIOUS
  <2>2. n \in Nat /\ n > 2 /\ ~ (Len(s) <= 2)
    BY <1>1, <1>3, <2>0
  <2>3. s[1] \in Hit /\ s[2] \in Hit
    BY <1>1, <1>3, LenProperties
  <2>4. PICK t : t = SubSeq(s, 3, n)
    OBVIOUS
  <2>5. t \in Seq(Hit) /\ Len(t) = n - 2 /\ \A i \in 1..n - 2 : t[i] = s[i + 2]
    BY <1>1, <2>0, <2>2, <2>4
  <2>6. PICK u : u = <<s[1]>> \o t
    OBVIOUS
  <2>7. <<s[1]>> \in Seq(Hit) /\ <<s[2]>> \in Seq(Hit) /\ Len(<<s[1]>>) = 1 /\ Len(<<s[2]>>) = 1
    BY <2>3
  <2>8. /\ u \in Seq(Hit) /\ Len(u) = n - 1
        /\ \A i \in 1..n - 1 : u[i] = IF i <= 1 THEN <<s[1]>>[i] ELSE t[i - 1]
    BY <2>5, <2>6, <2>7, <2>2, ConcatProperties
  <2>9. r = u \o <<s[2]>>
    BY <2>0, <2>1, <2>2, <2>4, <2>6, Zenon DEF ReorderChunks
  <2>10. /\ r \in Seq(Hit) /\ Len(r) = n
         /\ \A i \in 1..n : r[i] = IF i <= n - 1 THEN u[i] ELSE <<s[2]>>[i - (n - 1)]
    BY <2>7, <2>8, <2>9, <2>2, ConcatProperties
  <2>11. PICK o \in [1..n -> 1..n] :
           /\ o[1] = 1 /\ o[n] = 2 /\ \A i \in 2..n - 1 : o[i] = i + 1
           /\ \A i, j \in 1..n : o[i] = o[j] => i = j
           /\ \A j \in 1..n : \E i \in 1..n : o[i] = j
    BY <2>2, SecondLast
  <2>12. \A i \in 1..n : r[i] = s[o[i]]
    <3>1. r[1] = s[1] /\ r[n] = s[2]
      BY <2>8, <2>10, <2>2
    <3>2. ASSUME NEW i \in 2..n - 1 PROVE r[i] = s[i + 1]
      <4>1. i \in 1..n - 1 /\ i - 1 \in 1..n - 2 /\ (i - 1) + 2 = i + 1 /\ ~ (i <= 1) /\ i \in 1..n
        BY <2>2
      <4>2. r[i] = u[i] /\ u[i] = t[i - 1]
        BY <4>1, <2>8, <2>10
      <4>3. t[i - 1] = s[i + 1]
        BY <4>1, <2>5
      <4> QED
        BY <4>2, <4>3
    <3>3. \A i \in 1..n : i = 1 \/ i = n \/ i \in 2..n - 1
      BY <2>2
    <3>4. o[1] = 1 /\ o[n] = 2 /\ \A i \in 2..n - 1 : o[i] = i + 1
      BY <2>11
    <3> QED
      BY <3>1, <3>2, <3>3, <3>4, Zenon
  <2>13. DOMAIN r = 1..n
    BY <2>10, LenProperties
  <2>14. Reorders(o, s, r)
    BY <2>0, <2>11, <2>12, <2>13 DEF Reorders
  <2> QED
    BY <2>1, <2>14
<1> QED
  BY <1>1, <1>2, <1>3

-----------------------------------------------------------------------------
\* What the graph holds for a query is a ranking of its tenant's points, and
\* what MMR keeps of it.
RankInv ==
  \A q \in Queries : IsRanking(ranked[q], Searchable(q)) /\ Kept(ranked[q], chunks[q])

LEMMA InitTypes == Init => TypeOK /\ RankInv
<1> SUFFICES ASSUME Init PROVE TypeOK /\ RankInv
  OBVIOUS
<1>1. MaxRetries \in Nat
  BY ConstantsAssumption
<1>2. <<>> \in Seq(Hit)
  OBVIOUS
<1>3. TypeOK
  BY <1>1, <1>2 DEF Init, TypeOK
<1>4. RankInv
  BY EmptyRanking DEF Init, RankInv, Kept
<1> QED
  BY <1>3, <1>4

LEMMA GotoTypes ==
  ASSUME TypeOK, NEW q \in Queries, NEW l \in {"retrieve", "synthesize", "evaluate", "done"}, Goto(q, l)
  PROVE  pc' \in [Queries -> {"retrieve", "synthesize", "evaluate", "done"}]
BY DEF TypeOK, Goto

\* A query's lists give way to others.
LEMMA NewLists ==
  ASSUME TypeOK, RankInv, NEW q \in Queries, NEW c, NEW m,
         IsRanking(c, Searchable(q)), Kept(c, m),
         ranked' = [ranked EXCEPT ![q] = c], chunks' = [chunks EXCEPT ![q] = m]
  PROVE  /\ ranked' \in [Queries -> Seq(Hit)]
         /\ chunks' \in [Queries -> Seq(Hit)]
         /\ RankInv'
<1>1. c \in Seq(Hit) /\ m \in Seq(Hit)
  BY KeptIs DEF IsRanking
<1>2. ranked \in [Queries -> Seq(Hit)] /\ chunks \in [Queries -> Seq(Hit)]
  BY DEF TypeOK
<1>3. ranked' \in [Queries -> Seq(Hit)] /\ chunks' \in [Queries -> Seq(Hit)]
  BY <1>1, <1>2
<1>4. ASSUME NEW r \in Queries
      PROVE  IsRanking(ranked'[r], Searchable(r)) /\ Kept(ranked'[r], chunks'[r])
  <2>1. CASE r = q
    <3>1. ranked'[q] = c /\ chunks'[q] = m
      BY <1>2
    <3> QED
      BY <2>1, <3>1
  <2>2. CASE r # q
    <3>1. ranked'[r] = ranked[r] /\ chunks'[r] = chunks[r]
      BY <2>2, <1>2
    <3> QED
      BY <3>1 DEF RankInv
  <2> QED
    BY <2>1, <2>2
<1>5. RankInv'
  BY <1>4 DEF RankInv, Searchable
<1> QED
  BY <1>3, <1>5

LEMMA ForgetTypes ==
  ASSUME TypeOK, RankInv, NEW q \in Queries, Forget(q)
  PROVE  /\ ranked' \in [Queries -> Seq(Hit)]
         /\ chunks' \in [Queries -> Seq(Hit)]
         /\ RankInv'
<1>1. IsRanking(<<>>, Searchable(q)) /\ Kept(<<>>, <<>>)
  BY EmptyRanking DEF Kept
<1> QED
  BY <1>1, NewLists DEF Forget

LEMMA LoggedTypes ==
  ASSUME TypeOK, NEW q \in Queries, NEW c \in Seq(Hit)
  PROVE  Logged(q, c) \subseteq Row
<1>1. attempt[q] \in 0..MaxRetries
  BY DEF TypeOK
<1>2. ASSUME NEW i \in DOMAIN c
      PROVE  [query |-> q, attempt |-> attempt[q], point |-> c[i].point, cited |-> FALSE] \in Row
  <2>1. c[i] \in Hit
    BY LenProperties
  <2>2. c[i].point \in Points
    BY <2>1 DEF Hit
  <2> QED
    BY <2>2, <1>1 DEF Row
<1> QED
  BY <1>2 DEF Logged

LEMMA RetrieveTypes ==
  ASSUME TypeOK, RankInv, NEW q \in Queries, Retrieve(q)
  PROVE  TypeOK' /\ RankInv'
<1>0. PICK x \in Params : \E c \in Candidates[q][x] :
        /\ ranked' = [ranked EXCEPT ![q] = c]
        /\ chunks' = [chunks EXCEPT ![q] = Mmr(c, x[3])]
        /\ rows' \in {rows, rows \cup Logged(q, Mmr(c, x[3]))}
  BY DEF Retrieve
<1>1. PICK c \in Candidates[q][x] :
        /\ ranked' = [ranked EXCEPT ![q] = c]
        /\ chunks' = [chunks EXCEPT ![q] = Mmr(c, x[3])]
        /\ rows' \in {rows, rows \cup Logged(q, Mmr(c, x[3]))}
  BY <1>0, Zenon
<1>2. IsRanking(c, Searchable(q))
  BY <1>1, CandidatesAre
<1>3. x[3] \in Nat \ {0}
  BY ConstantsAssumption
<1>4. Kept(c, Mmr(c, x[3]))
  BY <1>2, <1>3, MmrKeeps DEF IsRanking
<1>5. /\ ranked' \in [Queries -> Seq(Hit)]
      /\ chunks' \in [Queries -> Seq(Hit)]
      /\ RankInv'
  BY <1>1, <1>2, <1>4, NewLists
<1>6. rows' \subseteq Row
  <2>1. Mmr(c, x[3]) \in Seq(Hit)
    BY <1>2, <1>4, KeptIs
  <2>2. Logged(q, Mmr(c, x[3])) \subseteq Row
    BY <2>1, LoggedTypes
  <2> QED
    BY <1>1, <2>2 DEF TypeOK
<1>7. pc' \in [Queries -> {"retrieve", "synthesize", "evaluate", "done"}]
  BY GotoTypes DEF Retrieve
<1> QED
  BY <1>5, <1>6, <1>7 DEF TypeOK, Retrieve

\* Marking a row as cited leaves a row.
LEMMA MarkedRow ==
  ASSUME NEW y \in Row
  PROVE  [y EXCEPT !.cited = TRUE] \in Row
BY MarkedRecord DEF Row

LEMMA SynthesizeTypes ==
  ASSUME TypeOK, RankInv, NEW q \in Queries, Synthesize(q)
  PROVE  TypeOK' /\ RankInv'
<1>1. PICK cites \in SUBSET Points : \E files :
        /\ answered' = answered \cup {<<q, attempt[q], p>> : p \in cites}
        /\ \/ /\ rows' = (rows \ MarkedRows(q, files))
                           \cup {[x EXCEPT !.cited = TRUE] : x \in MarkedRows(q, files)}
              /\ unmarked' = unmarked
           \/ rows' = rows /\ unmarked' = unmarked \cup {q}
  BY DEF Synthesize, Searchable
<1>2. PICK files :
        \/ /\ rows' = (rows \ MarkedRows(q, files))
                        \cup {[x EXCEPT !.cited = TRUE] : x \in MarkedRows(q, files)}
           /\ unmarked' = unmarked
        \/ rows' = rows /\ unmarked' = unmarked \cup {q}
  BY <1>1
<1>3. attempt[q] \in 0..MaxRetries
  BY DEF TypeOK
<1>4. answered' \subseteq Queries \X (0..MaxRetries) \X Points
  BY <1>1, <1>3 DEF TypeOK
<1>5. rows' \subseteq Row
  <2>1. \A x \in MarkedRows(q, files) : [x EXCEPT !.cited = TRUE] \in Row
    BY MarkedRow DEF MarkedRows, TypeOK
  <2> QED
    BY <1>2, <2>1 DEF TypeOK
<1>6. unmarked' \subseteq Queries
  BY <1>2 DEF TypeOK
<1>7. /\ ranked' \in [Queries -> Seq(Hit)]
      /\ chunks' \in [Queries -> Seq(Hit)]
      /\ RankInv'
  BY ForgetTypes DEF Synthesize
<1>8. pc' \in [Queries -> {"retrieve", "synthesize", "evaluate", "done"}]
  BY GotoTypes DEF Synthesize
<1> QED
  BY <1>4, <1>5, <1>6, <1>7, <1>8 DEF TypeOK, Synthesize

LEMMA EvaluateTypes ==
  ASSUME TypeOK, RankInv, NEW q \in Queries, Evaluate(q)
  PROVE  TypeOK' /\ RankInv'
<1>1. attempt[q] + 1 \in 0..MaxRetries
  BY ConstantsAssumption DEF Evaluate, TypeOK
<1>2. attempt' \in [Queries -> 0..MaxRetries]
  BY <1>1 DEF Evaluate, TypeOK
<1>3. pc' \in [Queries -> {"retrieve", "synthesize", "evaluate", "done"}]
  BY GotoTypes DEF Evaluate
<1>4. UNCHANGED <<ranked, chunks, rows, answered, unmarked>>
  BY DEF Evaluate
<1> QED
  BY <1>2, <1>3, <1>4 DEF TypeOK, RankInv, Searchable

LEMMA StepTypes ==
  ASSUME TypeOK, RankInv, [Next]_vars
  PROVE  TypeOK' /\ RankInv'
<1>1. CASE UNCHANGED vars
  BY <1>1 DEF vars, TypeOK, RankInv, Searchable
<1>2. ASSUME NEW q \in Queries, Retrieve(q) PROVE TypeOK' /\ RankInv'
  BY <1>2, RetrieveTypes
<1>3. ASSUME NEW q \in Queries, NEW l \in {"retrieve", "synthesize", "evaluate", "done"},
             Goto(q, l), Forget(q), UNCHANGED <<attempt, rows, answered, unmarked>>
      PROVE  TypeOK' /\ RankInv'
  <2>1. /\ ranked' \in [Queries -> Seq(Hit)]
        /\ chunks' \in [Queries -> Seq(Hit)]
        /\ RankInv'
    BY <1>3, ForgetTypes
  <2>2. pc' \in [Queries -> {"retrieve", "synthesize", "evaluate", "done"}]
    BY <1>3, GotoTypes
  <2> QED
    BY <1>3, <2>1, <2>2 DEF TypeOK
<1>4. ASSUME NEW q \in Queries, RetrieveNothing(q) PROVE TypeOK' /\ RankInv'
  BY <1>3, <1>4 DEF RetrieveNothing
<1>5. ASSUME NEW q \in Queries, Synthesize(q) PROVE TypeOK' /\ RankInv'
  BY <1>5, SynthesizeTypes
<1>6. ASSUME NEW q \in Queries, SynthesizeNothing(q) PROVE TypeOK' /\ RankInv'
  BY <1>3, <1>6 DEF SynthesizeNothing
<1>7. ASSUME NEW q \in Queries, EvaluatePasses(q) PROVE TypeOK' /\ RankInv'
  <2>1. pc' \in [Queries -> {"retrieve", "synthesize", "evaluate", "done"}]
    BY <1>7, GotoTypes DEF EvaluatePasses
  <2> QED
    BY <1>7, <2>1 DEF EvaluatePasses, TypeOK, RankInv, Searchable
<1>8. ASSUME NEW q \in Queries, Evaluate(q) PROVE TypeOK' /\ RankInv'
  BY <1>8, EvaluateTypes
<1>9. ASSUME NEW q \in Queries, Crash(q) PROVE TypeOK' /\ RankInv'
  BY <1>3, <1>9 DEF Crash
<1> QED
  BY <1>1, <1>2, <1>4, <1>5, <1>6, <1>7, <1>8, <1>9 DEF Next

LEMMA InvariantHolds == Spec => [](TypeOK /\ RankInv)
<1>1. Init => TypeOK /\ RankInv
  BY InitTypes
<1>2. (TypeOK /\ RankInv) /\ [Next]_vars => (TypeOK /\ RankInv)'
  BY StepTypes
<1> QED
  BY <1>1, <1>2, PTL DEF Spec

\* Whatever is searched, reranked, picked, answered and labelled, the graph's
\* state stays in its types: no list ever holds an index MMR made up.
THEOREM RetrieverTypes == Spec => []TypeOK
BY InvariantHolds, PTL

-----------------------------------------------------------------------------
LEMMA PromptOf ==
  ASSUME NEW P, NEW c, IsRanking(c, P), NEW s, Kept(c, s), NEW r, r = ReorderChunks(s)
  PROVE  /\ \A i, j \in DOMAIN r : r[i].point = r[j].point => i = j
         /\ \A i \in DOMAIN r : r[i].point \in P
         /\ Range(r) = Range(s)
         /\ r # <<>> => \A i \in DOMAIN c : r[1].score >= c[i].score
<1>1. /\ s \in Seq(Hit)
      /\ \A i, j \in DOMAIN s : s[i].point = s[j].point => i = j
      /\ \A i \in DOMAIN s : s[i].point \in P
      /\ s # <<>> => s[1] = c[1]
  BY KeptIs
<1>2. Len(s) \in Nat /\ DOMAIN s = 1..Len(s) /\ (s # <<>> => Len(s) >= 1)
  BY <1>1, LenProperties, EmptySeq
<1>3. PICK o : Reorders(o, s, r)
  BY <1>1, Reordered
<1>4. DOMAIN r = DOMAIN s /\ \A i \in DOMAIN r : o[i] \in DOMAIN s /\ r[i] = s[o[i]]
  BY <1>2, <1>3 DEF Reorders
<1>5. ASSUME NEW i \in DOMAIN r, NEW j \in DOMAIN r, r[i].point = r[j].point PROVE i = j
  <2>1. o[i] \in DOMAIN s /\ o[j] \in DOMAIN s /\ s[o[i]].point = s[o[j]].point
    BY <1>4, <1>5
  <2>2. o[i] = o[j]
    BY <1>1, <2>1
  <2> QED
    BY <2>2, <1>2, <1>3, <1>4 DEF Reorders
<1>6. \A i \in DOMAIN r : r[i].point \in P
  BY <1>1, <1>4
<1>7. Range(r) = Range(s)
  <2>1. ASSUME NEW j \in DOMAIN s PROVE \E i \in DOMAIN r : r[i] = s[j]
    BY <1>2, <1>3 DEF Reorders
  <2> QED
    BY <2>1, <1>4 DEF Range
<1>8. ASSUME r # <<>> PROVE \A i \in DOMAIN c : r[1].score >= c[i].score
  <2>1. s # <<>>
    BY <1>8 DEF ReorderChunks
  <2>2. r[1] = s[1] /\ s[1] = c[1]
    BY <2>1, <1>1, <1>2, <1>3 DEF Reorders
  <2> QED
    BY <2>2, FirstIsBest
<1> QED
  BY <1>5, <1>6, <1>7, <1>8

\* The prompt shows distinct chunks of the asking tenant alone, all that MMR
\* chose, and opens with one that nothing the reranker kept is rated above: for
\* any collection, any scores and any parameters.
THEOREM PromptIsRight == Spec => []PromptIsOwnAndBestFirst
<1>1. RankInv => PromptIsOwnAndBestFirst
  <2> SUFFICES ASSUME RankInv, NEW q \in Queries
               PROVE  LET prompt == ReorderChunks(chunks[q])
                          point == [i \in DOMAIN prompt |-> prompt[i].point]
                      IN pc[q] = "synthesize" /\ prompt # <<>> =>
                           /\ IsInjective(point)
                           /\ \A i \in DOMAIN prompt : PointTenant[point[i]] = QueryTenant[q]
                           /\ Range(prompt) = Range(chunks[q])
                           /\ \A i \in DOMAIN ranked[q] : prompt[1].score >= ranked[q][i].score
    BY DEF PromptIsOwnAndBestFirst
  <2>1. PICK c, s, r : c = ranked[q] /\ s = chunks[q] /\ r = ReorderChunks(s)
    OBVIOUS
  <2>2. IsRanking(c, Searchable(q)) /\ Kept(c, s)
    BY <2>1 DEF RankInv
  <2>3. /\ \A i, j \in DOMAIN r : r[i].point = r[j].point => i = j
        /\ \A i \in DOMAIN r : r[i].point \in Searchable(q)
        /\ Range(r) = Range(s)
        /\ r # <<>> => \A i \in DOMAIN c : r[1].score >= c[i].score
    BY <2>1, <2>2, PromptOf
  <2>4. \A i \in DOMAIN r : PointTenant[r[i].point] = QueryTenant[q]
    BY <2>3 DEF Searchable
  <2>5. IsInjective([i \in DOMAIN r |-> r[i].point])
    BY <2>3 DEF IsInjective
  <2> QED
    BY <2>1, <2>3, <2>4, <2>5
<1> QED
  BY <1>1, InvariantHolds, PTL

-----------------------------------------------------------------------------
\* p repeats no point among the first n of m.
NewAmong(p, m, n) == \A j \in 1..n : <<p, m[j].point>> \notin Copies

LEMMA VarietyOf ==
  ASSUME NEW P, NEW c, IsRanking(c, P), NEW m, Kept(c, m),
         NEW i \in 2..Len(m), NEW x \in Range(c) \ Range(m),
         ~ NewAmong(m[i].point, m, i - 1), NewAmong(x.point, m, i - 1)
  PROVE  3 * (m[i].score - x.score) >= 200
<1>1. c \in Seq(Hit) /\ DOMAIN c = 1..Len(c)
  BY LenProperties DEF IsRanking
<1>2. m # c
  OBVIOUS
<1>3. PICK s \in Picks(c) : m = [n \in 1..Len(s) |-> c[s[n]]]
  BY <1>2 DEF Kept
<1>4. s \in Seq(DOMAIN c) /\ Len(s) \in Nat
  BY DEF Picks
<1>5. DOMAIN m = 1..Len(s) /\ Len(m) = Len(s) /\ \A n \in 1..Len(s) : m[n] = c[s[n]]
  BY <1>3, <1>4
<1>6. PICK k \in DOMAIN c : x = c[k]
  BY DEF Range
<1> DEFINE B == {s[j] : j \in 1..i - 1}
<1>7. i \in 2..Len(s) /\ \A j \in 1..i - 1 : j \in 1..Len(s)
  BY <1>4, <1>5
<1>8. k \notin B
  <2>1. \A j \in 1..Len(s) : c[s[j]] # x
    BY <1>5 DEF Range
  <2> QED
    BY <2>1, <1>6, <1>7
<1>9. s[i] \in DOMAIN c /\ m[i] = c[s[i]]
  BY <1>4, <1>5, <1>7, LenProperties
<1>10. Scored(c, s[i], B) >= Scored(c, k, B)
  <2>1. Best(c, s[i], B)
    BY <1>7 DEF Picks
  <2> HIDE DEF B
  <2> QED
    BY <2>1, <1>8 DEF Best
<1>11. MaxSim(c[s[i]].point, {c[j].point : j \in B}) = 100
  <2>1. PICK j \in 1..i - 1 : <<m[i].point, m[j].point>> \in Copies
    BY DEF NewAmong
  <2>2. m[j].point = c[s[j]].point /\ s[j] \in B
    BY <1>5, <1>7
  <2>3. m[j].point \in {c[b].point : b \in B}
    BY <2>2
  <2> HIDE DEF B
  <2> QED
    BY <2>1, <2>3, <1>9 DEF MaxSim
<1>12. MaxSim(c[k].point, {c[j].point : j \in B}) = 0
  <2>1. ASSUME NEW p \in {c[j].point : j \in B} PROVE <<x.point, p>> \notin Copies
    <3>1. PICK j \in 1..i - 1 : p = c[s[j]].point
      OBVIOUS
    <3>2. p = m[j].point
      BY <3>1, <1>5, <1>7
    <3> QED
      BY <3>2 DEF NewAmong
  <2> HIDE DEF B
  <2> QED
    BY <2>1, <1>6 DEF MaxSim
<1>13. c[s[i]].score \in 0..100 /\ c[k].score \in 0..100
  <2>1. c[s[i]] \in Hit /\ c[k] \in Hit
    BY <1>1, <1>9, LenProperties
  <2> QED
    BY <2>1, ConstantsAssumption DEF Hit
<1>14. PICK a, b : a = c[s[i]].score /\ b = c[k].score
  OBVIOUS
<1>15. Scored(c, s[i], B) = 6 * a - 4 * 100 /\ Scored(c, k, B) = 6 * b - 4 * 0
  <2> HIDE DEF B
  <2> QED
    BY <1>11, <1>12, <1>14 DEF Scored
<1>16. 6 * a - 4 * 100 >= 6 * b - 4 * 0
  BY <1>10, <1>15
<1>17. a \in 0..100 /\ b \in 0..100
  BY <1>13, <1>14
<1>18. 3 * (a - b) >= 200
  BY <1>16, <1>17
<1> QED
  BY <1>6, <1>9, <1>14, <1>18

\* A copy takes a place in the prompt only from copies, or from candidates
\* rated two thirds of the scale below it: for any candidates and any number
\* of places.
THEOREM VarietyHolds == Spec => []VarietyBeforeCopies
<1>1. RankInv => VarietyBeforeCopies
  <2> SUFFICES ASSUME RankInv, NEW q \in Queries,
                      NEW i \in 2..Len(chunks[q]),
                      NEW x \in Range(ranked[q]) \ Range(chunks[q]),
                      ~ NewAmong(chunks[q][i].point, chunks[q], i - 1),
                      NewAmong(x.point, chunks[q], i - 1)
               PROVE  3 * (chunks[q][i].score - x.score) >= 200
    BY DEF VarietyBeforeCopies, NewAmong
  <2>1. PICK c, m : c = ranked[q] /\ m = chunks[q]
    OBVIOUS
  <2>2. IsRanking(c, Searchable(q)) /\ Kept(c, m)
    BY <2>1 DEF RankInv
  <2>3. /\ i \in 2..Len(m) /\ x \in Range(c) \ Range(m)
        /\ ~ NewAmong(m[i].point, m, i - 1) /\ NewAmong(x.point, m, i - 1)
    BY <2>1
  <2>4. 3 * (m[i].score - x.score) >= 200
    BY <2>2, <2>3, VarietyOf
  <2> QED
    BY <2>1, <2>4
<1> QED
  BY <1>1, InvariantHolds, PTL
=============================================================================
