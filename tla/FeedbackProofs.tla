---------------------------- MODULE FeedbackProofs ----------------------------
(***************************************************************************)
(* Theorems about Feedback, for any submissions, workers, threshold and    *)
(* window.                                                                 *)
(***************************************************************************)
EXTENDS Feedback, FiniteSetTheorems, TLAPS

USE DEF DefaultTopK, TopKMin, TopKMax, RerankMin, RerankMax, MmrMin, MmrMax

\* For every top_k in the range the three parameters are in theirs, and narrow
\* like a funnel.
LEMMA ScaledNarrows ==
  ASSUME NEW k \in TopKMin..TopKMax
  PROVE  /\ Scaled(k) \in Params
         /\ Scaled(k).top_k = k
         /\ Scaled(k).mmr_final_k <= Scaled(k).rerank_top_n
         /\ Scaled(k).rerank_top_n <= Scaled(k).top_k
<1>1. /\ Clamp(RoundRerank(k), RerankMin, RerankMax) \in RerankMin..RerankMax
      /\ Clamp(RoundMmr(k), MmrMin, MmrMax) \in MmrMin..MmrMax
      /\ Clamp(RoundMmr(k), MmrMin, MmrMax) <= Clamp(RoundRerank(k), RerankMin, RerankMax)
      /\ Clamp(RoundRerank(k), RerankMin, RerankMax) <= k
  BY DEF Clamp, Smaller, Larger, RoundRerank, RoundMmr
<1> QED
  BY <1>1 DEF Scaled, Params

\* A tune stays in the range.
LEMMA AdjustedInRange ==
  ASSUME NEW k \in TopKMin..TopKMax, NEW helpful \in Nat, NEW total \in Nat
  PROVE  Adjusted(k, helpful, total) \in TopKMin..TopKMax
  BY DEF Adjusted, Smaller, Larger

\* A positive multiple of n is at least n.
LEMMA MultipleAtLeast ==
  ASSUME NEW t \in Nat, NEW n \in Nat \ {0}, t > 0, t % n = 0
  PROVE  t >= n
  OBVIOUS

\* The rows are finitely many, whatever subset of them is counted.
LEMMA CountsAreNaturals ==
  ASSUME NEW S, S \subseteq Submissions
  PROVE  IsFiniteSet(S) /\ Cardinality(S) \in Nat
  BY ConstantsAssumption, FS_Subset, FS_CardinalityType

LEMMA NextStartType == NextStart \in Nat
<1>1. Cardinality(Submissions) \in Nat
  BY CountsAreNaturals
<1>2. IsFiniteSet(1..Cardinality(Submissions))
  BY <1>1, FS_Interval
<1>3. IsFiniteSet({n \in 1..Cardinality(Submissions) :
                     \E g \in Submissions : sub[g].start >= n})
  BY <1>2, FS_Subset
<1> QED
  BY <1>3, FS_CardinalityType DEF NextStart

Call == [pc : SubStates, id : Ids \cup {NoId}, helpful : BOOLEAN,
         start : Nat, total : Nat]
Task == [pc : {"idle", "read", "signal"}, top_k : Nat, helpful : Nat, total : Nat]

LEMMA NoCallType == NoCall \in Call /\ NoTask \in Task
  BY DEF NoCall, NoTask, Call, Task, SubStates

\* The updates the actions make of a call's record.
LEMMA CallUpdates ==
  ASSUME NEW s \in Call, NEW id \in Ids, NEW h \in BOOLEAN, NEW n \in Nat
  PROVE  /\ [s EXCEPT !.pc = "inserted", !.id = id, !.helpful = h, !.start = n] \in Call
         /\ [s EXCEPT !.pc = "refused", !.id = id] \in Call
<1>1. {"inserted", "refused"} \subseteq SubStates
  BY DEF SubStates
<1> QED BY <1>1 DEF Call

LEMMA CallEnds ==
  ASSUME NEW s \in Call, NEW n \in Nat
  PROVE  /\ [s EXCEPT !.pc = "counted", !.total = n] \in Call
         /\ [s EXCEPT !.pc = "stored"] \in Call
         /\ [s EXCEPT !.pc = "ok", !.total = 0] \in Call
         /\ [s EXCEPT !.pc = "failed"] \in Call
         /\ [s EXCEPT !.pc = "failed", !.total = 0] \in Call
         /\ [s EXCEPT !.pc = "gone"] \in Call
         /\ [s EXCEPT !.pc = "gone", !.total = 0] \in Call
<1>1. {"counted", "stored", "ok", "failed", "gone"} \subseteq SubStates
  BY DEF SubStates
<1> QED BY <1>1 DEF Call

\* Types and parameters: one step per action.
LEMMA TypesKept ==
  ASSUME TypeOK, ParamsInv, Next
  PROVE  TypeOK' /\ ParamsInv'
<1> USE DEF TypeOK, ParamsInv, db, history, Task
<1>a. sub \in [Submissions -> Call]
  BY DEF Call
<1>b. sub' \in [Submissions -> Call] =>
        sub' \in [Submissions -> [pc : SubStates, id : Ids \cup {NoId},
                                  helpful : BOOLEAN, start : Nat, total : Nat]]
  BY DEF Call
<1>0. Cardinality(committed) \in Nat
  BY CountsAreNaturals
<1>1. ASSUME NEW q \in Queries, Answer(q) PROVE TypeOK' /\ ParamsInv'
  BY <1>1 DEF Answer
<1>2. ASSUME NEW f \in Submissions, Insert(f) PROVE TypeOK' /\ ParamsInv'
  <2>1. \A id \in Ids, h \in BOOLEAN :
          [NoCall EXCEPT !.pc = "inserted", !.id = id, !.helpful = h,
                         !.start = NextStart] \in Call
    BY NoCallType, NextStartType, CallUpdates
  <2>2. sub' \in [Submissions -> Call]
    <3>1. PICK q \in audit, h \in BOOLEAN :
            sub' = [sub EXCEPT ![f] = [NoCall EXCEPT !.pc = "inserted", !.id = RowId(q),
                                         !.helpful = h, !.start = NextStart]]
      BY <1>2 DEF Insert
    <3>2. RowId(q) \in Ids
      BY DEF Ids
    <3> QED BY <1>a, <2>1, <3>1, <3>2
  <2> QED BY <1>2, <1>b, <2>2 DEF Insert
<1>3. ASSUME NEW f \in Submissions, InsertRefused(f) PROVE TypeOK' /\ ParamsInv'
  <2>1. \A id \in Ids : [NoCall EXCEPT !.pc = "refused", !.id = id] \in Call
    BY NoCallType, CallUpdates
  <2>2. sub' \in [Submissions -> Call]
    <3>1. PICK q \in answered :
            sub' = [sub EXCEPT ![f] = [NoCall EXCEPT !.pc = "refused", !.id = QueryId(q)]]
      BY <1>3 DEF InsertRefused
    <3>2. QueryId(q) \in Ids
      BY DEF Ids
    <3> QED BY <1>a, <2>1, <3>1, <3>2
  <2> QED BY <1>3, <1>b, <2>2 DEF InsertRefused
<1>4. ASSUME NEW f \in Submissions, Count(f) PROVE TypeOK' /\ ParamsInv'
  <2>1. Cardinality(committed) + 1 \in Nat
    BY <1>0
  <2>2. [sub[f] EXCEPT !.pc = "counted", !.total = Cardinality(committed) + 1] \in Call
    BY <1>a, <2>1, CallEnds
  <2>3. sub' = [sub EXCEPT ![f] = [sub[f] EXCEPT !.pc = "counted",
                                        !.total = Cardinality(committed) + 1]]
    BY <1>4 DEF Count
  <2>4. sub' \in [Submissions -> Call]
    BY <1>a, <2>2, <2>3
  <2>5. racing' \in BOOLEAN
    BY <1>4 DEF Count
  <2> QED BY <1>4, <1>b, <2>4, <2>5 DEF Count
<1>5. ASSUME NEW f \in Submissions, Commit(f) PROVE TypeOK' /\ ParamsInv'
  <2>1. [sub[f] EXCEPT !.pc = "stored"] \in Call
    BY <1>a, CallEnds
  <2>2. sub' \in [Submissions -> Call]
    BY <1>5, <1>a, <2>1 DEF Commit
  <2> QED BY <1>5, <1>b, <2>2 DEF Commit
<1>6. ASSUME NEW f \in Submissions, Rollback(f) PROVE TypeOK' /\ ParamsInv'
  <2>1. [NoCall EXCEPT !.pc = "failed"] \in Call
    BY NoCallType, CallEnds
  <2>2. sub' \in [Submissions -> Call]
    BY <1>6, <1>a, <2>1 DEF Rollback
  <2> QED BY <1>6, <1>b, <2>2 DEF Rollback
<1>7. ASSUME NEW f \in Submissions, Trigger(f) PROVE TypeOK' /\ ParamsInv'
  <2>1. /\ [sub[f] EXCEPT !.pc = "ok", !.total = 0] \in Call
        /\ [sub[f] EXCEPT !.pc = "failed", !.total = 0] \in Call
    BY <1>a, CallEnds
  <2>2. \/ sub' = [sub EXCEPT ![f] = [sub[f] EXCEPT !.pc = "ok", !.total = 0]]
        \/ sub' = [sub EXCEPT ![f] = [sub[f] EXCEPT !.pc = "failed", !.total = 0]]
    BY <1>7 DEF Trigger
  <2>3. sub' \in [Submissions -> Call]
    BY <1>a, <2>1, <2>2
  <2>4. queue' \in Nat /\ asked' \in Nat
    BY <1>7 DEF Trigger
  <2>6. mishap' = mishap \/ mishap' = TRUE
    BY <1>7, Zenon DEF Trigger
  <2>5. UNCHANGED <<answered, audit, committed, params, task, racing, tuneRacing>>
    BY <1>7 DEF Trigger
  <2> QED BY <1>b, <2>3, <2>4, <2>5, <2>6
<1>8. ASSUME NEW f \in Submissions, ApiCrash(f) PROVE TypeOK' /\ ParamsInv'
  <2>1. [NoCall EXCEPT !.pc = "gone"] \in Call
    BY NoCallType, CallEnds
  <2>2. [sub[f] EXCEPT !.pc = "gone", !.total = 0] \in Call
    BY <1>a, CallEnds
  <2>3. sub' \in [Submissions -> Call]
    BY <1>8, <1>a, <2>1, <2>2 DEF ApiCrash
  <2>4. mishap' \in BOOLEAN
    BY <1>8 DEF ApiCrash
  <2> QED BY <1>8, <1>b, <2>3, <2>4 DEF ApiCrash
<1>9. ASSUME NEW w \in Workers, ReadParams(w) PROVE TypeOK' /\ ParamsInv'
  <2>1. params.top_k \in TopKMin..TopKMax
    BY ScaledNarrows
  <2>2. task' \in [Workers -> Task]
    <3> DEFINE read == [task[w] EXCEPT !.pc = "read", !.top_k = params.top_k]
    <3>1. \A t \in Task, n \in Nat : [t EXCEPT !.pc = "read", !.top_k = n] \in Task
      OBVIOUS
    <3>2. params.top_k \in Nat
      BY <2>1
    <3>3. read \in Task
      BY <3>1, <3>2
    <3>4. task' = [task EXCEPT ![w] = read]
      BY <1>9 DEF ReadParams
    <3> HIDE DEF read
    <3> QED BY <3>3, <3>4
  <2>3. queue' \in Nat
    BY <1>9 DEF ReadParams
  <2>4. \A v \in Workers : task'[v].pc # "idle" => task'[v].top_k \in TopKMin..TopKMax
    BY <1>9, <2>1 DEF ReadParams
  <2>5. UNCHANGED <<answered, audit, committed, params, sub, asked, racing, mishap>>
    BY <1>9 DEF ReadParams
  <2>6. tuneRacing' \in BOOLEAN
    BY <1>9, Zenon DEF ReadParams
  <2> QED BY <2>2, <2>3, <2>4, <2>5, <2>6
<1>10. ASSUME NEW w \in Workers, ReadSignal(w) PROVE TypeOK' /\ ParamsInv'
  <2>1. /\ Cardinality({f \in Recent : sub[f].helpful}) \in Nat
        /\ Smaller(Window, Cardinality(committed)) \in Nat
    BY <1>0, CountsAreNaturals, ConstantsAssumption DEF Recent, Smaller
  <2>2. task' \in [Workers -> Task]
    <3> DEFINE helpful == Cardinality({f \in Recent : sub[f].helpful})
               total == Smaller(Window, Cardinality(committed))
    <3>1. \A s \in Task, m \in Nat, n \in Nat :
            [s EXCEPT !.pc = "signal", !.helpful = m, !.total = n] \in Task
      OBVIOUS
    <3>2. task' = [task EXCEPT ![w] = [task[w] EXCEPT !.pc = "signal",
                                         !.helpful = helpful, !.total = total]]
      BY <1>10 DEF ReadSignal
    <3>3. helpful \in Nat /\ total \in Nat /\ task[w] \in Task
      BY <2>1
    <3> HIDE DEF helpful, total
    <3>4. [task[w] EXCEPT !.pc = "signal", !.helpful = helpful, !.total = total] \in Task
      BY <3>1, <3>3
    <3> QED BY <3>2, <3>4
  <2>3. \A v \in Workers : task'[v].pc # "idle" => task'[v].top_k \in TopKMin..TopKMax
    BY <1>10 DEF ReadSignal
  <2> QED BY <1>10, <2>2, <2>3 DEF ReadSignal
<1>11. ASSUME NEW w \in Workers, WriteParams(w) PROVE TypeOK' /\ ParamsInv'
  <2>1. task' \in [Workers -> Task]
    BY <1>11, NoCallType DEF WriteParams
  <2>2. params' \in {Scaled(k) : k \in TopKMin..TopKMax}
    BY <1>11, AdjustedInRange DEF WriteParams
  <2>3. params' \in Params
    BY <2>2, ScaledNarrows
  <2>4. \A v \in Workers : task'[v].pc # "idle" => task'[v].top_k \in TopKMin..TopKMax
    BY <1>11 DEF WriteParams, NoTask
  <2> QED BY <1>11, <2>1, <2>2, <2>3, <2>4 DEF WriteParams
<1>12. ASSUME NEW w \in Workers, TaskFails(w) PROVE TypeOK' /\ ParamsInv'
  <2>1. task' \in [Workers -> Task]
    BY <1>12, NoCallType DEF TaskFails
  <2>2. \A v \in Workers : task'[v].pc # "idle" => task'[v].top_k \in TopKMin..TopKMax
    BY <1>12 DEF TaskFails, NoTask
  <2> QED BY <1>12, <2>1, <2>2 DEF TaskFails
<1> QED
  BY <1>1, <1>2, <1>3, <1>4, <1>5, <1>6, <1>7, <1>8, <1>9, <1>10, <1>11,
     <1>12 DEF Next, Request, Tune

\* Type correctness, and that parameters are those of a top_k in the range.
THEOREM TypeCorrect == Spec => [](TypeOK /\ ParamsInv)
<1>1. Init => TypeOK /\ ParamsInv
  <2> SUFFICES ASSUME Init PROVE TypeOK /\ ParamsInv
    OBVIOUS
  <2>1. PICK k \in TopKMin..TopKMax : params = Scaled(k)
    BY ConstantsAssumption DEF Init
  <2>2. params \in Params
    BY <2>1, ScaledNarrows
  <2>3. sub \in [Submissions -> Call] /\ task \in [Workers -> Task]
    BY NoCallType DEF Init
  <2> QED BY <2>1, <2>2, <2>3 DEF Init, TypeOK, ParamsInv, Call, Task, NoTask
<1>2. TypeOK /\ ParamsInv /\ [Next]_vars => (TypeOK /\ ParamsInv)'
  <2>1. CASE UNCHANGED vars
    BY <2>1 DEF vars, db, history, TypeOK, ParamsInv
  <2> QED BY <2>1, TypesKept
<1> QED
  BY <1>1, <1>2, PTL DEF Spec

\* Whatever was tuned, and by however many tasks at once, search, rerank and
\* MMR ask for fewer and fewer chunks.
THEOREM Narrows == Spec => []FunnelNarrows
<1>1. ParamsInv => FunnelNarrows
  BY ScaledNarrows DEF ParamsInv, FunnelNarrows, Readable
<1> QED
  BY <1>1, TypeCorrect, PTL

\* Every task finds the rows that made it due.
LEMMA RowsKept ==
  ASSUME TypeOK, RowsInv, Next
  PROVE  RowsInv'
<1> DEFINE Calls ==
      \A f \in Submissions :
        /\ sub[f].pc \in {"idle", "inserted", "counted"} => f \notin committed
        /\ sub[f].pc = "counted" =>
             sub[f].total > 0 /\ sub[f].total <= Cardinality(committed) + 1
        /\ sub[f].pc = "stored" =>
             sub[f].total > 0 /\ sub[f].total <= Cardinality(committed)
    Enough ==
      queue > 0 \/ (\E w \in Workers : task[w].pc # "idle")
        => Cardinality(committed) >= TuneEveryN
<1> USE DEF TypeOK, db, history
<1>0. Cardinality(committed) \in Nat /\ IsFiniteSet(committed)
  BY CountsAreNaturals
<1>a. Calls /\ Enough /\ TuneSeesItsRows
  BY DEF RowsInv
<1>b. Calls' /\ Enough' /\ TuneSeesItsRows' => RowsInv'
  BY DEF RowsInv
\* Nothing a task does, and nothing outside, disturbs the calls or the rows.
<1>c. ASSUME UNCHANGED <<sub, committed>> PROVE Calls'
  BY <1>a, <1>c
<1>d. ASSUME UNCHANGED <<committed, queue, task>> PROVE Enough' /\ TuneSeesItsRows'
  BY <1>a, <1>d DEF TuneSeesItsRows
<1>1. ASSUME NEW q \in Queries, Answer(q) PROVE RowsInv'
  BY <1>1, <1>b, <1>c, <1>d DEF Answer
<1>2. ASSUME NEW f \in Submissions, Insert(f) PROVE RowsInv'
  <2>1. sub'[f].pc = "inserted" /\ \A g \in Submissions \ {f} : sub'[g] = sub[g]
    <3>1. PICK q \in audit, h \in BOOLEAN :
            sub' = [sub EXCEPT ![f] = [NoCall EXCEPT !.pc = "inserted", !.id = RowId(q),
                                         !.helpful = h, !.start = NextStart]]
      BY <1>2 DEF Insert
    <3> QED BY <3>1 DEF NoCall
  <2>2. sub[f].pc = "idle" /\ UNCHANGED <<committed, queue, task>>
    BY <1>2 DEF Insert
  <2>3. Calls'
    BY <1>a, <2>1, <2>2
  <2> QED BY <1>b, <1>d, <2>2, <2>3
<1>3. ASSUME NEW f \in Submissions, InsertRefused(f) PROVE RowsInv'
  <2>1. sub'[f].pc = "refused" /\ \A g \in Submissions \ {f} : sub'[g] = sub[g]
    BY <1>3 DEF InsertRefused, NoCall
  <2>2. UNCHANGED <<committed, queue, task>>
    BY <1>3 DEF InsertRefused
  <2>3. Calls'
    BY <1>a, <2>1, <2>2
  <2> QED BY <1>b, <1>d, <2>2, <2>3
<1>4. ASSUME NEW f \in Submissions, Count(f) PROVE RowsInv'
  <2>1. UNCHANGED <<committed, queue, task>>
    BY <1>4 DEF Count
  <2>2. sub[f].pc = "inserted" /\ f \notin committed
    BY <1>4, <1>a DEF Count
  <2>3. sub'[f].pc = "counted" /\ sub'[f].total = Cardinality(committed) + 1
    BY <1>4 DEF Count
  <2>4. \A g \in Submissions \ {f} : sub'[g] = sub[g]
    BY <1>4 DEF Count
  <2>5. Calls'
    BY <1>0, <1>a, <2>1, <2>2, <2>3, <2>4
  <2> QED BY <1>b, <1>d, <2>1, <2>5
\* The row counted is one of those committed from here on.
<1>5. ASSUME NEW f \in Submissions, Commit(f) PROVE RowsInv'
  <2>1. f \notin committed /\ committed' = committed \cup {f} /\ UNCHANGED <<queue, task>>
    BY <1>5, <1>a DEF Commit
  <2>2. Cardinality(committed') = Cardinality(committed) + 1
    BY <1>0, <2>1, FS_AddElement
  <2>3. sub'[f].pc = "stored" /\ sub'[f].total = sub[f].total /\ sub[f].pc = "counted"
    BY <1>5 DEF Commit
  <2>4. \A g \in Submissions \ {f} : sub'[g] = sub[g]
    BY <1>5 DEF Commit
  <2>5. \A g \in Submissions : sub[g].total \in Nat
    OBVIOUS
  <2>6. Calls'
    BY <1>0, <1>a, <2>1, <2>2, <2>3, <2>4, <2>5
  <2>7. Enough'
    BY <1>0, <1>a, <2>1, <2>2, ConstantsAssumption
  <2>8. TuneSeesItsRows'
    BY <1>a, <2>1 DEF TuneSeesItsRows
  <2> QED BY <1>b, <2>6, <2>7, <2>8
<1>6. ASSUME NEW f \in Submissions, Rollback(f) PROVE RowsInv'
  <2>1. sub'[f].pc = "failed" /\ \A g \in Submissions \ {f} : sub'[g] = sub[g]
    BY <1>6 DEF Rollback, NoCall
  <2>2. UNCHANGED <<committed, queue, task>>
    BY <1>6 DEF Rollback
  <2>3. Calls'
    BY <1>a, <2>1, <2>2
  <2> QED BY <1>b, <1>d, <2>2, <2>3
<1>7. ASSUME NEW f \in Submissions, Trigger(f) PROVE RowsInv'
  <2>1. UNCHANGED <<committed, task>>
    BY <1>7 DEF Trigger
  <2>2. sub'[f].pc \in {"ok", "failed"}
    BY <1>7 DEF Trigger
  <2>3. \A g \in Submissions \ {f} : sub'[g] = sub[g]
    BY <1>7 DEF Trigger
  <2>4. Calls'
    BY <1>a, <2>1, <2>2, <2>3
  <2>5. queue' # queue => sub[f].total % TuneEveryN = 0
    BY <1>7 DEF Trigger
  <2>6. /\ sub[f].total \in Nat /\ sub[f].total > 0
        /\ sub[f].total <= Cardinality(committed)
    BY <1>a, <1>7 DEF Trigger
  <2>7. queue' # queue => sub[f].total >= TuneEveryN
    BY <2>5, <2>6, MultipleAtLeast, ConstantsAssumption
  <2>8. Enough'
    BY <1>0, <1>a, <2>1, <2>6, <2>7, ConstantsAssumption
  <2>9. TuneSeesItsRows'
    BY <1>a, <2>1 DEF TuneSeesItsRows
  <2> QED BY <1>b, <2>4, <2>8, <2>9
<1>8. ASSUME NEW f \in Submissions, ApiCrash(f) PROVE RowsInv'
  <2>1. UNCHANGED <<committed, queue, task>>
    BY <1>8 DEF ApiCrash
  <2>2. sub'[f].pc = "gone"
    BY <1>8 DEF ApiCrash, NoCall
  <2>3. \A g \in Submissions \ {f} : sub'[g] = sub[g]
    BY <1>8 DEF ApiCrash
  <2>4. Calls'
    BY <1>a, <2>1, <2>2, <2>3
  <2> QED BY <1>b, <1>d, <2>1, <2>4
<1>9. ASSUME NEW w \in Workers, ReadParams(w) PROVE RowsInv'
  <2>1. UNCHANGED <<sub, committed>> /\ queue > 0
    BY <1>9 DEF ReadParams
  <2>2. Enough'
    BY <1>a, <2>1
  <2>3. task'[w].pc = "read" /\ \A v \in Workers \ {w} : task'[v] = task[v]
    BY <1>9 DEF ReadParams
  <2>4. TuneSeesItsRows'
    BY <1>a, <2>3 DEF TuneSeesItsRows
  <2> QED BY <1>b, <1>c, <2>1, <2>2, <2>4
\* The rows are those committed, of which there are enough.
<1>10. ASSUME NEW w \in Workers, ReadSignal(w) PROVE RowsInv'
  <2>1. UNCHANGED <<sub, committed, queue>> /\ task[w].pc = "read"
    BY <1>10 DEF ReadSignal
  <2>2. Cardinality(committed) >= TuneEveryN
    BY <1>a, <2>1
  <2>3. /\ task'[w].total = Smaller(Window, Cardinality(committed))
        /\ \A v \in Workers \ {w} : task'[v] = task[v]
    BY <1>10 DEF ReadSignal
  <2>4. Smaller(Window, Cardinality(committed)) >= Smaller(TuneEveryN, Window)
    BY <1>0, <2>2, ConstantsAssumption DEF Smaller
  <2>5. TuneSeesItsRows'
    BY <1>a, <2>3, <2>4 DEF TuneSeesItsRows
  <2>6. Enough'
    BY <2>1, <2>2
  <2> QED BY <1>b, <1>c, <2>1, <2>5, <2>6
<1>11. ASSUME NEW w \in Workers, WriteParams(w) \/ TaskFails(w) PROVE RowsInv'
  <2>1. /\ UNCHANGED <<sub, committed, queue>> /\ task[w].pc # "idle"
        /\ task' = [task EXCEPT ![w] = NoTask]
    BY <1>11 DEF WriteParams, TaskFails
  <2>2. task'[w].pc = "idle" /\ \A v \in Workers \ {w} : task'[v] = task[v]
    BY <2>1 DEF NoTask
  <2>3. Enough'
    BY <1>a, <2>1, <2>2
  <2>4. TuneSeesItsRows'
    BY <1>a, <2>2 DEF TuneSeesItsRows
  <2> QED BY <1>b, <1>c, <2>1, <2>3, <2>4
<1> QED
  BY <1>1, <1>2, <1>3, <1>4, <1>5, <1>6, <1>7, <1>8, <1>9, <1>10, <1>11
     DEF Next, Request, Tune

LEMMA AlwaysRows == Spec => []RowsInv
<1>1. Init => RowsInv
  <2> SUFFICES ASSUME Init PROVE RowsInv
    OBVIOUS
  <2> QED BY DEF Init, RowsInv, TuneSeesItsRows, NoCall, NoTask
<1>2. TypeOK /\ RowsInv /\ [Next]_vars => RowsInv'
  <2>1. CASE UNCHANGED vars
    BY <2>1 DEF vars, db, history, RowsInv, TuneSeesItsRows
  <2> QED BY <2>1, RowsKept
<1> QED
  BY <1>1, <1>2, TypeCorrect, PTL DEF Spec

\* A task reads at least the rows that made it due, or a full window of them:
\* it is queued after the commit of its own.
THEOREM RowsSeen == Spec => []TuneSeesItsRows
<1>1. RowsInv => TuneSeesItsRows
  BY DEF RowsInv
<1> QED
  BY <1>1, AlwaysRows, PTL

-----------------------------------------------------------------------------
(* Every TuneEveryN-th rating queues one task.                             *)

\* The quotient grows at the multiples.
LEMMA Multiples ==
  ASSUME NEW a \in Nat, NEW n \in Nat \ {0}
  PROVE  /\ a \div n \in Nat
         /\ (a + 1) % n = 0 => (a + 1) \div n = a \div n + 1
         /\ (a + 1) % n # 0 => (a + 1) \div n = a \div n
         /\ 0 \div n = 0
  OBVIOUS

\* The due ratings are finitely many.
LEMMA DueCount == IsFiniteSet(Due) /\ Cardinality(Due) \in Nat
  BY CountsAreNaturals DEF Due

LEMMA InitMilestone == Init => MilestoneInv
<1> SUFFICES ASSUME Init PROVE MilestoneInv
  OBVIOUS
<1>1. \A f \in Submissions : sub[f].pc = "idle"
  BY DEF Init, NoCall
<1>2. Due = {} /\ committed = {} /\ asked = 0
  BY <1>1 DEF Init, Due
<1>3. Cardinality(Due) = 0 /\ Cardinality(committed) = 0
  BY <1>2, FS_EmptySet
<1>4. 0 \div TuneEveryN = 0
  BY Multiples, ConstantsAssumption
<1> QED
  BY <1>1, <1>2, <1>3, <1>4 DEF MilestoneInv

\* A step of a call that neither counts nor commits, and leaves no due rating.
LEMMA Undue ==
  ASSUME TypeOK, MilestoneInv, NEW f \in Submissions,
         \A g \in Submissions \ {f} : sub'[g] = sub[g],
         sub'[f].pc \notin {"counted", "stored"}, f \notin Due,
         UNCHANGED <<committed, asked, racing>>, mishap' = mishap
  PROVE  MilestoneInv'
<1>1. Due' = Due
  BY DEF Due
<1>2. \A g \in Submissions : sub'[g].pc = "counted" => g # f /\ sub[g].pc = "counted"
  OBVIOUS
<1>3. Cardinality(Due') = Cardinality(Due)
  BY <1>1
<1> QED
  BY <1>2, <1>3 DEF MilestoneInv

\* A step that no part of it looks at.
LEMMA Aside ==
  ASSUME MilestoneInv, UNCHANGED <<sub, committed, asked, racing, mishap>>
  PROVE  MilestoneInv'
<1>1. Due' = Due
  BY DEF Due
<1> QED
  BY <1>1 DEF MilestoneInv

LEMMA CountMilestone ==
  ASSUME TypeOK, MilestoneInv, NEW f \in Submissions, Count(f)
  PROVE  MilestoneInv'
<1>1. /\ sub[f].pc = "inserted"
      /\ sub'[f].pc = "counted" /\ sub'[f].total = Cardinality(committed) + 1
      /\ \A g \in Submissions \ {f} : sub'[g] = sub[g]
  BY DEF Count, TypeOK
<1>2. UNCHANGED <<committed, asked, mishap>>
  BY DEF Count, db
<1>3. ~racing' => ~racing /\ \A g \in Submissions : sub[g].pc # "counted"
  BY DEF Count
<1>4. Due' = Due
  BY <1>1 DEF Due
<1>5. Cardinality(Due') = Cardinality(Due) /\ Cardinality(committed') = Cardinality(committed)
  BY <1>2, <1>4
<1>6. ~racing' => \A g \in Submissions : sub'[g].pc = "counted" =>
                    g = f /\ sub'[g].total = Cardinality(committed') + 1
  BY <1>1, <1>3, <1>5
<1>7. ~racing' /\ ~mishap' => asked' + Cardinality(Due') = Cardinality(committed') \div TuneEveryN
  BY <1>2, <1>3, <1>5 DEF MilestoneInv
<1> QED
  BY <1>6, <1>7 DEF MilestoneInv

\* The committed rating is due exactly when the count reaches a multiple.
LEMMA CommitMilestone ==
  ASSUME TypeOK, RowsInv, MilestoneInv, NEW f \in Submissions, Commit(f)
  PROVE  MilestoneInv'
<1>0. IsFiniteSet(committed) /\ Cardinality(committed) \in Nat
  BY CountsAreNaturals DEF TypeOK
<1>1. /\ sub[f].pc = "counted" /\ sub'[f].pc = "stored" /\ sub'[f].total = sub[f].total
      /\ \A g \in Submissions \ {f} : sub'[g] = sub[g]
  BY DEF Commit, TypeOK
<1>2. UNCHANGED <<asked, racing, mishap>> /\ committed' = committed \cup {f}
  BY DEF Commit, history
<1>3. f \notin committed
  BY <1>1 DEF RowsInv
<1>4. Cardinality(committed') = Cardinality(committed) + 1
  BY <1>0, <1>2, <1>3, FS_AddElement
<1>5. ~racing => /\ sub[f].total = Cardinality(committed) + 1
                 /\ \A g \in Submissions : sub[g].pc = "counted" => g = f
  BY <1>1 DEF MilestoneInv
<1>6. ~racing' => \A g \in Submissions : sub'[g].pc # "counted"
  BY <1>1, <1>2, <1>5
<1>7. ASSUME ~racing, ~mishap
      PROVE  asked + Cardinality(Due') = Cardinality(committed') \div TuneEveryN
  <2>1. asked + Cardinality(Due) = Cardinality(committed) \div TuneEveryN
    BY <1>7 DEF MilestoneInv
  <2>2. CASE (Cardinality(committed) + 1) % TuneEveryN = 0
    <3>1. f \notin Due /\ Due' = Due \cup {f}
      BY <1>1, <1>5, <1>7, <2>2 DEF Due
    <3>2. Cardinality(Due') = Cardinality(Due) + 1
      BY <3>1, DueCount, FS_AddElement
    <3>3. (Cardinality(committed) + 1) \div TuneEveryN = Cardinality(committed) \div TuneEveryN + 1
      BY <1>0, <2>2, Multiples, ConstantsAssumption
    <3> QED
      BY <1>4, <2>1, <3>2, <3>3, DueCount DEF TypeOK
  <2>3. CASE (Cardinality(committed) + 1) % TuneEveryN # 0
    <3>1. Due' = Due
      BY <1>1, <1>5, <1>7, <2>3 DEF Due
    <3>2. Cardinality(Due') = Cardinality(Due)
      BY <3>1
    <3>3. (Cardinality(committed) + 1) \div TuneEveryN = Cardinality(committed) \div TuneEveryN
      BY <1>0, <2>3, Multiples, ConstantsAssumption
    <3> QED
      BY <1>4, <2>1, <3>2, <3>3
  <2> QED
    BY <2>2, <2>3
<1> QED
  BY <1>2, <1>6, <1>7 DEF MilestoneInv

LEMMA TriggerMilestone ==
  ASSUME TypeOK, MilestoneInv, NEW f \in Submissions, Trigger(f)
  PROVE  MilestoneInv'
<1>1. /\ sub[f].pc = "stored" /\ sub'[f].pc \in {"ok", "failed"}
      /\ \A g \in Submissions \ {f} : sub'[g] = sub[g]
  BY DEF Trigger, TypeOK
<1>2. UNCHANGED <<committed, racing>>
  BY DEF Trigger, db
<1>3. CASE f \notin Due
  <2>1. sub[f].total % TuneEveryN # 0
    BY <1>1, <1>3 DEF Due
  <2>2. UNCHANGED <<asked, mishap>>
    BY <2>1 DEF Trigger
  <2> QED
    BY <1>1, <1>2, <1>3, <2>2, Undue
<1>4. CASE f \in Due
  <2>1. sub[f].total % TuneEveryN = 0
    BY <1>4 DEF Due
  <2>2. mishap' \/ (asked' = asked + 1 /\ mishap' = mishap)
    BY <2>1 DEF Trigger
  <2>3. Due' = Due \ {f}
    BY <1>1 DEF Due
  <2>4. Cardinality(Due') = Cardinality(Due) - 1
    BY <1>4, <2>3, DueCount, FS_RemoveElement
  <2>5. ~racing' /\ ~mishap' => asked' + Cardinality(Due') = Cardinality(committed') \div TuneEveryN
    <3> SUFFICES ASSUME ~racing', ~mishap'
                 PROVE  asked' + Cardinality(Due') = Cardinality(committed') \div TuneEveryN
      OBVIOUS
    <3>1. asked + Cardinality(Due) = Cardinality(committed) \div TuneEveryN
      BY <1>2, <2>2 DEF MilestoneInv
    <3> QED
      BY <1>2, <2>2, <2>4, <3>1, DueCount DEF TypeOK
  <2>6. \A g \in Submissions : sub'[g].pc = "counted" => sub[g].pc = "counted" /\ sub'[g] = sub[g]
    BY <1>1
  <2> QED
    BY <1>2, <2>5, <2>6 DEF MilestoneInv
<1> QED
  BY <1>3, <1>4

LEMMA CrashMilestone ==
  ASSUME TypeOK, MilestoneInv, NEW f \in Submissions, ApiCrash(f)
  PROVE  MilestoneInv'
<1>1. sub'[f].pc = "gone" /\ \A g \in Submissions \ {f} : sub'[g] = sub[g]
  BY DEF ApiCrash, TypeOK, NoCall
<1>2. UNCHANGED <<committed, asked, racing>>
  BY DEF ApiCrash, db
<1>3. CASE f \notin Due
  <2>1. mishap' = mishap
    BY <1>3 DEF ApiCrash, Due, TypeOK
  <2> QED
    BY <1>1, <1>2, <1>3, <2>1, Undue
<1>4. CASE f \in Due
  <2>1. mishap'
    BY <1>4 DEF ApiCrash, Due
  <2>2. \A g \in Submissions : sub'[g].pc = "counted" => sub[g].pc = "counted" /\ sub'[g] = sub[g]
    BY <1>1
  <2> QED
    BY <1>2, <2>1, <2>2 DEF MilestoneInv
<1> QED
  BY <1>3, <1>4

LEMMA MilestoneKept ==
  ASSUME TypeOK, RowsInv, MilestoneInv, [Next]_vars
  PROVE  MilestoneInv'
<1>1. CASE UNCHANGED vars
  BY <1>1, Aside DEF vars, db, history
<1>2. ASSUME NEW q \in Queries, Answer(q) PROVE MilestoneInv'
  BY <1>2, Aside DEF Answer, history
<1>3. ASSUME NEW f \in Submissions, Insert(f) PROVE MilestoneInv'
  <2>1. PICK id, h :
          sub' = [sub EXCEPT ![f] = [NoCall EXCEPT !.pc = "inserted", !.id = id,
                                       !.helpful = h, !.start = NextStart]]
    BY <1>3 DEF Insert
  <2>2. sub'[f].pc = "inserted" /\ \A g \in Submissions \ {f} : sub'[g] = sub[g]
    BY <2>1 DEF NoCall, TypeOK
  <2> QED
    BY <1>3, <2>2, Undue DEF Insert, Due, db, history
<1>4. ASSUME NEW f \in Submissions, InsertRefused(f) PROVE MilestoneInv'
  <2>1. sub'[f].pc = "refused" /\ \A g \in Submissions \ {f} : sub'[g] = sub[g]
    BY <1>4 DEF InsertRefused, NoCall, TypeOK
  <2> QED
    BY <1>4, <2>1, Undue DEF InsertRefused, Due, db, history
<1>5. ASSUME NEW f \in Submissions, Rollback(f) PROVE MilestoneInv'
  <2>1. sub'[f].pc = "failed" /\ \A g \in Submissions \ {f} : sub'[g] = sub[g]
    BY <1>5 DEF Rollback, NoCall, TypeOK
  <2> QED
    BY <1>5, <2>1, Undue DEF Rollback, Due, db, history
<1>6. ASSUME NEW f \in Submissions, Count(f) \/ Commit(f) \/ Trigger(f) \/ ApiCrash(f)
      PROVE  MilestoneInv'
  BY <1>6, CountMilestone, CommitMilestone, TriggerMilestone, CrashMilestone
<1>7. ASSUME NEW w \in Workers, ReadParams(w) PROVE MilestoneInv'
  BY <1>7, Aside DEF ReadParams, db
<1>8. ASSUME NEW w \in Workers, ReadSignal(w) \/ WriteParams(w) \/ TaskFails(w)
      PROVE  MilestoneInv'
  BY <1>8, Aside DEF ReadSignal, WriteParams, TaskFails, db, history
<1> QED
  BY <1>1, <1>2, <1>3, <1>4, <1>5, <1>6, <1>7, <1>8 DEF Next, Request, Tune

\* Every TuneEveryN-th rating queues one task, unless two transactions counted
\* at once or the broker or the process failed after the commit.
THEOREM Milestones == Spec => []EveryNthTunes
<1>1. TypeOK /\ RowsInv /\ MilestoneInv /\ [Next]_vars => MilestoneInv'
  BY MilestoneKept
<1>2. TypeOK /\ MilestoneInv => EveryNthTunes
  <2> SUFFICES ASSUME TypeOK, MilestoneInv, \A f \in Submissions : sub[f].pc # "stored",
                      ~racing, ~mishap
               PROVE  asked = Cardinality(committed) \div TuneEveryN
    BY DEF EveryNthTunes
  <2>1. Due = {}
    BY DEF Due
  <2>2. Cardinality(Due) = 0
    BY <2>1, FS_EmptySet
  <2> QED
    BY <2>2 DEF MilestoneInv, TypeOK
<1> QED
  BY <1>1, <1>2, InitMilestone, TypeCorrect, AlwaysRows, PTL DEF Spec

-----------------------------------------------------------------------------
(* A tune moves top_k one step.                                            *)

LEMMA TuneAloneKept ==
  ASSUME TypeOK, TuneAlone, [Next]_vars
  PROVE  TuneAlone'
<1>1. CASE UNCHANGED <<task, params, tuneRacing>>
  BY <1>1 DEF TuneAlone
<1>2. ASSUME NEW w \in Workers, ReadParams(w) PROVE TuneAlone'
  <2>1. /\ task'[w].top_k = params.top_k /\ params' = params
        /\ \A v \in Workers \ {w} : task'[v] = task[v]
    BY <1>2 DEF ReadParams, db, TypeOK
  <2>2. ~tuneRacing' => ~tuneRacing /\ \A v \in Workers : task[v].pc = "idle"
    BY <1>2 DEF ReadParams
  <2>3. ~tuneRacing' => \A v \in Workers : task'[v].pc # "idle" => v = w
    BY <2>1, <2>2
  <2> QED
    BY <2>1, <2>3 DEF TuneAlone
<1>3. ASSUME NEW w \in Workers, ReadSignal(w) PROVE TuneAlone'
  <2>1. /\ task[w].pc = "read" /\ task'[w].top_k = task[w].top_k
        /\ \A v \in Workers \ {w} : task'[v] = task[v]
        /\ UNCHANGED <<params, tuneRacing>>
    BY <1>3 DEF ReadSignal, db, history, TypeOK
  <2>2. \A v \in Workers : task'[v].pc # "idle" =>
          task[v].pc # "idle" /\ task'[v].top_k = task[v].top_k
    BY <2>1
  <2> QED
    BY <2>1, <2>2 DEF TuneAlone
<1>4. ASSUME NEW w \in Workers, WriteParams(w) \/ TaskFails(w) PROVE TuneAlone'
  <2>1. /\ task[w].pc # "idle" /\ task' = [task EXCEPT ![w] = NoTask]
        /\ tuneRacing' = tuneRacing
    BY <1>4 DEF WriteParams, TaskFails, history
  <2>2. task'[w].pc = "idle" /\ \A v \in Workers \ {w} : task'[v] = task[v]
    BY <2>1 DEF NoTask, TypeOK
  <2>3. ~tuneRacing' => \A v \in Workers : task'[v].pc = "idle"
    BY <2>1, <2>2 DEF TuneAlone
  <2> QED
    BY <2>3 DEF TuneAlone
<1> QED
  BY <1>1, <1>2, <1>3, <1>4
     DEF Next, Request, Tune, vars, db, history,
         Answer, Insert, InsertRefused, Count, Commit, Rollback, Trigger, ApiCrash

\* A tune that writes is the only one under way and moves from what is there.
LEMMA WriteMoves ==
  ASSUME TypeOK, TuneAlone, [Next]_vars, params' # params, ~tuneRacing
  PROVE  params'.top_k \in {Smaller(params.top_k + 5, TopKMax),
                            Larger(params.top_k - 2, TopKMin), params.top_k}
<1>1. \E w \in Workers : WriteParams(w)
  BY DEF Next, Request, Tune, vars, db, history, Answer, Insert, InsertRefused, Count,
         Commit, Rollback, Trigger, ApiCrash, ReadParams, ReadSignal, TaskFails
<1>2. PICK w \in Workers : WriteParams(w)
  BY <1>1
<1>3. task[w].top_k = params.top_k
  BY <1>2 DEF WriteParams, TuneAlone
<1>4. params' = Scaled(Adjusted(params.top_k, task[w].helpful, task[w].total))
  BY <1>2, <1>3 DEF WriteParams
<1>5. params'.top_k = Adjusted(params.top_k, task[w].helpful, task[w].total)
  BY <1>4 DEF Scaled
<1> QED
  BY <1>5 DEF Adjusted

\* A tune moves top_k one step from the value it replaces, unless two tasks
\* overlapped.
THEOREM OneStep == Spec => TuneMovesOneStep
<1>1. Init => TuneAlone
  BY DEF Init, TuneAlone, NoTask
<1>2. TypeOK /\ TuneAlone /\ [Next]_vars => TuneAlone'
  BY TuneAloneKept
<1>3. TypeOK /\ TuneAlone /\ [Next]_vars =>
        [params' # params /\ ~tuneRacing =>
           params'.top_k \in {Smaller(params.top_k + 5, TopKMax),
                              Larger(params.top_k - 2, TopKMin), params.top_k}]_vars
  BY WriteMoves
<1> QED
  BY <1>1, <1>2, <1>3, TypeCorrect, PTL DEF Spec, TuneMovesOneStep
=============================================================================
