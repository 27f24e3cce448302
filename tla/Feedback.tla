------------------------------- MODULE Feedback -------------------------------
(***************************************************************************)
(* Ratings of answers and what they tune, for one tenant (every statement  *)
(* is restricted to one tenant_id): POST /feedback and store_feedback in   *)
(* the API processes, tune_retrieval_params in the Celery workers, and the *)
(* tables query_audit_log, query_feedback and retrieval_params between     *)
(* them.  PostgreSQL runs READ COMMITTED, psycopg2's default: a statement  *)
(* sees what is committed when it starts, and its own transaction.         *)
(***************************************************************************)
EXTENDS Integers, FiniteSets

CONSTANTS
  Queries,      \* answered questions
  Submissions,  \* calls of POST /feedback
  Workers,      \* processes of the Celery worker
  TuneEveryN,   \* TUNE_EVERY_N
  Window,       \* _WINDOW
  StartTopK     \* what top_k the table may hold at the start

DefaultTopK == 20
TopKMin == 10
TopKMax == 50
RerankMin == 4
RerankMax == 20
MmrMin == 3
MmrMax == 10

ASSUME ConstantsAssumption ==
  /\ IsFiniteSet(Submissions)
  /\ TuneEveryN \in Nat \ {0} /\ Window \in Nat \ {0}
  /\ StartTopK \subseteq TopKMin..TopKMax

VARIABLES
  answered,   \* the queries that were answered
  audit,      \* those that have a row in query_audit_log
  sub,        \* each submission
  committed,  \* those whose row in query_feedback is committed
  queue,      \* tune tasks in the broker
  task,       \* the tune task of each worker process
  params,     \* the row of retrieval_params, or the defaults if there is none
  asked,      \* history: how many tune tasks were queued,
  racing,     \*   whether two open transactions both counted,
  mishap,     \*   whether a due tune task was not queued after the commit,
  tuneRacing  \*   and whether two tune tasks overlapped

db == <<answered, audit, committed, params>>
history == <<asked, racing, mishap, tuneRacing>>
vars == <<answered, audit, sub, committed, queue, task, params, history>>

\* The response carries the query_id run_query made; the row of the audit log
\* gets an id of its own from the database.
QueryId(q) == <<"query_id", q>>
RowId(q) == <<"row id", q>>
Ids == {QueryId(q) : q \in Queries} \cup {RowId(q) : q \in Queries}
NoId == <<"none">>

\* "refused" and "failed" were answered with HTTP 500, "gone" was not answered.
SubStates ==
  {"idle", "inserted", "counted", "stored", "ok", "refused", "failed", "gone"}

Smaller(a, b) == IF a < b THEN a ELSE b
Larger(a, b) == IF a > b THEN a ELSE b
Clamp(v, low, high) == Smaller(Larger(v, low), high)

\* round(0.4 * k) has no ties; round(0.3 * k) takes ties to the even number.
RoundRerank(k) == (4 * k + 5) \div 10
RoundMmr(k) ==
  LET up == (3 * k + 5) \div 10
  IN IF (3 * k) % 10 = 5 /\ up % 2 = 1 THEN up - 1 ELSE up

-----------------------------------------------------------------------------
(* Mutants: plausible mistakes the properties below must catch.            *)

\* The two ratios exchanged.
ScaledSwapped(k) ==
  [top_k |-> k, rerank_top_n |-> Clamp(RoundMmr(k), RerankMin, RerankMax),
   mmr_final_k |-> Clamp(RoundRerank(k), MmrMin, MmrMax)]

\* The task is queued inside the transaction.
CountQueues(f) ==
  /\ sub[f].pc = "inserted"
  /\ sub' = [sub EXCEPT ![f].pc = "counted", ![f].total = Cardinality(committed) + 1]
  /\ racing' = (racing \/ \E g \in Submissions : sub[g].pc = "counted")
  /\ queue' = IF (Cardinality(committed) + 1) % TuneEveryN = 0 THEN queue + 1 ELSE queue
  /\ UNCHANGED <<db, task, asked, mishap, tuneRacing>>

\* The count leaves the new row out.
CountBefore(f) ==
  /\ sub[f].pc = "inserted"
  /\ sub' = [sub EXCEPT ![f].pc = "counted", ![f].total = Cardinality(committed)]
  /\ racing' = (racing \/ \E g \in Submissions : sub[g].pc = "counted")
  /\ UNCHANGED <<db, queue, task, asked, mishap, tuneRacing>>

\* A worker starts every task from the defaults.
ReadParamsDefault(w) ==
  /\ task[w].pc = "idle" /\ queue > 0
  /\ queue' = queue - 1
  /\ task' = [task EXCEPT ![w].pc = "read", ![w].top_k = DefaultTopK]
  /\ tuneRacing' = (tuneRacing \/ \E v \in Workers : task[v].pc # "idle")
  /\ UNCHANGED <<db, sub, asked, racing, mishap>>

\* The range of top_k is not enforced.
AdjustedUnclamped(k, helpful, total) ==
  IF 2 * helpful < total THEN k + 5
  ELSE IF 5 * helpful > 4 * total THEN k - 2
  ELSE k
-----------------------------------------------------------------------------
Scaled(k) ==
  [top_k |-> k, rerank_top_n |-> Clamp(RoundRerank(k), RerankMin, RerankMax),
   mmr_final_k |-> Clamp(RoundMmr(k), MmrMin, MmrMax)]

\* helpful / total below a half, or above four fifths.
Adjusted(k, helpful, total) ==
  IF 2 * helpful < total THEN Smaller(k + 5, TopKMax)
  ELSE IF 5 * helpful > 4 * total THEN Larger(k - 2, TopKMin)
  ELSE k

\* The rows the tuner looks at: the last by created_at, which is when their
\* transaction began.
Recent ==
  {f \in committed :
     Cardinality({g \in committed : sub[g].start > sub[f].start}) < Window}

\* What is left of a call that stored nothing, and of a task that ended.
NoCall == [pc |-> "idle", id |-> NoId, helpful |-> FALSE, start |-> 0, total |-> 0]
NoTask == [pc |-> "idle", top_k |-> 0, helpful |-> 0, total |-> 0]

\* created_at, later than that of every row there is.
NextStart ==
  1 + Cardinality({n \in 1..Cardinality(Submissions) :
                     \E g \in Submissions : sub[g].start >= n})

Init ==
  /\ answered = {} /\ audit = {}
  /\ sub = [f \in Submissions |-> NoCall]
  /\ committed = {}
  /\ queue = 0
  /\ task = [w \in Workers |-> NoTask]
  /\ params \in {Scaled(k) : k \in StartTopK \cup {DefaultTopK}}
  /\ asked = 0 /\ racing = FALSE /\ mishap = FALSE /\ tuneRacing = FALSE

\* POST /query answers; writing the audit row may fail, the answer goes out
\* all the same.
Answer(q) ==
  /\ q \notin answered
  /\ answered' = answered \cup {q}
  /\ audit' \in {audit, audit \cup {q}}
  /\ UNCHANGED <<sub, committed, queue, task, params, history>>

\* POST /feedback with the id of an audit row: the INSERT opens the transaction.
Insert(f) ==
  /\ sub[f].pc = "idle"
  /\ \E id \in {RowId(q) : q \in audit}, h \in BOOLEAN :
       sub' = [sub EXCEPT ![f] = [NoCall EXCEPT !.pc = "inserted", !.id = id,
                                    !.helpful = h, !.start = NextStart]]
  /\ UNCHANGED <<db, queue, task, history>>

\* POST /feedback with the query_id of a response, which is the id of no audit
\* row: the foreign key refuses it.
InsertRefused(f) ==
  /\ sub[f].pc = "idle"
  /\ \E id \in {QueryId(q) : q \in answered} :
       /\ id \notin {RowId(q) : q \in audit}
       /\ sub' = [sub EXCEPT ![f] = [NoCall EXCEPT !.pc = "refused", !.id = id]]
  /\ UNCHANGED <<db, queue, task, history>>

\* SELECT COUNT(*): the committed rows and the transaction's own.
Count(f) ==
  /\ sub[f].pc = "inserted"
  /\ sub' = [sub EXCEPT ![f].pc = "counted", ![f].total = Cardinality(committed) + 1]
  /\ racing' = (racing \/ \E g \in Submissions : sub[g].pc = "counted")
  /\ UNCHANGED <<db, queue, task, asked, mishap, tuneRacing>>

\* The end of the with block.
Commit(f) ==
  /\ sub[f].pc = "counted"
  /\ committed' = committed \cup {f}
  /\ sub' = [sub EXCEPT ![f].pc = "stored"]
  /\ UNCHANGED <<answered, audit, queue, task, params, history>>

\* The connection, a statement or the commit fails: rolled back, HTTP 500.
Rollback(f) ==
  /\ sub[f].pc \in {"idle", "inserted", "counted"}
  /\ sub' = [sub EXCEPT ![f] = [NoCall EXCEPT !.pc = "failed"]]
  /\ UNCHANGED <<db, queue, task, history>>

\* After the commit: at every TuneEveryN-th row a task is queued, or the
\* broker is down and the caller gets HTTP 500.
Trigger(f) ==
  /\ sub[f].pc = "stored"
  /\ IF sub[f].total % TuneEveryN # 0
     THEN /\ sub' = [sub EXCEPT ![f].pc = "ok", ![f].total = 0]
          /\ UNCHANGED <<queue, asked, mishap>>
     ELSE \/ /\ sub' = [sub EXCEPT ![f].pc = "ok", ![f].total = 0]
             /\ queue' = queue + 1 /\ asked' = asked + 1
             /\ UNCHANGED mishap
          \/ /\ sub' = [sub EXCEPT ![f].pc = "failed", ![f].total = 0]
             /\ mishap' = TRUE
             /\ UNCHANGED <<queue, asked>>
  /\ UNCHANGED <<db, task, racing, tuneRacing>>

\* The API process dies; an open transaction is rolled back.
ApiCrash(f) ==
  /\ sub[f].pc \in {"inserted", "counted", "stored"}
  /\ sub' = [sub EXCEPT ![f] =
                IF @.pc = "stored" THEN [@ EXCEPT !.pc = "gone", !.total = 0]
                                   ELSE [NoCall EXCEPT !.pc = "gone"]]
  /\ mishap' = (mishap \/ (sub[f].pc = "stored" /\ sub[f].total % TuneEveryN = 0))
  /\ UNCHANGED <<db, queue, task, asked, racing, tuneRacing>>

\* A worker takes a task, acknowledging it, and reads the parameters.
ReadParams(w) ==
  /\ task[w].pc = "idle" /\ queue > 0
  /\ queue' = queue - 1
  /\ task' = [task EXCEPT ![w].pc = "read", ![w].top_k = params.top_k]
  /\ tuneRacing' = (tuneRacing \/ \E v \in Workers : task[v].pc # "idle")
  /\ UNCHANGED <<db, sub, asked, racing, mishap>>

\* The second statement of the transaction: the ratings of the window.
ReadSignal(w) ==
  /\ task[w].pc = "read"
  /\ task' = [task EXCEPT
        ![w].pc = "signal",
        ![w].helpful = Cardinality({f \in Recent : sub[f].helpful}),
        ![w].total = Smaller(Window, Cardinality(committed))]
  /\ UNCHANGED <<db, sub, queue, history>>

\* The second transaction: the whole row is replaced.
WriteParams(w) ==
  /\ task[w].pc = "signal"
  /\ IF task[w].total = 0 THEN UNCHANGED params
     ELSE params' = Scaled(Adjusted(task[w].top_k, task[w].helpful, task[w].total))
  /\ task' = [task EXCEPT ![w] = NoTask]
  /\ UNCHANGED <<answered, audit, committed, sub, queue, history>>

\* The database fails or the worker dies: the task is gone.
TaskFails(w) ==
  /\ task[w].pc # "idle"
  /\ task' = [task EXCEPT ![w] = NoTask]
  /\ UNCHANGED <<db, sub, queue, history>>

Request(f) == Count(f) \/ Commit(f) \/ Rollback(f) \/ Trigger(f)
Tune(w) == ReadParams(w) \/ ReadSignal(w) \/ WriteParams(w)

Next ==
  \/ \E q \in Queries : Answer(q)
  \/ \E f \in Submissions : Insert(f) \/ InsertRefused(f) \/ Request(f) \/ ApiCrash(f)
  \/ \E w \in Workers : Tune(w) \/ TaskFails(w)

Spec == Init /\ [][Next]_vars

-----------------------------------------------------------------------------
Params ==
  [top_k : TopKMin..TopKMax, rerank_top_n : RerankMin..RerankMax,
   mmr_final_k : MmrMin..MmrMax]

TypeOK ==
  /\ answered \subseteq Queries /\ audit \subseteq answered
  /\ sub \in [Submissions -> [pc : SubStates, id : Ids \cup {NoId},
                              helpful : BOOLEAN, start : Nat, total : Nat]]
  /\ committed \subseteq Submissions
  /\ queue \in Nat /\ asked \in Nat
  /\ task \in [Workers -> [pc : {"idle", "read", "signal"}, top_k : Nat,
                           helpful : Nat, total : Nat]]
  /\ params \in Params
  /\ racing \in BOOLEAN /\ mishap \in BOOLEAN /\ tuneRacing \in BOOLEAN

\* get_retrieval_params: the row, or the defaults when there is none or the
\* database fails.
Readable == {params, Scaled(DefaultTopK)}

\* Search, rerank and MMR narrow like a funnel, whatever was tuned: MMR is
\* never asked for more chunks than the reranker leaves, nor that for more
\* than the search finds.
FunnelNarrows ==
  \A p \in Readable : p.mmr_final_k <= p.rerank_top_n /\ p.rerank_top_n <= p.top_k

\* A task only runs once the rows that made it due are there to be read.
TuneSeesItsRows ==
  \A w \in Workers :
    task[w].pc = "signal" => task[w].total >= Smaller(TuneEveryN, Window)

\* Every TuneEveryN-th feedback queues one task, as long as no two transactions
\* counted at once and the broker and the process held after the commit.
EveryNthTunes ==
  (\A f \in Submissions : sub[f].pc # "stored") /\ ~racing /\ ~mishap
    => asked = Cardinality(committed) \div TuneEveryN

\* A tune moves top_k one step from the value it replaces, as long as no two
\* tasks overlapped.
TuneMovesOneStep ==
  [][params' # params /\ ~tuneRacing =>
       params'.top_k \in {Smaller(params.top_k + 5, TopKMax),
                          Larger(params.top_k - 2, TopKMin), params.top_k}]_vars

-----------------------------------------------------------------------------
(* The inductive invariants behind these properties.                       *)

\* The parameters are always those of some top_k in the range, and so is
\* what a task has read.
ParamsInv ==
  /\ params \in {Scaled(k) : k \in TopKMin..TopKMax}
  /\ \A w \in Workers : task[w].pc # "idle" => task[w].top_k \in TopKMin..TopKMax

\* A count is covered by the committed rows, its own included once it is one
\* of them; and there is no task before TuneEveryN of them.
RowsInv ==
  /\ \A f \in Submissions :
       /\ sub[f].pc \in {"idle", "inserted", "counted"} => f \notin committed
       /\ sub[f].pc = "counted" =>
            sub[f].total > 0 /\ sub[f].total <= Cardinality(committed) + 1
       /\ sub[f].pc = "stored" =>
            sub[f].total > 0 /\ sub[f].total <= Cardinality(committed)
  /\ queue > 0 \/ (\E w \in Workers : task[w].pc # "idle")
       => Cardinality(committed) >= TuneEveryN
  /\ TuneSeesItsRows

\* The committed ratings whose tune task is still to be queued.
Due == {f \in Submissions : sub[f].pc = "stored" /\ sub[f].total % TuneEveryN = 0}

\* As long as counts do not overlap, the open one is of the next row, and the
\* tasks queued or due are as many as the multiples that were reached.
MilestoneInv ==
  ~racing =>
    /\ \A f \in Submissions : sub[f].pc = "counted" =>
         /\ sub[f].total = Cardinality(committed) + 1
         /\ \A g \in Submissions : sub[g].pc = "counted" => g = f
    /\ ~mishap =>
         asked + Cardinality(Due) = Cardinality(committed) \div TuneEveryN

\* As long as tasks do not overlap, one is under way, with the parameters
\* there are.
TuneAlone ==
  ~tuneRacing =>
    \A w \in Workers : task[w].pc # "idle" =>
      /\ task[w].top_k = params.top_k
      /\ \A v \in Workers : task[v].pc # "idle" => v = w

-----------------------------------------------------------------------------
(* What docs and comments of the code say, and TLC refutes.                *)

\* README.md:35 "every answer gets a `query_id`. Users submit thumbs up/down via
\* `POST /feedback`": the query_id of a response whose query is in the audit
\* log is not refused.
AnswersCanBeRated ==
  \A f \in Submissions :
    sub[f].pc = "refused" => sub[f].id \notin {QueryId(q) : q \in audit}

=============================================================================
