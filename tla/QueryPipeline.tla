---------------------------- MODULE QueryPipeline ----------------------------
(***************************************************************************)
(* A question from POST /query to its answer: run_query and the LangGraph  *)
(* of agents/graph.py over the nodes analyze_query, db_lookup, retrieve,   *)
(* synthesize and evaluate, and the semantic cache that all requests       *)
(* share.  state[r] is the RAGState threaded through the nodes of request  *)
(* r; a node's result is that record with some fields replaced.            *)
(*                                                                         *)
(* Scores are in percent.  Near-identical questions of the cache are one   *)
(* question here.  What LLMs, databases and Qdrant answer is arbitrary.    *)
(***************************************************************************)
EXTENDS Integers

CONSTANTS
  Requests,
  Tenants,
  Questions,
  MaxRetries,   \* _MAX_RETRIES of the evaluator
  RawScores,    \* what the judge may put in its JSON: integers, or one of
  NaN,          \*   the float that is not a number, and
  Garbage       \*   anything float() rejects

ASSUME ConstantsAssumption ==
  /\ MaxRetries \in Nat
  /\ RawScores \subseteq Int \cup {NaN, Garbage}

VARIABLES
  pc,     \* the node each request is at
  state,  \* its RAGState, and what run_query returns once pc = "done"
  cache   \* the entries of the semantic cache that are not expired

vars == <<pc, state, cache>>

FaithPass == 85
RelPass == 80
CacheFaith == 80
CacheRel == 75
JudgeFallback == 70

Sources == {"rag", "sql", "hybrid"}
\* The answers the properties tell apart: none, the two cannot-answer texts,
\* text from the transactions table, the stand-in for a failed lookup, text
\* the LLM wrote, and the message of a crashed pipeline.
Texts == {"empty", "idk", "idkSql", "live", "nolive", "written", "crash"}
Errors == {"none", "blank", "db", "retrieve", "synthesize", "crash"}

RAGState ==
  [tenant : Tenants, question : Questions,
   source : Sources, sql : BOOLEAN,       \* sql_result is not None
   chunks : {"none", "blank", "some"},    \* no chunk, none with text, usable ones
   round : 0..MaxRetries,                 \* the attempt that retrieved them
   text : Texts, basis : 0..MaxRetries,   \* the answer, and whose chunks it used
   warned : BOOLEAN,                      \* it carries the confidence notice
   faith : 0..100, rel : 0..100, retry : 0..MaxRetries,
   error : Errors,
   cached : BOOLEAN, by : Requests]       \* the request that computed the answer

Entry ==
  [tenant : Tenants, question : Questions, source : Sources, text : Texts,
   basis : 0..MaxRetries, warned : BOOLEAN, faith : 0..100, rel : 0..100,
   by : Requests]

Passes(s) == s.faith >= FaithPass /\ s.rel >= RelPass
IsCannotAnswer(s) == s.text = "idk"

InitialState(r, tn, q) ==
  [tenant |-> tn, question |-> q, source |-> "rag", sql |-> FALSE,
   chunks |-> "none", round |-> 0, text |-> "empty", basis |-> 0,
   warned |-> FALSE, faith |-> 0, rel |-> 0, retry |-> 0, error |-> "none",
   cached |-> FALSE, by |-> r]

Init ==
  /\ pc = [r \in Requests |-> "idle"]
  /\ \E s \in [Requests -> Tenants \X Questions] :
       state = [r \in Requests |-> InitialState(r, s[r][1], s[r][2])]
  /\ cache = {}

\* Request r moves to node l with state s.
Node(r, l, s) ==
  /\ pc' = [pc EXCEPT ![r] = l]
  /\ state' = [state EXCEPT ![r] = s]

\* A score of the judge as a number in 0..100.  min(1.0, nan) is 1.0.
SafeScore(v) ==
  CASE v = NaN -> 100
    [] v = Garbage -> JudgeFallback
    [] OTHER -> IF v < 0 THEN 0 ELSE IF v > 100 THEN 100 ELSE v

\* The pairs <<faithfulness, relevance>> _evaluate may return for s.
Scores(s) ==
  IF s.source = "sql" THEN
    IF s.text \in {"empty", "idk"} THEN {<<0, 0>>} ELSE {<<100, 100>>}
  ELSE IF IsCannotAnswer(s) THEN {<<100, 0>>}
  ELSE IF s.text = "empty" \/ s.chunks = "none" THEN {<<0, 0>>}
  ELSE {<<JudgeFallback, JudgeFallback>>}
         \cup {<<SafeScore(f), SafeScore(v)>> : f, v \in RawScores}

-----------------------------------------------------------------------------
(* Mutants: plausible mistakes the properties below must catch.            *)

\* The evaluator counts the retry itself, before it has happened.
EvaluateCounts(r) ==
  /\ pc[r] = "evaluate"
  /\ \E sc \in Scores(state[r]) :
       LET s == [state[r] EXCEPT !.faith = sc[1], !.rel = sc[2]]
       IN IF Passes(s) \/ s.retry >= MaxRetries
          THEN Node(r, "finish", s)
          ELSE IF s.retry + 1 >= MaxRetries
               THEN Node(r, "finish", [s EXCEPT !.retry = @ + 1])
               ELSE Node(r, "increment_retry", [s EXCEPT !.retry = @ + 1])
  /\ UNCHANGED cache

\* A cannot-answer is retried whatever the counter says.
EvaluateRetriesIdk(r) ==
  /\ pc[r] = "evaluate"
  /\ \E sc \in Scores(state[r]) :
       LET s == [state[r] EXCEPT !.faith = sc[1], !.rel = sc[2]]
       IN Node(r, IF Passes(s) \/ (s.retry >= MaxRetries /\ ~IsCannotAnswer(s))
                  THEN "finish" ELSE "increment_retry", s)
  /\ UNCHANGED cache

\* A failed search keeps the chunks of the attempt before.
RetrieveFailsKeeping(r) ==
  /\ pc[r] = "retrieve"
  /\ Node(r, "synthesize", [state[r] EXCEPT !.error = "retrieve"])
  /\ UNCHANGED cache

\* The retry counter is written to a copy of the state that is dropped.
IncrementRetryLost(r) ==
  /\ pc[r] = "increment_retry"
  /\ Node(r, "retrieve", state[r])
  /\ UNCHANGED cache

\* The notice goes on every answer of a last attempt.
RetriesOverAnyScore(s) == ~IsCannotAnswer(s) /\ s.retry >= MaxRetries

\* Any good answer is cached, whatever it was made from.
CacheableAny(s) == s.error = "none" /\ s.faith >= CacheFaith /\ s.rel >= CacheRel

\* The search filters on the question alone.
MatchesAnyTenant(e, s) == e.question = s.question
-----------------------------------------------------------------------------
\* What get_cached looks for.
Matches(e, s) == e.tenant = s.tenant /\ e.question = s.question

\* The last attempt has failed and says so in the answer.
RetriesOver(s) == ~Passes(s) /\ ~IsCannotAnswer(s) /\ s.retry >= MaxRetries

\* What run_query offers to the cache and set_cache takes.
Cacheable(s) ==
  /\ s.error = "none" /\ s.faith >= CacheFaith /\ s.rel >= CacheRel
  /\ s.source \notin {"sql", "hybrid"}

EntryOf(s) ==
  [tenant |-> s.tenant, question |-> s.question, source |-> s.source,
   text |-> s.text, basis |-> s.basis, warned |-> s.warned,
   faith |-> s.faith, rel |-> s.rel, by |-> s.by]

\* POST /query reaches run_query; a question of control characters only is
\* blank by then.
Ask(r) ==
  /\ pc[r] = "idle"
  /\ \/ Node(r, "get_cached", state[r])
     \/ Node(r, "done", [state[r] EXCEPT !.error = "blank"])
  /\ UNCHANGED cache

CacheHit(r) ==
  /\ pc[r] = "get_cached"
  /\ \E e \in cache :
       /\ Matches(e, state[r])
       /\ Node(r, "done",
               [state[r] EXCEPT !.source = e.source, !.text = e.text,
                  !.basis = e.basis, !.warned = e.warned, !.faith = e.faith,
                  !.rel = e.rel, !.cached = TRUE, !.by = e.by])
  /\ UNCHANGED cache

\* No entry is near enough, or the cache fails: both are a miss.
CacheMiss(r) ==
  /\ pc[r] = "get_cached"
  /\ Node(r, "analyze_query", state[r])
  /\ UNCHANGED cache

\* analyze_query by LLM or by its keyword fallback, and the edge after it.
AnalyzeQuery(r) ==
  /\ pc[r] = "analyze_query"
  /\ \E src \in Sources :
       Node(r, IF src = "rag" THEN "retrieve" ELSE "db_lookup",
            [state[r] EXCEPT !.source = src])
  /\ UNCHANGED cache

\* db_lookup, and the edge after it.
DbLookup(r) ==
  LET after == IF state[r].source = "hybrid" THEN "retrieve" ELSE "synthesize" IN
  /\ pc[r] = "db_lookup"
  /\ \/ Node(r, after, [state[r] EXCEPT !.sql = TRUE, !.error = "none"])
     \/ Node(r, after, [state[r] EXCEPT !.sql = FALSE, !.error = "db"])
  /\ UNCHANGED cache

RetrieveFinds(r) ==
  /\ pc[r] = "retrieve"
  /\ \E k \in {"blank", "some"} :
       Node(r, "synthesize",
            [state[r] EXCEPT !.chunks = k, !.round = state[r].retry, !.error = "none"])
  /\ UNCHANGED cache

\* No result, Qdrant given up on, or a Bedrock error.
RetrieveFails(r) ==
  /\ pc[r] = "retrieve"
  /\ Node(r, "synthesize",
          [state[r] EXCEPT !.chunks = "none", !.round = state[r].retry, !.error = "retrieve"])
  /\ UNCHANGED cache

\* An exception retrieve does not catch ends the graph; run_query answers.
RetrieveCrashes(r) ==
  /\ pc[r] = "retrieve"
  /\ Node(r, "done",
          [state[r] EXCEPT !.source = "rag", !.text = "crash", !.warned = FALSE,
             !.faith = 0, !.rel = 0, !.retry = 0, !.error = "crash"])
  /\ UNCHANGED cache

\* synthesize without an LLM call.
SynthesizeDirect(r) ==
  LET s == state[r] IN
  /\ pc[r] = "synthesize"
  /\ s.source = "sql" \/ s.chunks # "some"
  /\ Node(r, "evaluate",
          [s EXCEPT !.error = "none",
             !.text = CASE s.source # "rag" /\ s.sql -> "live"
                        [] s.source = "sql" /\ ~s.sql -> "idkSql"
                        [] OTHER -> "idk"])
  /\ UNCHANGED cache

\* synthesize with one; the model may also write the cannot-answer text.
SynthesizeWrites(r) ==
  /\ pc[r] = "synthesize"
  /\ state[r].source # "sql" /\ state[r].chunks = "some"
  /\ \E txt \in {"written", "idk", "empty"} :
       Node(r, "evaluate",
            [state[r] EXCEPT !.text = txt, !.basis = state[r].round, !.error = "none"])
  /\ UNCHANGED cache

\* The call fails: no answer, or for hybrid what the database said.
SynthesizeFails(r) ==
  LET s == state[r] IN
  /\ pc[r] = "synthesize"
  /\ s.source # "sql" /\ s.chunks = "some"
  /\ Node(r, "evaluate",
          [s EXCEPT !.error = "synthesize",
             !.text = IF s.source = "rag" THEN "empty"
                      ELSE IF s.sql THEN "live" ELSE "nolive"])
  /\ UNCHANGED cache

\* evaluate appends the notice on a failing last attempt; the edge after it
\* ends the graph or asks for a retry.
Evaluate(r) ==
  /\ pc[r] = "evaluate"
  /\ \E sc \in Scores(state[r]) :
       LET s == [state[r] EXCEPT !.faith = sc[1], !.rel = sc[2]]
       IN Node(r, IF Passes(s) \/ s.retry >= MaxRetries
                  THEN "finish" ELSE "increment_retry",
               [s EXCEPT !.warned = RetriesOver(s)])
  /\ UNCHANGED cache

IncrementRetry(r) ==
  /\ pc[r] = "increment_retry"
  /\ Node(r, "retrieve", [state[r] EXCEPT !.retry = @ + 1])
  /\ UNCHANGED cache

\* run_query after the graph: the cache is offered the result, and may fail
\* to take it.
Finish(r) ==
  /\ pc[r] = "finish"
  /\ Node(r, "done", state[r])
  /\ \/ Cacheable(state[r]) /\ cache' = cache \cup {EntryOf(state[r])}
     \/ UNCHANGED cache

\* An entry grows older than the time to live.
Expire ==
  /\ \E e \in cache : cache' = cache \ {e}
  /\ UNCHANGED <<pc, state>>

Step(r) ==
  \/ CacheHit(r) \/ CacheMiss(r) \/ AnalyzeQuery(r) \/ DbLookup(r)
  \/ RetrieveFinds(r) \/ RetrieveFails(r) \/ RetrieveCrashes(r)
  \/ SynthesizeDirect(r) \/ SynthesizeWrites(r) \/ SynthesizeFails(r)
  \/ Evaluate(r) \/ IncrementRetry(r) \/ Finish(r)

Next == (\E r \in Requests : Ask(r) \/ Step(r)) \/ Expire

Spec == Init /\ [][Next]_vars

\* A request under way is a running thread; every external call has a
\* timeout.
Fairness == \A r \in Requests : WF_vars(Step(r))
FairSpec == Spec /\ Fairness

-----------------------------------------------------------------------------
Nodes == {"get_cached", "analyze_query", "db_lookup", "retrieve", "synthesize",
          "evaluate", "increment_retry", "finish"}

TypeOK ==
  /\ pc \in [Requests -> {"idle", "done"} \cup Nodes]
  /\ state \in [Requests -> RAGState]
  /\ cache \subseteq Entry

\* "A visible confidence notice is safer than a silent wrong answer": what a
\* request is answered, from the pipeline or from another request's cached
\* result, has passed both thresholds or carries the notice, unless it says
\* itself that there is no answer.
NoSilentDoubt ==
  \A r \in Requests :
    LET s == state[r] IN
    pc[r] = "done" /\ s.text \notin {"idk", "crash"} /\ s.error # "blank"
      => Passes(s) \/ s.warned

\* The converse: nobody is told to doubt an answer that passed.
NoticeIsDeserved ==
  \A r \in Requests : pc[r] = "done" /\ state[r].warned => ~Passes(state[r])

\* A retry replaces everything: an answer the LLM wrote is judged, and
\* delivered, with the chunks of the attempt it was written from.
AnswerFromLastAttempt ==
  \A r \in Requests :
    LET s == state[r] IN
    s.text = "written" /\ ~s.cached /\ pc[r] \in {"evaluate", "finish", "done"}
      => s.basis = s.retry /\ s.round = s.retry /\ s.chunks = "some"

\* Live account data never reaches a second request: it is read anew each
\* time, whatever the cache was filled with meanwhile.
LiveDataIsFresh ==
  \A r \in Requests :
    state[r].cached => state[r].source = "rag" /\ state[r].text = "written"

\* The cache never crosses tenants or questions: a cached answer was computed
\* for a request of the same tenant asking the same.
CacheStaysInTenant ==
  \A r \in Requests :
    state[r].cached =>
      /\ state[state[r].by].tenant = state[r].tenant
      /\ state[state[r].by].question = state[r].question

\* Every question gets its answer: one retry, no loop.
EveryQuestionAnswered ==
  \A r \in Requests : pc[r] = "get_cached" ~> pc[r] = "done"

-----------------------------------------------------------------------------
(* The inductive invariants behind these properties.                       *)

\* Of a scored answer, in a state or in the cache.
Honest(s) == s.text \notin {"idk", "crash"} => Passes(s) \/ s.warned
Deserved(s) == s.warned => ~Passes(s)

NoticeInv ==
  /\ \A r \in Requests :
       /\ pc[r] = "idle" => ~state[r].warned
       /\ pc[r] = "finish" => Honest(state[r]) /\ Deserved(state[r])
       /\ pc[r] = "done" =>
            /\ state[r].error = "blank" \/ Honest(state[r])
            /\ Deserved(state[r])
  /\ \A e \in cache : Honest(e) /\ Deserved(e)

\* A retry is asked for only while there is one left.
CounterInv ==
  \A r \in Requests : pc[r] = "increment_retry" => state[r].retry < MaxRetries

\* What a request holds is of the attempt its counter is at.
RoundInv ==
  /\ \A r \in Requests :
       LET s == state[r] IN
       /\ pc[r] = "db_lookup" => s.source # "rag"
       /\ pc[r] = "synthesize" /\ s.source # "sql" => s.round = s.retry
       /\ pc[r] = "idle" => s.text = "empty"
       /\ pc[r] # "done" => ~s.cached
  /\ AnswerFromLastAttempt

\* What a document answer may be at each score, and so what is in the cache.
CacheInv ==
  /\ \A r \in Requests :
       LET s == state[r] IN
       /\ pc[r] # "done" => s.by = r /\ ~s.cached
       /\ pc[r] = "idle" => s.source = "rag" /\ s.text = "empty"
       /\ pc[r] \in {"evaluate", "finish"} /\ s.source = "rag"
            => s.text \in {"empty", "idk", "written"}
       /\ pc[r] = "finish" /\ s.source = "rag"
            => (s.text = "empty" => s.faith = 0) /\ (s.text = "idk" => s.rel = 0)
  /\ \A e \in cache :
       /\ e.source = "rag" /\ e.text = "written"
       /\ state[e.by].tenant = e.tenant /\ state[e.by].question = e.question
  /\ LiveDataIsFresh /\ CacheStaysInTenant

=============================================================================
