------------------------------ MODULE Retriever ------------------------------
(***************************************************************************)
(* What the graph's retrieve node hands to synthesize, and the labels both *)
(* leave in query_chunks for the training exports: the hybrid search, the  *)
(* reranker, maximal marginal relevance and the order of the prompt        *)
(* (agents/retriever.py), then the citations of the answer                 *)
(* (agents/synthesizer.py), for as many attempts as the evaluator asks.    *)
(*                                                                         *)
(* Scores and similarities are in percent.  What Qdrant finds, how Cohere  *)
(* reorders it and which chunks the LLM cites is arbitrary.                *)
(***************************************************************************)
EXTENDS Integers, Sequences, SequencesExt, FiniteSetsExt, Functions

CONSTANTS
  Queries,
  QueryTenant,  \* the tenant of each query
  Points,       \* the points of the collection
  PointTenant, PointFile,   \* payload tenant_id and file_name of each
  Copies,       \* the pairs of points whose vectors are the same direction;
                \*   others are taken for orthogonal
  Params,       \* retrieval_params: triples <<top_k, rerank_top_n, mmr_final_k>>
  ScoreValues,  \* the scores a search or the reranker may give
  MaxRetries    \* _MAX_RETRIES of the evaluator

ASSUME ConstantsAssumption ==
  /\ Copies \subseteq Points \X Points
  /\ \A p, q \in Points : <<p, q>> \in Copies => <<q, p>> \in Copies
  /\ Params \subseteq (Nat \ {0}) \X (Nat \ {0}) \X (Nat \ {0})
  /\ \A x \in Params : x[1] >= x[2] /\ x[2] >= x[3]
  /\ ScoreValues \subseteq 0..100
  /\ MaxRetries \in Nat

VARIABLES
  pc,       \* where each query is
  attempt,  \* its retry counter
  ranked,   \* the reranked candidates of its last search, best first
  chunks,   \* its state["chunks"]
  rows,     \* the table query_chunks
  answered, \* <<query, attempt, point>>: an answer that cites the chunk
  unmarked  \* queries that lost an update of the labels

vars == <<pc, attempt, ranked, chunks, rows, answered, unmarked>>

Hit == [point : Points, score : ScoreValues]
Row == [query : Queries, attempt : 0..MaxRetries, point : Points, cited : BOOLEAN]

Init ==
  /\ pc = [q \in Queries |-> "retrieve"]
  /\ attempt = [q \in Queries |-> 0]
  /\ ranked = [q \in Queries |-> <<>>]
  /\ chunks = [q \in Queries |-> <<>>]
  /\ rows = {} /\ answered = {} /\ unmarked = {}

-----------------------------------------------------------------------------
(* Mutants: plausible mistakes the properties below must catch.            *)

\* The sparse prefetches carry no tenant filter.
SearchableAll(q) == Points

\* The search returns no vectors (with_vectors left out).
MaxSimNone(p, picked) == 0

\* The citations of an answer are marked by file alone.
MarkedRowsOfFile(q, files) == {x \in rows : PointFile[x.point] \in files}

\* The evaluator never looks at the counter.
EvaluateUnbounded(q) ==
  /\ pc[q] = "evaluate"
  /\ pc' = [pc EXCEPT ![q] = "retrieve"]
  /\ attempt' = [attempt EXCEPT ![q] = @ + 1]
  /\ UNCHANGED <<ranked, chunks, rows, answered, unmarked>>

-----------------------------------------------------------------------------
(* The pipeline from the points to the prompt.                             *)

\* The points a query's search may see: every prefetch filters on its tenant.
Searchable(q) == {p \in Points : PointTenant[p] = QueryTenant[q]}

\* The lists of at most n hits on distinct points of P, best score first.
Rankings(P, n) ==
  {h \in BoundedSeq(Hit, n) :
     /\ IsInjective([i \in DOMAIN h |-> h[i].point])
     /\ \A i \in DOMAIN h :
          /\ h[i].point \in P
          /\ i > 1 => h[i - 1].score >= h[i].score}

FirstN(s, n) == SubSeq(s, 1, Min({n, Len(s)}))

\* _rerank: disabled, without a key, timed out or failed, it cuts the list;
\* otherwise Cohere orders and scores the candidates anew.
Reranked(hits, n) ==
  {FirstN(hits, n)} \cup
  {h \in Rankings({hits[i].point : i \in DOMAIN hits}, n) :
     Len(h) = Min({n, Len(hits)})}

\* The candidates MMR may get for query q, under the parameters x.
Candidates ==
  [q \in Queries |-> [x \in Params |->
     UNION {Reranked(hits, x[2]) : hits \in Rankings(Searchable(q), x[1]) \ {<<>>}}]]

\* The similarity of point p to the nearest of the points picked.
MaxSim(p, picked) == IF \E x \in picked : <<p, x>> \in Copies THEN 100 ELSE 0

\* 0.6 relevance - 0.4 similarity, in tenths of a percent.
MmrScore(c, i, sel) ==
  6 * c[i].score - 4 * MaxSim(c[i].point, {c[j].point : j \in Range(sel)})

\* The first of the candidates with the best score among those not selected.
MmrPick(c, sel) ==
  LET remaining == DOMAIN c \ Range(sel)
  IN Min({i \in remaining :
            \A j \in remaining : MmrScore(c, i, sel) >= MmrScore(c, j, sel)})

Mmr(c, k) ==
  LET selected[n \in 1..k] ==
        IF n = 1 THEN <<1>>
        ELSE Append(selected[n - 1], MmrPick(c, selected[n - 1]))
  IN IF Len(c) <= k THEN c ELSE [n \in 1..k |-> c[selected[k][n]]]

\* Best chunk first, second-best last.
ReorderChunks(s) ==
  IF Len(s) <= 2 THEN s ELSE <<s[1]>> \o SubSeq(s, 3, Len(s)) \o <<s[2]>>

-----------------------------------------------------------------------------
Goto(q, l) == pc' = [pc EXCEPT ![q] = l]

\* What the search gave is not read here once the answer is written.
Forget(q) ==
  /\ ranked' = [ranked EXCEPT ![q] = <<>>]
  /\ chunks' = [chunks EXCEPT ![q] = <<>>]

\* The rows _log_chunks inserts for the chunks c.
Logged(q, c) ==
  {[query |-> q, attempt |-> attempt[q], point |-> c[i].point, cited |-> FALSE] :
     i \in DOMAIN c}

\* retrieve finds something: search, rerank, MMR, and the log of the chunks,
\* which may fail without a word.
Retrieve(q) ==
  /\ pc[q] = "retrieve"
  /\ \E x \in Params : \E c \in Candidates[q][x] :
       /\ ranked' = [ranked EXCEPT ![q] = c]
       /\ chunks' = [chunks EXCEPT ![q] = Mmr(c, x[3])]
       /\ rows' \in {rows, rows \cup Logged(q, Mmr(c, x[3]))}
  /\ Goto(q, "synthesize")
  /\ UNCHANGED <<attempt, answered, unmarked>>

\* Nothing found, Bedrock refuses, or Qdrant fails four times.
RetrieveNothing(q) ==
  /\ pc[q] = "retrieve"
  /\ Goto(q, "synthesize")
  /\ Forget(q)
  /\ UNCHANGED <<attempt, rows, answered, unmarked>>

\* An exception retrieve does not catch, or the death of the process, ends
\* the query where it is.
Crash(q) ==
  /\ pc[q] # "done"
  /\ Goto(q, "done")
  /\ Forget(q)
  /\ UNCHANGED <<attempt, rows, answered, unmarked>>

\* What _mark_cited's UPDATE matches: every row of the query, of whichever
\* attempt, from a file the answer cites.
MarkedRows(q, files) ==
  {x \in rows : x.query = q /\ PointFile[x.point] \in files}

\* The LLM writes an answer that cites some chunks of its tenant, in the prompt
\* or not (a name that matches no file marks nothing).  Of a citation, "filename,
\* page N, Chunk #K", only the file is kept, and _mark_cited labels the rows,
\* unless it fails or the process dies before it.
Synthesize(q) ==
  /\ pc[q] = "synthesize" /\ chunks[q] # <<>>
  /\ \E cites \in SUBSET Searchable(q) :
       LET marked == MarkedRows(q, {PointFile[p] : p \in cites}) IN
       /\ answered' = answered \cup {<<q, attempt[q], p>> : p \in cites}
       /\ \/ /\ rows' = (rows \ marked) \cup {[x EXCEPT !.cited = TRUE] : x \in marked}
             /\ UNCHANGED unmarked
          \/ UNCHANGED rows /\ unmarked' = unmarked \cup {q}
  /\ Goto(q, "evaluate")
  /\ Forget(q)
  /\ UNCHANGED attempt

\* No usable chunk, or the LLM fails: nothing is cited.
SynthesizeNothing(q) ==
  /\ pc[q] = "synthesize"
  /\ Goto(q, "evaluate")
  /\ Forget(q)
  /\ UNCHANGED <<attempt, rows, answered, unmarked>>

\* The answer passes, or is the last: the graph ends.
EvaluatePasses(q) ==
  /\ pc[q] = "evaluate"
  /\ Goto(q, "done")
  /\ UNCHANGED <<attempt, ranked, chunks, rows, answered, unmarked>>

\* It fails with a retry left: increment_retry, and retrieve once more.
Evaluate(q) ==
  /\ pc[q] = "evaluate" /\ attempt[q] < MaxRetries
  /\ Goto(q, "retrieve")
  /\ attempt' = [attempt EXCEPT ![q] = @ + 1]
  /\ UNCHANGED <<ranked, chunks, rows, answered, unmarked>>

Next ==
  \E q \in Queries :
    \/ Retrieve(q) \/ RetrieveNothing(q)
    \/ Synthesize(q) \/ SynthesizeNothing(q)
    \/ EvaluatePasses(q) \/ Evaluate(q) \/ Crash(q)

Spec == Init /\ [][Next]_vars

-----------------------------------------------------------------------------
TypeOK ==
  /\ pc \in [Queries -> {"retrieve", "synthesize", "evaluate", "done"}]
  /\ attempt \in [Queries -> 0..MaxRetries]
  /\ ranked \in [Queries -> Seq(Hit)]
  /\ chunks \in [Queries -> Seq(Hit)]
  /\ rows \subseteq Row
  /\ answered \subseteq Queries \X (0..MaxRetries) \X Points
  /\ unmarked \subseteq Queries

\* "_reorder_chunks: best chunk first": whatever the search, the reranker and
\* MMR did, the prompt shows distinct chunks of the asking tenant alone,
\* nothing MMR chose is lost, and nothing the reranker kept is rated higher
\* than the chunk it opens with.
PromptIsOwnAndBestFirst ==
  \A q \in Queries :
    LET prompt == ReorderChunks(chunks[q])
        point == [i \in DOMAIN prompt |-> prompt[i].point]
    IN pc[q] = "synthesize" /\ prompt # <<>> =>
         /\ IsInjective(point)
         /\ \A i \in DOMAIN prompt : PointTenant[point[i]] = QueryTenant[q]
         /\ Range(prompt) = Range(chunks[q])
         /\ \A i \in DOMAIN ranked[q] : prompt[1].score >= ranked[q][i].score

\* "pick chunks that are relevant but not copies of each other": a copy of a
\* chunk already picked takes a place only if every candidate that is left out
\* is a copy of a picked one as well, or is rated two thirds of the scale
\* below it.
VarietyBeforeCopies ==
  \A q \in Queries :
    LET c == chunks[q]
        New(p, n) == \A j \in 1..n : <<p, c[j].point>> \notin Copies
    IN \A i \in 2..Len(c) : \A x \in Range(ranked[q]) \ Range(c) :
         ~New(c[i].point, i - 1) /\ New(x.point, i - 1)
           => 3 * (c[i].score - x.score) >= 200

\* An answer of row x's attempt, or of a later one, cites a chunk of its file.
FileIsCited(x) ==
  \E a \in x.attempt..MaxRetries, p \in Points :
    PointFile[p] = PointFile[x.point] /\ <<x.query, a, p>> \in answered

\* The labels of the training data: no row is marked cited but by an answer of
\* its own query, of its attempt or a later one, that cites its file; and a
\* chunk the answer of its attempt cites is marked, unless the update was lost.
LabelsFollowAnswers ==
  \A x \in rows :
    /\ x.cited => FileIsCited(x)
    /\ <<x.query, x.attempt, x.point>> \in answered => x.cited \/ x.query \in unmarked

\* "Flag query_chunks rows actually cited in the answer": a row is marked only
\* if an answer of its query cites that very chunk, or one that was not logged.
\* The code marks all rows of the file, those of a failed attempt included.
OnlyCitedRowsAreFlagged ==
  \A x \in rows : x.cited =>
    \E a \in 0..MaxRetries, p \in Points :
      /\ <<x.query, a, p>> \in answered
      /\ p = x.point \/ ~ \E y \in rows : y.query = x.query /\ y.point = p
=============================================================================
