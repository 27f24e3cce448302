# A TLA+ model of enterprise-rag-agents

The repository is a multi-tenant question answering service over financial
documents. Files are ingested by Celery workers into PostgreSQL and Qdrant;
questions go through a LangGraph pipeline of LLM calls, SQL and vector search
with a semantic cache in front; users' ratings tune the retrieval parameters.
This directory holds TLA+ modules of these parts, TLC configurations that check
them on small instances, and proofs of their main properties for every instance.
`PROJECT.json` maps each definition to the lines it models, lists the runs, the
mutants each property is tried against, the hazards of the code and the theorems.

## 1. Inventory

| Component | State it keeps | Operations | Interacts with | Hard behaviour | What makes it correct | Here |
|---|---|---|---|---|---|---|
| Ingestion queue (`ingestion/orchestrator.py`) | Celery messages with a retry count; `failed_documents` | `submit_document`, `ingest_document` | Redis broker, uploader | redelivery after a crash, retries, time limits, resubmission | every task ends; success means the document is complete | `Ingestion` |
| Upload protocol (`ingestion/qdrant_uploader.py`) | `ingestion_status`, `parent_chunks`, Qdrant points | `upload_document` in four phases | orchestrator; Qdrant with `wait=False` | crash between phases, two workers, late requests | `complete` means all chunks, of one run, with their parents | `Ingestion`, `DocumentStore` |
| Chunker (`ingestion/chunker.py`) | none | classify, fixed and hierarchical grouping | parser, embedder | sizes and overlaps at their boundaries | no sentence lost or out of order, children within parents | `Chunker`, `Preparation` |
| Embedder (`ingestion/embedder.py`, `bm25.py`) | none | contexts from a thread pool, batches of vectors | Bedrock | results out of order, throttling, counts that disagree, truncation | each chunk gets its own text and vector; no sentence cut away | `Preparation` (BM25 weights not) |
| Query graph (`agents/graph.py`, `query_analyzer`, `db_lookup`, `synthesizer`, `evaluator`, `state`) | `RAGState` per request | `run_query` and the nodes | LLMs on Bedrock, PostgreSQL, retriever, cache | a retry over half-stale state; any node may fail | bounded retry; no doubtful answer without notice | `QueryPipeline` |
| Semantic cache (`agents/semantic_cache.py`) | Qdrant collection of answers, shared | `get_cached`, `set_cache` | query graph | requests of several tenants interleaved, expiry | no tenant gets another's answer; no live account data in it | `QueryPipeline` |
| Retriever (`agents/retriever.py`) | `query_chunks` rows | hybrid search, rerank, MMR, log of chunks | Qdrant, Cohere, PostgreSQL, synthesizer | a retry beside the rows of the first attempt, lost updates | own tenant only; variety; labels that tell what was cited | `Retriever`; its outcomes in `QueryPipeline` |
| Feedback (`agents/feedback.py`, `api/feedback_router.py`) | `query_feedback`, `retrieval_params`, tune messages | `store_feedback`, `tune_retrieval_params`, `get_retrieval_params` | audit log, broker, retriever | transactions at READ COMMITTED, two workers, broker down | parameters stay usable; each N-th rating tunes, on the rows that made it due | `Feedback` |
| Query endpoint (`api/main.py`) | `query_audit_log` | `/query`, `/health`, `/ready` | graph, auth, rate limits | audit row written by the side of the answer | each answer can be found again | `QueryPipeline` (`Ask`), `Feedback` (`Answer`) |
| Access (`api/auth.py`, `token_store`, `sso`, `service_auth`) | `users`, `tenant_registry`, revoked token ids of each process | register, login, logout, SSO callback, mint, provisioning of keys | PostgreSQL; several API processes | check-then-insert between threads and processes; restart; lost commits | one account per customer; tokens speak for stored accounts; logout and new keys take effect | `Access` |
| Rate limit (`api/rate_limit.py`) | request times per key, in each process | `check_rate_limit` | all routes | threads without a lock | how far the limit is exceeded; nobody refused below it | `RateLimit` |
| Schema (`db/schema.py`) | all tables | provisioning | all | – | keys and references | what modules rely on |
| Parser (`ingestion/parser.py`) | none | one converter per format | libraries | failures only | – | not modelled |
| Scripts, logging, tracing, demos, deployment | – | – | – | – | – | not modelled |

## 2. The modules

    DocumentStore  <-- Ingestion <-- MCIngestion, IngestionProofs
    Chunker        <-- Preparation <-- MCPreparation, PreparationProofs
    QueryPipeline  <-- MCQueryPipeline, QueryPipelineProofs
    Retriever      <-- MCRetriever, RetrieverProofs
    Feedback       <-- MCFeedback, FeedbackProofs
    Access         <-- MCAccess, AccessProofs
    RateLimit      <-- MCRateLimit, RateLimitProofs
    Induction      <-- PreparationProofs, RetrieverProofs

Each module also holds, in a section of its own, the mutants its properties are
tried against.

### Ingestion and DocumentStore

An actor is a *task*: one message on the queue and the executions it gets.
`pc[t]` says where it is: `idle` (not submitted), `queued`, `pipeline` (parsing,
chunking, embedding), the phases of `upload_document` (`check`, `cleanup`,
`claim`, `parents`, `upload`, `finish`), `return`, the two steps of the failure
handlers (`failing`, `raising`), and `succeeded`/`failed`. There is one action for
each step whose effect another actor can see: a commit in PostgreSQL, a request
to Qdrant, an acknowledgement to the broker. A document is its file hash. Parent
and point ids are fresh UUIDs of each run of the chunker and uploader, so points
and parents carry the delivery `(task, exec)` that wrote them.

Qdrant is `points` (searchable), `acked` (acknowledged with `wait=False`, not
applied yet), `inflight` (upserts whose client gave up, which may still be
applied) and `lateDelete` (the same for the delete of a cleanup). The environment
may lose a worker, hit the hard limit, fail the cleanup, the DLQ or the gate's
read, apply requests late or lose acknowledged writes: each kind in `FaultKinds`,
at most `MaxFaults` in one behaviour. Failures the code itself provokes or
handles (exceptions, retries) are not bounded by it.

`mishap[d]` records which of five things have befallen a document: uploads
overlapped (`raced`), leftovers of a failed cleanup were kept (`dirty`), a late
upsert (`late`), a late delete (`lateDelete`), a lost write (`lost`). Each
property names the mishaps that excuse it and holds in spite of all the others.

`DocumentStore` is the abstract promise: content of one upload is collected,
published when whole and then left alone. `Ingestion!ImplementsStore` is its
specification under the refinement mapping `phase <- status`, `content <-` what
Qdrant has accepted of the document, `broken <-` documents with a mishap.

### Chunker and Preparation

`Preparation` is what one task does in the state `pipeline` of `Ingestion`, after
parsing. A sentence is its number, its token count and its page; `Chunker` has the
grouping loop of `chunk_document` as a recursive function and, beside it, `IsGrouping`,
which says without a loop what a grouping is: runs of consecutive sentences, by
their first and last positions, whose overlaps are the longest that fit. Parents are groups of sentences, children
groups of a parent's. A *text* is what the embedding model gets: a context of some
length and as many tokens of the chunk as fit the limit with it. A vector is the
number of the chunk it was made of. `future[i]` is the pool's task for chunk `i`:
`TakeTask` when one of `Concurrency` threads is free, `Throttled` and `Enrich`
inside it, `Collect` in the order of `as_completed`. `EmbedBatch` may answer as
asked, or with one vector too few or too many; `Assemble` compares totals only.

### QueryPipeline

`state[r]` is the `RAGState` of request `r`, cut to what properties tell apart:
an answer is one of seven kinds of text (nothing, the two cannot-answer texts,
live account data, text of the LLM, ...), chunks are none, blank or usable, and
`round` and `basis` remember which attempt retrieved the chunks and which chunks
an answer was written from. `pc[r]` is the graph's node; each action is a node
with the edge after it. LLM, databases and Qdrant answer anything, failures
included. Scores are percentages; the judge's raw values go through `SafeScore`,
where `NaN` becomes 100 as `min(1.0, nan)` does. `cache` is the shared set of
entries; near-identical questions are one question.

### Retriever

The same loop of attempts, cut to what `query_chunks` and the prompt depend on.
`Candidates` is every list the search and the reranker may produce under the
parameters (distinct points of the tenant, best first, cut to `top_k` and
`rerank_top_n`; reranking may be off, fail or reorder), `Mmr` the greedy choice as
a recursive function, `ReorderChunks` the order of the prompt. `rows` is the table
`query_chunks`, written by `Retrieve` and marked by `Synthesize` with an UPDATE that
names the query and the files, not the attempt or the chunk. `answered` and `unmarked`
are history: which answer cites which chunk, and whose update was lost. What the graph
does beside it, blank chunks included, is in `QueryPipeline`.

### Feedback

One tenant, as every statement filters on one `tenant_id`. `sub[f]` is a call of
`POST /feedback` with its transaction (insert, count, commit) and the trigger
after it, in any number of API processes; `task[w]` is what a worker process does
with a tune task: read in one transaction, write in another. A count sees the
committed rows and its own. `start` is `created_at`, the beginning of the
transaction, which orders the window. `asked`, `racing`, `mishap` and
`tuneRacing` are history: how many tasks were queued, whether two open
transactions counted, whether a due task was not queued after the commit, and
whether two tasks overlapped.

### Access

`req[r]` is one request that creates an account or a token: a registration, a
login, a callback of the company login or the minting of a customer token, in one
of `Processes`. Each SQL statement is an action: the checks of `register`
(`CheckTenant`, `CheckName`, `CheckCustomer`), `Insert`, `Commit`, and so on. An
INSERT waits while a row with the same unique key is uncommitted (`Uncommitted`)
and then fails or goes on. `sso_callback` is a coroutine with blocking database
calls, so a process takes no other request while it runs (`LoopFree`). `DbFails`
may strike at any statement and may lose the acknowledgement of a commit that
took place. `revoked[p]` is the memory of one process and gone after `Restart`.
`ProvisionKey` replaces the key hash in every row of a tenant. Tokens are the
requests that got one; `issued`, `epoch`, `met`, `out` and `broken` are history.

### RateLimit

`check_rate_limit` for one key in the threads of one process; other keys and other
processes share nothing. A thread may be interrupted wherever CPython 3.11 (the
version of `Dockerfile:1` and `pyproject.toml:8`) may switch: when a call returns or a loop
jumps back. Reading the clock, looking the key up, each round of the pruning loop
with its `popleft`, comparing the length, appending and the test for an empty
deque are therefore steps of their own. A deque is named by the call that made it,
and an entry by the call that appended it. `together` and `evicted` are history:
how many calls were ever under way at once, and whether a key was deleted.

## 3. What is checked

| Run | Instance | Shows |
|---|---|---|
| `ingestion` | 1 document, 2 messages, 2 batches, 1 retry, every fault kind, 2 faults | parents precede points; `complete` means whole and exact; success means complete; complete is permanent; `DocumentStore` is implemented |
| `ingestion_live` | 2 documents (one flat), 1 message each, 1 fault, fair | tasks do not damage each other's documents; every queued task ends; a complete document becomes searchable |
| `preparation` | every document of up to three sentences of 20, 240, 500 or 1100 tokens on one or two pages, one of two parents, an empty one; both strategies; up to 3 chunks through 2 threads in batches of 2 | chunks are a grouping of the document; no sentence is lost but by the cut a context forces; each chunk has its own text and vector |
| `query` | 2 requests, 2 tenants, 2 questions, 3 kinds of raw score, fair | no doubtful answer without the notice, no notice on a good one, answers rest on the last attempt's chunks, no live data and no foreign tenant's answer from the cache; every question is answered |
| `retriever` | 2 queries of 2 tenants, one retry in all, 4 points of 2 files with one pair of copies, 2 scores, MMR of 2 or 3 out of 3 | the prompt is of the own tenant and opens with the best chunk; copies give way to variety; no row is labelled without an answer that cites its file, none that is cited is left out unless its update is lost |
| `feedback` | 4 ratings, 2 workers, tuning each second rating, window 3, `top_k` at 11, 20 and 48 | parameters narrow like a funnel; tunes see the rows that made them due; each N-th rating queues one task unless counts overlapped or broker or process failed; one tune moves `top_k` one step unless tasks overlapped |
| `access` | 2 requests of any kind in 2 processes, 3 addresses, 2 tenants (one with two domains, one with none), 2 keys, 1 restart each | one account per customer unless two registrations met; answered accounts are stored under their tenant; company logins fail only with the database or in a race; old keys mint nothing; logouts hold in their process |
| `rate_limit` | 4 calls, limit 2, window 1, clock to 3 | a request let through stays counted for its window; the limit is exceeded by one per overlapping call at most; calls that do not overlap are refused only at the limit |

Why these bounds are enough to be interesting. Two messages of one document give
every overlap of two uploads; with two faults a crash is followed by a failed or
late cleanup of its leftovers. Two batches separate the first from the last.
One retry reaches both the retry and the exhausted branch.
Two documents with one message each show what tasks share without meeting in a
document; that each task ends does not depend on whose document it has. The four sentence
lengths fit an overlap, fill a child, nearly fill a fixed chunk and exceed the
model; three chunks in batches of two let one batch come back short and the next
long; `MaxChunks` only stops the pool for longer documents, their chunks are
checked. Two requests suffice for the cache: one fills, one reads, and both orders
of tenants and questions occur; as their names do not matter, a constraint fixes what
one of the requests asks, which no step changes. The raw score 77 is below all
thresholds of faithfulness and, as relevance, between those of the cache and of the
evaluator; 150 and NaN are above all, and a judge that fails is below all. In `retriever` two
of three points of a tenant are copies in different files, so that MMR has to choose,
and the other tenant has a file of the same name; a constraint lets one query of the
two retry, as queries meet in the table only. Four ratings with a period of two
give two milestones, and two workers overlapping tasks. `top_k` starts next to
both ends of its range so that the clamps bite. The properties of `access` each
relate two requests, or a request and what was done to its tenant or process. Four
calls around a limit of two fill a window twice, and the clock outlasts the window
twice. Symmetry is over tasks, submissions, workers, requests of `Access`,
processes and calls, and used in no run with a liveness property.

`CHECK_DEADLOCK FALSE` everywhere: all work may be done, and nothing is then left
to do.

### Disagreements between code and documents

Four runs expect a violation; each checks what a document, a comment or a docstring
says, quoted in `PROJECT.json` under `findings`:

- `ingestion_dlq`: `retry(exc=exc)` re-raises `exc`; the DLQ branch for exhausted
  retries is never entered.
- `feedback_rating`: the `query_id` of a response is the id of no audit row, so
  the foreign key refuses each rating sent with it. The other run of `Feedback` rates
  with ids of audit rows, the only ones that get past it.
- `rate_limit_keys`: the test for an empty deque comes right after an append, and no
  one looks at a key that is not asked for again, so the key of a caller who stays
  away is never deleted, although two comments promise it to bound the dictionary.
- `retriever_flags`: citations flag every logged chunk of a cited file, in both
  attempts, and not only the chunks the answer used.

Others are visible in the modules without a run of their own, most of them where a
property names an excuse:

- Uploads. `raced`: nothing locks the row between the read of phase 1 and the commit
  of the claim, whose comment says other workers "will not double-process"
  (`qdrant_uploader.py:531`); `status = processing` is taken for a crashed run, so a
  second worker's cleanup can delete the points of a live one. `lost`: with
  `wait=False` phase 4 does not wait for the index, so a lost write is left behind
  `complete`, not `processing` (`:386`). `dirty`: point ids are fresh in each run, so no
  upsert "will overwrite any leftover points" (`:301`), nor does `ON CONFLICT` find the
  parents of an abandoned run (`:313`).
- Preparation. A chunk may be longer than the model's limit, by the overlap: the
  comment at `chunker.py:71` says "no chunk may exceed this". Context and chunk are cut
  to 512 tokens together, so a chunk without a parent loses its tail, although
  `chunker.py:8` never cuts mid-sentence. A chunk no longer than the overlap is
  stored twice, the second time at the head of the next. A count of vectors that does
  not match raises `RuntimeError`, which `ingest_document` does not retry
  (`orchestrator.py:271`), although `embedder.py:504` speaks of re-queueing.
- Answers. A failed SQL lookup is scored 1.0/1.0 and gets no notice (text `idkSql`;
  `graph.py:49` promises one). A NaN score counts as perfect (`SafeScore`), against
  `agents/DECISIONS.md:1116`.
- Retrieval. The input of `_reorder_chunks` is the order MMR picked in, so
  the end of the prompt holds MMR's second pick and not the second-best chunk.
- Tuning. Overlapping counts may both miss a milestone or both reach it (`racing`),
  against `README.md:35`; of two overlapping tunes one is lost (`tuneRacing`). `Trigger`
  answers HTTP 500 "Failed to store feedback." for a rating that is stored when the
  broker refuses its task.
- Access. "After logout, the token is invalid" (`auth.py:192`) holds in the process
  that took the logout, until it restarts; `docker-compose.prod.yml:18` starts four.
  The loser of two first company logins of one person gets HTTP 500, as does a
  password login to an account the company login made.

### Fairness

- `Ingestion`: weak fairness of each task's steps and of indexing. A worker holding
  a task runs under a soft time limit that ends what hangs; the queue is consumed;
  Qdrant indexes what it acknowledged. There is none for submissions or faults.
- `QueryPipeline`: weak fairness of each request's steps, as a request is a running
  thread whose external calls end. No fairness for `Ask` and `Expire`.
- `RateLimit`: weak fairness of the steps of each call, which waits for nothing, and of
  the clock; none for new calls. Only the violated `EmptyKeysAreEvicted` is checked
  under it, so that the key is not kept for want of time.
- The other modules claim no liveness. A tune task lost by a worker is not retried,
  and a request of `Access` may wait for an uncommitted row as long as that takes.

## 4. What is proved

With tlapm, for all values of the constants that satisfy `ConstantsAssumption`.

**IngestionProofs.** `TypeCorrect`; `ParentsFirst` (from `ParentsInv`: a run in
phase 3 has its parents committed); `UploadProtocol`, the invariant `UploadInv`,
and from it `CompleteWhole`, `CompleteExact`, `SuccessComplete`, `Permanent` and
`Implements` (refinement of `DocumentStore`). `CompleteIsWhole` is not inductive:
that phase 4 writes `complete` over a whole upload needs that the batches behind
the loop counter are in Qdrant (`BatchesBehind`), hence that no one else cleaned
up meanwhile (`SoleUploader`), hence that whoever passes phase 1 sees the status
of the phase another uploader is in (`StatusOfUploader`); exactness adds that
Qdrant holds nothing but the present run's points (`ContentOfUploader`). Each
part is guarded by the mishaps that break it, so they are proved together.

**QueryPipelineProofs.** `TypeCorrect` (with `CounterInv`: a retry is asked for only
while one is left, without which the counter's bound is not inductive),
`NoticeCorrect` and `NoticeDeserved` (`NoticeInv`: finished, delivered and cached
answers are honest, since a hit copies an entry), `LastAttemptCorrect` (`RoundInv`:
chunks are of the attempt the counter is at), `CacheCorrect` and `LiveDataFresh`
(`CacheInv`: what a document answer can be at each score, which is why neither an
empty nor a cannot-answer text is cached, and no account data).

**RetrieverProofs.** `LabelsCorrect`: a row is cited only when an answer of its
attempt or a later one cites its file, and always when the answer of its attempt cites
its chunk and the update is not lost, whatever search, reranker and LLM return. It needs
that a query that searches has no answer of its present attempt yet, and that no row
is of an attempt still to come (`LabelInv`).
`RetrieverTypes`, `PromptIsRight` and `VarietyHolds` speak of what MMR's loop chooses. The
loop is a recursive function, which `NatRecursion` gives a value at every length;
induction over the picks shows that they are distinct, each the best of what was
left, and the first the best of all (`SelectedPicks`). `Reordered` says what
`_reorder_chunks` keeps. `RankInv` ties the state to that: the list in hand is a
ranking of the tenant's own points, and the kept chunks are MMR's choice from it.

**PreparationProofs.** `GroupsAreGrouping`: the loop of `_build_chunk_groups` meets
`IsGrouping`, for any sentences, size and overlap. The loop invariant `Runs` names the
positions from which and to which each group runs; a sentence either extends the
last run (`RunsFit`) or closes it and starts one at its overlap (`RunsClose`).
`FlattenParts` says where in a flattened sequence each part stands, so that
`ChunksCover` holds of both strategies: children tile their parents and parents the
document. Over the steps of the pool and the batches the invariant is `PrepInv`. A
text that is ready or collected is one that the pool may make of its chunk (`PoolInv`),
in whatever order tasks end. While every batch is answered in full the vectors are
the chunks' own, and after batches that were only short, or only long, the total is
wrong (`VectorInv`): `OwnVectors` alone is not inductive, as it says nothing before the
end. `VectorsAreOwn`, `SentencesStored` and `PreparationTypes` follow from it;
`SentencesStored` also needs that the runs reach every sentence (`GroupsCover`).

**Induction.** The library's theorems on induction and recursion take operators, which
the provers cannot instantiate. Here they are stated over sets and functions, and
derived from the well-foundedness of `<` on the naturals: `SetInduction` (a set with
zero and all successors holds every natural) and `NatRecursion`, `BoundedRecursion` (a
step function that stays in a set has a run of any length, in that set).

**FeedbackProofs.** `TypeCorrect` with `ParamsInv`, `Narrows` (the three parameters as
functions of `top_k`, rounding included, over the whole range), `RowsSeen`
(`RowsInv`: counts are covered by committed rows, and no task exists before
`TuneEveryN` of them), `Milestones` (`MilestoneInv`: the tasks queued and the committed
ratings whose task is still due make up the quotient; only one transaction is
counted at a time, and its count is that of the next row) and `OneStep`
(`TuneAlone`: the one task under way holds the parameters of the table).

**AccessProofs.** All six properties of the run. The invariant `Kept` joins the type
of each request by its kind (`Shape`) with: who is past the checks has a tenant
(`Vetted`); a row is what its request asked for, and that request is over
(`RowsStand`); requests under way know of each other (`Overlapping`); who found no
account of a customer, or an address, has met whoever made one since (`NoSecond`,
`NoAddress`); all rows of a tenant hold its newest key (`KeysAgree`); a confirmed
logout is remembered while the token lasts (`LogoutSeen`).

**RateLimitProofs.** `TypeCorrect`, `Counted` (`AdmittedIsCounted`: a request let
through stays in the deque until it leaves the window, in whatever order calls read
the clock, drop and append), `Overshoot` and `RefusedAtLimit`. The invariant says that until a key
is deleted all calls hold one deque (`OneDeque`) and that its entries and the calls
about to append fit the limit and the overlap (`Room`); that a call which is alone
finds its entry again (`AloneKeepsKey`) keeps the key. While calls do not overlap the
entries are distinct and in the order of their times (`Ordered`), so that a head
still in the window vouches for all behind it.

Every invariant, every action property and the refinement that the passing runs check
are stated by a theorem. Only model-checked: the liveness properties of
`IngestionLive.cfg` and `QueryPipeline.cfg`, as fairness and ENABLED are beyond the
prover. The proofs rest on the standard library's facts about finite sets,
cardinality, functions and sequences.

## 5. Assumptions and limits

- One `upsert` request is applied as a whole or not at all. A delete with
  `wait=True` is applied after every upsert acknowledged before it.
- Celery's `retry(exc=exc)` raises `exc` once retries are used up; a task ended by
  the hard limit is acknowledged.
- `EveryTaskEnds` assumes a worker on queue `ingestion`. `docker-compose.prod.yml:44`
  starts one for `celery` only, although `README.md:282` calls it the worker "for
  document ingestion + feedback tuning".
- A file that changes between submission and parsing is not modelled: a document
  is its hash.
- Token counts of a joined text are the sums the chunker keeps. The classifier may
  give any answer in the mode that asks a model. Vectors cover only what the model
  reads of a text.
- An expired cache entry is simply gone; similarity above the threshold is equality.
- A hybrid answer without chunks is scored 0/0 although the SQL part is sound, so it
  is retried and carries the notice; this is the code's behaviour, and the model's.
- Cache thresholds are lower than those of the evaluator, so an answer with a
  notice may be cached; it is served with its notice.
- `synthesize` clears `error`, so failures of `db_lookup` and `retrieve` are
  not reported. No document promises otherwise.
- In `Retriever` similarities are 0 or 100 and scores take the values of
  `ScoreValues`; parents' texts, which two children may share, are not followed.
- `Feedback` leaves out a commit whose acknowledgement is lost.
- In `Access`, hashing and signing are sound, addresses have one "@", the random end
  of a name made at a first company login is new, and callers of the minting route
  hold a key their tenant was given.
- Prompts, SQL text, wording and BM25 arithmetic are data.

## 6. Not modelled

- The parser: conversions by libraries, without state of their own; that they
  fail is an outcome of `Prepared` in `Ingestion`.
- `query_similar`, the bootstrap of schema and collection, `/health` and `/ready`: they
  read, or run once before anything else.
- The scripts: reingestion drops the collection and the rows while the workers
  are stopped and then only submits documents; the export of training data only reads.
- Logging, tracing, demos and deployment files: no state the system reads back. The
  broker's eviction policy and the connections of psycopg2, listed as hazards, are
  limits of the environment; every call may fail in the modules.

## 7. What could follow

- File contents beside hashes in `Ingestion`, for a file replaced between submission
  and parsing.
- Reingestion with workers running, over the stores of `Ingestion`.
