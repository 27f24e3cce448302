------------------------------ MODULE Preparation ------------------------------
(***************************************************************************)
(* Steps two and three of ingest_document for one document: chunk_document *)
(* and embed_chunks, with the thread pool that asks a model for a context  *)
(* of each chunk, the batches of the embedding call and the assembly of    *)
(* what is uploaded.  A vector is the number of the chunk it was made of.  *)
(***************************************************************************)
EXTENDS Chunker, FiniteSets

CONSTANTS
  Documents,      \* parsed documents: sequences of pages, a page the
                  \*   token counts of its sentences
  Classifier,     \* CHUNK_CLASSIFIER: "keyword", or a model that may fall back to it
  Keywords,       \* the documents with enough financial keywords
  ContextSizes,   \* the token counts a context may have
  Concurrency,    \* _HAIKU_CONCURRENCY
  BatchSize,      \* _BATCH_SIZE
  MaxRetries,     \* _MAX_RETRIES
  MaxChunks       \* bound: documents with more chunks are not followed further

ASSUME ConstantsAssumption ==
  /\ Documents \subseteq Seq(Seq(Nat))
  /\ Keywords \subseteq Documents
  /\ ContextSizes \subseteq 1..(EmbeddingTokenLimit - 1)
  /\ Concurrency \in Nat \ {0} /\ BatchSize \in Nat \ {0}
  /\ MaxRetries \in Nat \ {0} /\ MaxChunks \in Nat

VARIABLES
  pages,     \* the document
  pc,        \* where embed_chunks is, "done" or "failed"
  chunked,   \* what chunk_document returned
  future,    \* the pool's task for each chunk
  enriched,  \* enriched_texts
  tries,     \* attempts at the batch in hand
  vectors,   \* all_vectors
  sent,      \* chunks whose batch was answered
  results,   \* what embed_chunks returned
  short, long  \* history: whether a batch came back with too few vectors, too many

vars == <<pages, pc, chunked, future, enriched, tries, vectors, sent, results, short, long>>

Nothing == [chunks |-> <<>>, parents |-> <<>>]
Chunks == DOMAIN chunked.chunks
ChunkTokens(i) == TokensOf(chunked.chunks[i].group)

Smaller(a, b) == IF a < b THEN a ELSE b

\* A text is a context of some length, 0 for none, and the first kept tokens of
\* a chunk.
NoText == [chunk |-> 0, context |-> 0, kept |-> 0]
RawText(i) == [chunk |-> i, context |-> 0, kept |-> ChunkTokens(i)]

-----------------------------------------------------------------------------
(* Mutants: plausible mistakes the properties below must catch.            *)

\* A text is stored where the pool finished, not where it belongs.
CollectInOrderOfEnd(i) ==
  /\ pc = "enriching" /\ future[i].state = "ready"
  /\ LET free == CHOOSE k \in Chunks : enriched[k] = NoText /\ \A j \in 1..k - 1 : enriched[j] # NoText
     IN enriched' = [enriched EXCEPT ![free] = future[i].text]
  /\ future' = [future EXCEPT ![i].state = "collected"]
  /\ UNCHANGED <<pages, pc, chunked, tries, vectors, sent, results, short, long>>

\* The context is counted twice.
EnrichedTextShort(i, context) ==
  [chunk |-> i, context |-> context,
   kept |-> Smaller(ChunkTokens(i), EmbeddingTokenLimit - 2 * context)]

\* The last attempt is retried too.
ThrottledAlways(i) ==
  /\ pc = "enriching" /\ future[i].state = "running"
  /\ future' = [future EXCEPT ![i].tries = @ + 1]
  /\ UNCHANGED <<pages, pc, chunked, enriched, tries, vectors, sent, results, short, long>>
-----------------------------------------------------------------------------
\* The classifier reads the keywords, or asks a model that may say anything or
\* fail over to the keywords.
IsFinancial == IF Classifier = "keyword" THEN {pages \in Keywords} ELSE BOOLEAN

\* _enrich_single: the context, a blank line and the chunk, cut at the limit.
EnrichedText(i, context) ==
  [chunk |-> i, context |-> context,
   kept |-> Smaller(ChunkTokens(i), EmbeddingTokenLimit - context)]

Queued == [state |-> "queued", tries |-> 0, text |-> NoText]

Init ==
  /\ pages \in Documents
  /\ pc = "parsed" /\ chunked = Nothing
  /\ future = <<>> /\ enriched = <<>>
  /\ tries = 0 /\ vectors = <<>> /\ sent = 0 /\ results = <<>>
  /\ short = FALSE /\ long = FALSE

\* No pages, or none with text, fails the task.
Chunk ==
  /\ pc = "parsed"
  /\ \E financial \in IsFinancial :
       LET made == IF financial THEN StrategyHierarchical(pages) ELSE StrategyFixed(pages)
       IN /\ chunked' = made
          /\ pc' = IF made.chunks = <<>> THEN "failed" ELSE "chunked"
  /\ UNCHANGED <<pages, future, enriched, tries, vectors, sent, results, short, long>>

\* EMBEDDER_CONTEXT_MODE: all tasks go to the pool at once, or there is no
\* context and every text is made on the spot.
StartPool ==
  /\ pc = "chunked" /\ Cardinality(Chunks) <= MaxChunks
  /\ pc' = "enriching"
  /\ future' = [i \in Chunks |-> Queued]
  /\ enriched' = [i \in Chunks |-> NoText]
  /\ UNCHANGED <<pages, chunked, tries, vectors, sent, results, short, long>>
SkipContext ==
  /\ pc = "chunked" /\ Cardinality(Chunks) <= MaxChunks
  /\ pc' = "embedding"
  /\ enriched' = [i \in Chunks |-> EnrichedText(i, 0)]
  /\ UNCHANGED <<pages, chunked, future, tries, vectors, sent, results, short, long>>

\* A free thread takes the oldest task.
TakeTask(i) ==
  /\ pc = "enriching" /\ future[i].state = "queued"
  /\ \A j \in 1..i - 1 : future[j].state # "queued"
  /\ Cardinality({j \in Chunks : future[j].state = "running"}) < Concurrency
  /\ future' = [future EXCEPT ![i].state = "running"]
  /\ UNCHANGED <<pages, pc, chunked, enriched, tries, vectors, sent, results, short, long>>

\* ThrottlingException before the last attempt.
Throttled(i) ==
  /\ pc = "enriching" /\ future[i].state = "running"
  /\ future[i].tries < MaxRetries - 1
  /\ future' = [future EXCEPT ![i].tries = @ + 1]
  /\ UNCHANGED <<pages, pc, chunked, enriched, tries, vectors, sent, results, short, long>>

\* The task ends with a context, without one (an unusable answer, the last
\* attempt, any other error), or with the raw chunk after an exception.
Enrich(i) ==
  /\ pc = "enriching" /\ future[i].state = "running"
  /\ \E text \in {EnrichedText(i, c) : c \in ContextSizes \cup {0}} \cup {RawText(i)} :
       future' = [future EXCEPT ![i].state = "ready", ![i].text = text]
  /\ UNCHANGED <<pages, pc, chunked, enriched, tries, vectors, sent, results, short, long>>

\* as_completed yields the tasks as they end; each text goes to its own index.
Collect(i) ==
  /\ pc = "enriching" /\ future[i].state = "ready"
  /\ enriched' = [enriched EXCEPT ![i] = future[i].text]
  /\ future' = [future EXCEPT ![i].state = "collected"]
  /\ UNCHANGED <<pages, pc, chunked, tries, vectors, sent, results, short, long>>

PoolDone ==
  /\ pc = "enriching" /\ \A i \in Chunks : future[i].state = "collected"
  /\ pc' = "embedding"
  /\ UNCHANGED <<pages, chunked, future, enriched, tries, vectors, sent, results, short, long>>

\* The chunks of the batch in hand, and what the model may answer to their
\* texts: their vectors in order, or against its contract one less or one more.
Batch == [k \in 1..Smaller(BatchSize, Len(enriched) - sent) |-> enriched[sent + k].chunk]
Fewer == {RemoveAt(Batch, k) : k \in DOMAIN Batch}
More == {InsertAt(Batch, k, Batch[k]) : k \in DOMAIN Batch}

EmbedBatch ==
  /\ pc = "embedding" /\ sent < Len(enriched)
  /\ \E answer \in {Batch} \cup Fewer \cup More :
       /\ vectors' = vectors \o answer
       /\ short' = (short \/ answer \in Fewer)
       /\ long' = (long \/ answer \in More)
  /\ sent' = sent + Len(Batch) /\ tries' = 0
  /\ UNCHANGED <<pages, pc, chunked, future, enriched, results>>

\* A retriable error is tried again, the last one and any other is raised.
EmbedRetry ==
  /\ pc = "embedding" /\ sent < Len(enriched)
  /\ tries < MaxRetries - 1
  /\ tries' = tries + 1
  /\ UNCHANGED <<pages, pc, chunked, future, enriched, vectors, sent, results, short, long>>
EmbedFails ==
  /\ pc = "embedding" /\ sent < Len(enriched)
  /\ pc' = "failed"
  /\ UNCHANGED <<pages, chunked, future, enriched, tries, vectors, sent, results, short, long>>

\* Only the total is compared; then zip pairs chunk, vector and text.
Assemble ==
  /\ pc = "embedding" /\ sent = Len(enriched)
  /\ IF Len(vectors) # Len(enriched)
     THEN pc' = "failed" /\ UNCHANGED results
     ELSE /\ pc' = "done"
          /\ results' = [i \in Chunks |-> [vector |-> vectors[i], text |-> enriched[i], bm25 |-> i]]
  /\ UNCHANGED <<pages, chunked, future, enriched, tries, vectors, sent, short, long>>

PoolStep(i) == TakeTask(i) \/ Throttled(i) \/ Enrich(i) \/ Collect(i)

Next ==
  \/ Chunk \/ StartPool \/ SkipContext \/ PoolDone
  \/ \E i \in Chunks : PoolStep(i)
  \/ EmbedBatch \/ EmbedRetry \/ EmbedFails \/ Assemble

Spec == Init /\ [][Next]_vars

-----------------------------------------------------------------------------
Text == [chunk : Nat, context : Nat, kept : Nat]
FutureStates == {"queued", "running", "ready", "collected"}

TypeOK ==
  /\ pages \in Documents
  /\ pc \in {"parsed", "chunked", "enriching", "embedding", "done", "failed"}
  /\ \A i \in DOMAIN future :
       future[i] \in [state : FutureStates, tries : 0..MaxRetries - 1, text : Text]
  /\ \A i \in DOMAIN enriched : enriched[i] \in Text
  /\ tries \in 0..MaxRetries - 1
  /\ sent \in 0..Len(chunked.chunks)
  /\ short \in BOOLEAN /\ long \in BOOLEAN

\* The chunks are a grouping of the document's sentences, or stand parent by
\* parent, each parent's a grouping of its sentences, when the parents are one
\* of the document's: no sentence is lost, none is out of order, and no child
\* goes beyond its parent.
ChunksCoverDocument ==
  LET sentences == SentencesWithPages(pages)
      Groups(m, n) == [k \in 1..n - m |-> chunked.chunks[m + k].group]
      total == Len(chunked.chunks)
  IN pc # "parsed" =>
       IF chunked.parents = <<>>
       THEN /\ \A k \in Chunks : chunked.chunks[k].parent = 0
            /\ IsGrouping(Groups(0, total), sentences, FixedSize, FixedOverlap)
       ELSE /\ IsGrouping(chunked.parents, sentences, ParentSize, ParentOverlap)
            /\ \A k \in Chunks : chunked.chunks[k].parent \in DOMAIN chunked.parents
            /\ \A i \in DOMAIN chunked.parents : \E m, n \in 0..total :
                 /\ m <= n /\ {k \in Chunks : chunked.chunks[k].parent = i} = m + 1..n
                 /\ IsGrouping(Groups(m, n), chunked.parents[i], ChildSize, ChildOverlap)

\* Where in the text of chunk i sentence x ends, if it is there.
EndsIn(i, x) ==
  LET group == chunked.chunks[i].group
  IN {TokensOf(SubSeq(group, 1, k)) : k \in {j \in DOMAIN group : group[j] = x}}
InParent(x) == \E k \in DOMAIN chunked.parents : x \in ToSet(chunked.parents[k])

\* Every sentence of the document is stored whole, in a parent or in the text of
\* a chunk, whatever the model says and in whatever order the pool ends: except,
\* in a document without parents, one that ends in each of its chunks so late
\* that a context can push it over the limit.
EverySentenceStored ==
  pc = "done" =>
    \A x \in ToSet(SentencesWithPages(pages)) :
      \/ InParent(x)
      \/ \E i \in Chunks : \E end \in EndsIn(i, x) : end <= results[i].text.kept
      \/ /\ \E i \in Chunks : EndsIn(i, x) # {}
         /\ \A i \in Chunks : \A end \in EndsIn(i, x) :
              \E c \in ContextSizes \cup {0} : end + c > EmbeddingTokenLimit

\* Every chunk is uploaded with its own text and, unless one batch came back
\* with too few vectors and another with too many, with its own vector.
OwnVectors ==
  pc = "done" =>
    /\ Len(results) = Len(chunked.chunks)
    /\ \A i \in Chunks :
         /\ results[i].text.chunk = i
         /\ results[i].vector = i \/ (short /\ long)
=============================================================================
