--------------------------- MODULE MCQueryPipeline ---------------------------
(* Instances of QueryPipeline for TLC. *)
EXTENDS QueryPipeline, TLC

CONSTANTS r1, acme, q1

\* Once safe, 77 is too low for any threshold of faithfulness and between those
\* of the cache and of the evaluator for relevance; the others are above all.
\* A judge that fails answers 70 for both, which is below all.
MCRawScores == {77, 150, NaN}

\* Tenants and questions differ in their names only: fix what one request asks.
FirstAsks == state[r1].tenant = acme /\ state[r1].question = q1
=============================================================================
