----------------------------- MODULE MCIngestion -----------------------------
(* Instances of Ingestion for TLC. *)
EXTENDS Ingestion, TLC

CONSTANTS d1, d2, t1, t2

\* One document, two messages: a resubmission, concurrent or later.
OneDocument == [t \in Tasks |-> d1]
\* Two documents, one message each.
TwoDocuments == [t \in Tasks |-> IF t = t1 THEN d1 ELSE d2]

MCSymmetry == Permutations(Tasks)
=============================================================================
