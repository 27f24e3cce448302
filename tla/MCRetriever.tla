----------------------------- MODULE MCRetriever -----------------------------
(* Instances of Retriever for TLC. *)
EXTENDS Retriever, TLC

CONSTANTS q1, q2, p1, p2, p3, p4

\* Two queries of two tenants; p1 and p2 are copies, of two files; p4 is the
\* other tenant's, of a file with the name of p1's.
MCQueryTenant == q1 :> "a" @@ q2 :> "b"
MCPointTenant == p1 :> "a" @@ p2 :> "a" @@ p3 :> "a" @@ p4 :> "b"
MCPointFile == p1 :> "f" @@ p2 :> "g" @@ p3 :> "f" @@ p4 :> "f"
MCCopies == {<<p1, p2>>, <<p2, p1>>}
MCParams == {<<3, 3, 2>>, <<3, 3, 3>>}

\* One retry in all: the queries meet in the table only.
OneRetry == attempt[q1] + attempt[q2] <= 1
=============================================================================
