---------------------------- MODULE DocumentStore ----------------------------
(***************************************************************************)
(* What the ingestion pipeline promises about one document, free of tasks, *)
(* retries and the two databases: its content is collected from a single   *)
(* upload, published when that upload is whole, and left alone from then   *)
(* on.  A document on which a mishap fell is excepted from then on.        *)
(***************************************************************************)
CONSTANTS
  Docs,
  Package(_)  \* the whole upload an item belongs to, a set of items

VARIABLES
  phase,    \* "none", "processing" or "complete", per document
  content,  \* the items stored, per document
  broken    \* the documents on which a mishap fell

vars == <<phase, content, broken>>

Init ==
  /\ phase = [d \in Docs |-> "none"]
  /\ content = [d \in Docs |-> {}]
  /\ broken = {}

Same(d) == phase'[d] = phase[d] /\ content'[d] = content[d]

\* A (new) upload begins from nothing.
Open(d) ==
  /\ phase[d] # "complete" /\ phase'[d] = "processing"
  /\ content[d] = {} /\ content'[d] = {}

\* What an abandoned upload left is dropped.
Discard(d) ==
  /\ phase[d] = "processing" /\ phase'[d] = "processing"
  /\ content'[d] = {}

\* The upload stores some of its items.
Add(d) ==
  /\ phase[d] = "processing" /\ phase'[d] = "processing"
  /\ content[d] \subseteq content'[d]
  /\ \A x, y \in content'[d] : Package(x) = Package(y)

\* The upload is whole and becomes visible.
Publish(d) ==
  /\ phase[d] = "processing" /\ phase'[d] = "complete"
  /\ content'[d] = content[d]
  /\ content[d] # {}
  /\ \A x \in content[d] : content[d] = Package(x)

DocStep(d) == Same(d) \/ Open(d) \/ Discard(d) \/ Add(d) \/ Publish(d)

Next ==
  /\ broken \subseteq broken'
  /\ \A d \in Docs : d \in broken' \/ DocStep(d)

Spec == Init /\ [][Next]_vars
=============================================================================
