----------------------------- MODULE MCPreparation -----------------------------
(* Instances of Preparation for TLC. *)
EXTENDS Preparation, TLC

\* Sentences that fill an overlap, a child, most of a fixed chunk, or more than
\* the model takes.
MCSizes == {20, 240, 500, 1100}

\* Up to three sentences on one page, or with the last on a second page; a long
\* document of two parents; a document of no page and one of a blank page.
MCTexts == UNION {[1..n -> MCSizes] : n \in 1..3}
MCDocuments ==
  {<<>>, << <<>> >>, << <<500, 500, 20, 240>>, <<240, 500>> >>}
    \cup {<<t>> : t \in MCTexts}
    \cup {<<Front(t), <<Last(t)>> >> : t \in MCTexts}
MCKeywords == {d \in MCDocuments : Len(d) = 2}
=============================================================================
