------------------------------ MODULE MCFeedback ------------------------------
(* Instances of Feedback for TLC. *)
EXTENDS Feedback, TLC

\* Both ends of the range, where the clamps bite.
MCStartTopK == {11, 48}

MCSymmetry ==
  Permutations(Submissions) \cup Permutations(Workers) \cup Permutations(Queries)
=============================================================================
