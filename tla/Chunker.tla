-------------------------------- MODULE Chunker --------------------------------
(***************************************************************************)
(* chunk_document: sentences grouped into chunks by their token counts.    *)
(* A sentence is its number, its count and its page; the count of a joined *)
(* text is the sum the code keeps.                                         *)
(***************************************************************************)
EXTENDS Integers, Sequences, SequencesExt

EmbeddingTokenLimit == 512
FixedSize == 512
FixedOverlap == 50
ParentSize == 1024
ParentOverlap == 0
ChildSize == 256
ChildOverlap == 30

TokensOf(s) ==
  LET sum[n \in 0..Len(s)] == IF n = 0 THEN 0 ELSE sum[n - 1] + s[n].tokens
  IN sum[Len(s)]

\* A sentence that is too long for the model is cut into pieces of the limit.
SplitAtTokenLimit(n) ==
  [i \in 1..((n + EmbeddingTokenLimit - 1) \div EmbeddingTokenLimit) |->
     IF i * EmbeddingTokenLimit <= n THEN EmbeddingTokenLimit ELSE n % EmbeddingTokenLimit]

\* A page is the token counts of its sentences.
SentencesWithPages(pages) ==
  LET Pieces(p) ==
        FlattenSeq([j \in DOMAIN pages[p] |->
          IF pages[p][j] > EmbeddingTokenLimit
          THEN SplitAtTokenLimit(pages[p][j]) ELSE <<pages[p][j]>>])
      OnPage(p) == [j \in DOMAIN Pieces(p) |-> [tokens |-> Pieces(p)[j], page |-> p]]
      flat == FlattenSeq([p \in DOMAIN pages |-> OnPage(p)])
  IN [i \in DOMAIN flat |-> [id |-> i, tokens |-> flat[i].tokens, page |-> flat[i].page]]

-----------------------------------------------------------------------------
(* Mutants: plausible mistakes the properties must catch.                  *)

\* The carried sentences come out backwards.
OverlapBackwards(group, limit) ==
  LET fit == {k \in 1..Len(group) + 1 : TokensOf(SubSeq(group, k, Len(group))) <= limit}
  IN Reverse(SubSeq(group, CHOOSE k \in fit : \A j \in fit : k <= j, Len(group)))

-----------------------------------------------------------------------------
\* The whole sentences at the end of a group that fit into the overlap.
Overlap(group, limit) ==
  LET fit == {k \in 1..Len(group) + 1 : TokensOf(SubSeq(group, k, Len(group))) <= limit}
  IN SubSeq(group, CHOOSE k \in fit : \A j \in fit : k <= j, Len(group))

\* The loop is over; what is left is the last group.
Closed(acc) == IF acc.current = <<>> THEN acc.groups ELSE Append(acc.groups, acc.current)

BuildChunkGroups(sentences, size, overlap) ==
  LET Add(acc, x) ==
        IF acc.current # <<>> /\ TokensOf(acc.current) + x.tokens > size
        THEN [groups |-> Append(acc.groups, acc.current),
              current |-> Append(Overlap(acc.current, overlap), x)]
        ELSE [acc EXCEPT !.current = Append(@, x)]
      after[n \in 0..Len(sentences)] ==
        IF n = 0 THEN [groups |-> <<>>, current |-> <<>>]
        ELSE Add(after[n - 1], sentences[n])
  IN Closed(after[Len(sentences)])

\* Chunks and parents; a chunk names its parent by position, 0 for none.
StrategyFixed(pages) ==
  LET groups == BuildChunkGroups(SentencesWithPages(pages), FixedSize, FixedOverlap)
  IN [chunks |-> [i \in DOMAIN groups |-> [group |-> groups[i], parent |-> 0]],
      parents |-> <<>>]

StrategyHierarchical(pages) ==
  LET parents == BuildChunkGroups(SentencesWithPages(pages), ParentSize, ParentOverlap)
      ChildrenOf(i) ==
        LET groups == BuildChunkGroups(parents[i], ChildSize, ChildOverlap)
        IN [j \in DOMAIN groups |-> [group |-> groups[j], parent |-> i]]
  IN [chunks |-> FlattenSeq([i \in DOMAIN parents |-> ChildrenOf(i)]),
      parents |-> parents]

-----------------------------------------------------------------------------
\* What grouping promises, stated without the loop: runs of consecutive
\* sentences that start with the first and end with the last, each going
\* beyond the one before and leaving no gap; what two runs share is all that
\* fits into the overlap, a run is closed only by a sentence that does not fit,
\* and exceeds the size only by the one sentence that follows its overlap.
IsGrouping(groups, sentences, size, overlap) ==
  LET first(i) == groups[i][1].id - sentences[1].id + 1
      last(i) == Last(groups[i]).id - sentences[1].id + 1
      n == Len(groups)
  IN /\ groups = <<>> <=> sentences = <<>>
     /\ \A i \in 1..n :
          /\ groups[i] # <<>>
          /\ 1 <= first(i) /\ first(i) <= last(i) /\ last(i) <= Len(sentences)
          /\ groups[i] = SubSeq(sentences, first(i), last(i))
          /\ TokensOf(groups[i]) <= size \/ TokensOf(Front(groups[i])) <= overlap
     /\ n > 0 => first(1) = 1 /\ last(n) = Len(sentences)
     /\ \A i \in 2..n :
          /\ first(i - 1) <= first(i) /\ first(i) <= last(i - 1) + 1 /\ last(i - 1) < last(i)
          /\ TokensOf(SubSeq(sentences, first(i), last(i - 1))) <= overlap
          /\ \A k \in first(i - 1)..first(i) - 1 :
               TokensOf(SubSeq(sentences, k, last(i - 1))) > overlap
          /\ TokensOf(groups[i - 1]) + sentences[last(i - 1) + 1].tokens > size
=============================================================================
