------------------------- MODULE QueryPipelineProofs -------------------------
(***************************************************************************)
(* Theorems about QueryPipeline, for any requests, tenants, questions,     *)
(* number of retries and scores of the judge.                              *)
(***************************************************************************)
EXTENDS QueryPipeline, TLAPS

\* _safe_score always gives a score.
LEMMA SafeScoreBounded == \A v \in RawScores : SafeScore(v) \in 0..100
  BY ConstantsAssumption DEF SafeScore, JudgeFallback

\* Whatever _evaluate returns is a pair of scores.
LEMMA ScoresBounded ==
  ASSUME NEW s, NEW sc \in Scores(s)
  PROVE  sc[1] \in 0..100 /\ sc[2] \in 0..100
<1>1. CASE sc \in {<<SafeScore(f), SafeScore(v)>> : f, v \in RawScores}
  BY <1>1, SafeScoreBounded
<1>2. CASE sc \in {<<0, 0>>, <<100, 100>>, <<100, 0>>, <<JudgeFallback, JudgeFallback>>}
  BY <1>2 DEF JudgeFallback
<1> QED
  BY <1>1, <1>2 DEF Scores

\* The notice is on an answer or it is not.
LEMMA NoticeBoolean == ASSUME NEW s PROVE RetriesOver(s) \in BOOLEAN
  BY DEF RetriesOver

\* Moving one request keeps the types of all.
LEMMA NodeTypes ==
  ASSUME TypeOK, NEW r \in Requests, NEW l \in {"idle", "done"} \cup Nodes,
         NEW s \in RAGState, Node(r, l, s)
  PROVE  /\ pc' \in [Requests -> {"idle", "done"} \cup Nodes]
         /\ state' \in [Requests -> RAGState]
  BY DEF TypeOK, Node

\* Moving one request and leaving the cache keeps TypeOK and CounterInv.
LEMMA NodeKept ==
  ASSUME TypeOK, CounterInv, NEW r \in Requests,
         NEW l \in {"idle", "done"} \cup Nodes, NEW s \in RAGState,
         l = "increment_retry" => s.retry < MaxRetries,
         Node(r, l, s), UNCHANGED cache
  PROVE  TypeOK' /\ CounterInv'
<1>1. TypeOK'
  BY NodeTypes DEF TypeOK
<1>2. CounterInv'
  BY DEF CounterInv, Node, TypeOK
<1> QED BY <1>1, <1>2

\* The records the nodes return are RAGStates again.
LEMMA Updates ==
  ASSUME NEW s \in RAGState
  PROVE  /\ \A er \in Errors : [s EXCEPT !.error = er] \in RAGState
         /\ \A src \in Sources : [s EXCEPT !.source = src] \in RAGState
         /\ \A b \in BOOLEAN, er \in Errors :
              [s EXCEPT !.sql = b, !.error = er] \in RAGState
         /\ \A k \in {"none", "blank", "some"}, er \in Errors :
              [s EXCEPT !.chunks = k, !.round = s.retry, !.error = er] \in RAGState
         /\ \A txt \in Texts, er \in Errors :
              /\ [s EXCEPT !.error = er, !.text = txt] \in RAGState
              /\ [s EXCEPT !.text = txt, !.basis = s.round, !.error = er] \in RAGState
         /\ [s EXCEPT !.source = "rag", !.text = "crash", !.warned = FALSE,
               !.faith = 0, !.rel = 0, !.retry = 0, !.error = "crash"] \in RAGState
         /\ \A f, v \in 0..100 : [s EXCEPT !.faith = f, !.rel = v] \in RAGState
         /\ \A e \in Entry :
              [s EXCEPT !.source = e.source, !.text = e.text, !.basis = e.basis,
                 !.warned = e.warned, !.faith = e.faith, !.rel = e.rel,
                 !.cached = TRUE, !.by = e.by] \in RAGState
<1>1. \A er \in Errors : [s EXCEPT !.error = er] \in RAGState
  BY DEF RAGState
<1>2. \A src \in Sources : [s EXCEPT !.source = src] \in RAGState
  BY DEF RAGState
<1>3. ASSUME NEW b \in BOOLEAN, NEW er \in Errors
      PROVE  [s EXCEPT !.sql = b, !.error = er] \in RAGState
  BY DEF RAGState
<1>4. ASSUME NEW k \in {"none", "blank", "some"}, NEW er \in Errors
      PROVE  [s EXCEPT !.chunks = k, !.round = s.retry, !.error = er] \in RAGState
  BY DEF RAGState
<1>5. ASSUME NEW txt \in Texts, NEW er \in Errors
      PROVE  /\ [s EXCEPT !.error = er, !.text = txt] \in RAGState
             /\ [s EXCEPT !.text = txt, !.basis = s.round, !.error = er] \in RAGState
  BY DEF RAGState
<1>6. [s EXCEPT !.source = "rag", !.text = "crash", !.warned = FALSE,
         !.faith = 0, !.rel = 0, !.retry = 0, !.error = "crash"] \in RAGState
  <2>1. "rag" \in Sources /\ "crash" \in Texts /\ "crash" \in Errors
    BY DEF Errors, Sources, Texts
  <2>2. 0 \in 0..100 /\ 0 \in 0..MaxRetries
    BY ConstantsAssumption
  <2> QED BY <2>1, <2>2 DEF RAGState
<1>7. ASSUME NEW e \in Entry
      PROVE  [s EXCEPT !.source = e.source, !.text = e.text, !.basis = e.basis,
                !.warned = e.warned, !.faith = e.faith, !.rel = e.rel,
                !.cached = TRUE, !.by = e.by] \in RAGState
  BY DEF RAGState, Entry
<1>8. ASSUME NEW f \in 0..100, NEW v \in 0..100
      PROVE  [s EXCEPT !.faith = f, !.rel = v] \in RAGState
  BY DEF RAGState
<1> QED
  BY <1>1, <1>2, <1>3, <1>4, <1>5, <1>6, <1>7, <1>8

\* TypeOK and CounterInv: one step per action; only Evaluate and
\* IncrementRetry touch what bounds the counter, only Finish and Expire the
\* cache.
LEMMA TypesKept ==
  ASSUME TypeOK, CounterInv, Next
  PROVE  TypeOK' /\ CounterInv'
<1>0. ASSUME NEW r \in Requests PROVE state[r] \in RAGState
  BY DEF TypeOK
<1>1. ASSUME NEW r \in Requests, Ask(r) PROVE TypeOK' /\ CounterInv'
  <2>1. [state[r] EXCEPT !.error = "blank"] \in RAGState
    <3>1. "blank" \in Errors BY DEF Errors
    <3> QED BY <1>0, <3>1, Updates
  <2>2. state[r] \in RAGState
    BY <1>0
  <2>3. \/ Node(r, "get_cached", state[r])
        \/ Node(r, "done", [state[r] EXCEPT !.error = "blank"])
    BY <1>1 DEF Ask
  <2>4. UNCHANGED cache
    BY <1>1 DEF Ask
  <2> QED BY <2>1, <2>2, <2>3, <2>4, NodeKept DEF Nodes
<1>2. ASSUME NEW r \in Requests, CacheHit(r) PROVE TypeOK' /\ CounterInv'
  <2>1. PICK e \in cache :
          Node(r, "done",
               [state[r] EXCEPT !.source = e.source, !.text = e.text,
                  !.basis = e.basis, !.warned = e.warned, !.faith = e.faith,
                  !.rel = e.rel, !.cached = TRUE, !.by = e.by])
    BY <1>2 DEF CacheHit
  <2>2. e \in Entry
    BY DEF TypeOK
  <2>3. [state[r] EXCEPT !.source = e.source, !.text = e.text,
           !.basis = e.basis, !.warned = e.warned, !.faith = e.faith,
           !.rel = e.rel, !.cached = TRUE, !.by = e.by] \in RAGState
    BY <1>0, <2>2, Updates
  <2> QED BY <1>2, <2>1, <2>3, NodeKept DEF CacheHit
<1>3. ASSUME NEW r \in Requests, CacheMiss(r) PROVE TypeOK' /\ CounterInv'
  BY <1>0, <1>3, NodeKept DEF CacheMiss, Nodes
<1>4. ASSUME NEW r \in Requests, AnalyzeQuery(r) PROVE TypeOK' /\ CounterInv'
  <2>1. \A src \in Sources : [state[r] EXCEPT !.source = src] \in RAGState
    BY <1>0, Updates
  <2> QED BY <1>4, <2>1, NodeKept DEF AnalyzeQuery, Nodes
<1>5. ASSUME NEW r \in Requests, DbLookup(r) PROVE TypeOK' /\ CounterInv'
  <2>1. /\ [state[r] EXCEPT !.sql = TRUE, !.error = "none"] \in RAGState
        /\ [state[r] EXCEPT !.sql = FALSE, !.error = "db"] \in RAGState
    BY <1>0, Updates DEF Errors
  <2> QED BY <1>5, <2>1, NodeKept DEF DbLookup, Nodes
<1>6. ASSUME NEW r \in Requests, RetrieveFinds(r) \/ RetrieveFails(r)
      PROVE  TypeOK' /\ CounterInv'
  <2>1. /\ \A k \in {"blank", "some"} :
             [state[r] EXCEPT !.chunks = k, !.round = state[r].retry,
                              !.error = "none"] \in RAGState
        /\ [state[r] EXCEPT !.chunks = "none", !.round = state[r].retry,
                            !.error = "retrieve"] \in RAGState
    BY <1>0, Updates DEF Errors
  <2> QED BY <1>6, <2>1, NodeKept DEF RetrieveFinds, RetrieveFails, Nodes
<1>7. ASSUME NEW r \in Requests, RetrieveCrashes(r) PROVE TypeOK' /\ CounterInv'
  <2>1. [state[r] EXCEPT !.source = "rag", !.text = "crash", !.warned = FALSE,
           !.faith = 0, !.rel = 0, !.retry = 0, !.error = "crash"] \in RAGState
    BY <1>0, Updates DEF Errors, Sources, Texts
  <2> QED BY <1>7, <2>1, NodeKept DEF RetrieveCrashes
<1>8. ASSUME NEW r \in Requests, SynthesizeDirect(r) PROVE TypeOK' /\ CounterInv'
  <2>1. \A txt \in {"live", "idkSql", "idk"} :
          [state[r] EXCEPT !.error = "none", !.text = txt] \in RAGState
    BY <1>0, Updates DEF Errors, Texts
  <2>2. PICK txt \in {"live", "idkSql", "idk"} :
          Node(r, "evaluate", [state[r] EXCEPT !.error = "none", !.text = txt])
    BY <1>8 DEF SynthesizeDirect
  <2> QED BY <1>8, <2>1, <2>2, NodeKept DEF SynthesizeDirect, Nodes
<1>9. ASSUME NEW r \in Requests, SynthesizeWrites(r) PROVE TypeOK' /\ CounterInv'
  <2>1. \A txt \in {"written", "idk", "empty"} :
          [state[r] EXCEPT !.text = txt, !.basis = state[r].round,
                           !.error = "none"] \in RAGState
    BY <1>0, Updates DEF Errors, Texts
  <2> QED BY <1>9, <2>1, NodeKept DEF SynthesizeWrites, Nodes
<1>10. ASSUME NEW r \in Requests, SynthesizeFails(r) PROVE TypeOK' /\ CounterInv'
  <2>1. \A txt \in {"empty", "live", "nolive"} :
          [state[r] EXCEPT !.error = "synthesize", !.text = txt] \in RAGState
    BY <1>0, Updates DEF Errors, Texts
  <2>2. PICK txt \in {"empty", "live", "nolive"} :
          Node(r, "evaluate", [state[r] EXCEPT !.error = "synthesize", !.text = txt])
    BY <1>10 DEF SynthesizeFails
  <2> QED BY <1>10, <2>1, <2>2, NodeKept DEF SynthesizeFails, Nodes
<1>11. ASSUME NEW r \in Requests, Evaluate(r) PROVE TypeOK' /\ CounterInv'
  <2>1. PICK sc \in Scores(state[r]) :
          LET s == [state[r] EXCEPT !.faith = sc[1], !.rel = sc[2]]
          IN Node(r, IF Passes(s) \/ s.retry >= MaxRetries
                     THEN "finish" ELSE "increment_retry",
                  [s EXCEPT !.warned = RetriesOver(s)])
    BY <1>11 DEF Evaluate
  <2> DEFINE s == [state[r] EXCEPT !.faith = sc[1], !.rel = sc[2]]
             t == [s EXCEPT !.warned = RetriesOver(s)]
  <2>2. s \in RAGState
    <3>1. sc[1] \in 0..100 /\ sc[2] \in 0..100 BY ScoresBounded
    <3> QED BY <1>0, <3>1, Updates
  <2>3. RetriesOver(s) \in BOOLEAN
    BY NoticeBoolean
  <2>4. t \in RAGState /\ t.retry = s.retry /\ s.retry \in Nat
    <3> HIDE DEF s
    <3> QED BY <2>2, <2>3, ConstantsAssumption DEF RAGState
  <2>5. \/ Node(r, "finish", t)
        \/ Node(r, "increment_retry", t) /\ ~(s.retry >= MaxRetries)
    BY <2>1
  <2>6. ~(s.retry >= MaxRetries) => t.retry < MaxRetries
    <3> HIDE DEF s, t
    <3> QED BY <2>4, ConstantsAssumption
  <2>7. UNCHANGED cache
    BY <1>11 DEF Evaluate
  <2> HIDE DEF s, t
  <2> QED BY <2>4, <2>5, <2>6, <2>7, NodeKept DEF Nodes
<1>12. ASSUME NEW r \in Requests, IncrementRetry(r) PROVE TypeOK' /\ CounterInv'
  <2>1. state[r].retry < MaxRetries
    BY <1>12 DEF IncrementRetry, CounterInv
  <2>2. [state[r] EXCEPT !.retry = @ + 1] \in RAGState
    BY <1>0, <2>1, ConstantsAssumption DEF RAGState
  <2> QED BY <1>12, <2>2, NodeKept DEF IncrementRetry, Nodes
<1>13. ASSUME NEW r \in Requests, Finish(r) PROVE TypeOK' /\ CounterInv'
  <2>1. Node(r, "done", state[r]) /\ state[r] \in RAGState
    BY <1>0, <1>13 DEF Finish
  <2>2. EntryOf(state[r]) \in Entry
    BY <2>1 DEF EntryOf, Entry, RAGState
  <2>3. cache' \subseteq Entry
    BY <1>13, <2>2 DEF Finish, TypeOK
  <2>4. TypeOK'
    BY <2>1, <2>3, NodeTypes DEF TypeOK
  <2>5. CounterInv'
    BY <2>1 DEF CounterInv, Node, TypeOK
  <2> QED BY <2>4, <2>5
<1>14. ASSUME Expire PROVE TypeOK' /\ CounterInv'
  BY <1>14 DEF Expire, CounterInv, TypeOK
<1> QED
  BY <1>1, <1>2, <1>3, <1>4, <1>5, <1>6, <1>7, <1>8, <1>9, <1>10, <1>11,
     <1>12, <1>13, <1>14 DEF Next, Step

\* What the type invariant says of every reachable state, and that a retry is
\* never asked for beyond MaxRetries: the graph cannot loop.
THEOREM TypeCorrect == Spec => [](TypeOK /\ CounterInv)
<1>1. Init => TypeOK /\ CounterInv
  <2> SUFFICES ASSUME Init PROVE TypeOK /\ CounterInv
    OBVIOUS
  <2>1. PICK s \in [Requests -> Tenants \X Questions] :
          state = [r \in Requests |-> InitialState(r, s[r][1], s[r][2])]
    BY DEF Init
  <2>2. ASSUME NEW r \in Requests PROVE state[r] \in RAGState
    <3>1. state[r] = InitialState(r, s[r][1], s[r][2])
      BY <2>1
    <3>2. s[r][1] \in Tenants /\ s[r][2] \in Questions
      OBVIOUS
    <3>3. "rag" \in Sources /\ "empty" \in Texts /\ "none" \in Errors
      BY DEF Errors, Sources, Texts
    <3>4. 0 \in 0..100 /\ 0 \in 0..MaxRetries
      BY ConstantsAssumption
    <3> QED BY <3>1, <3>2, <3>3, <3>4 DEF InitialState, RAGState
  <2> QED BY <2>1, <2>2 DEF Init, TypeOK, CounterInv
<1>2. TypeOK /\ CounterInv /\ [Next]_vars => (TypeOK /\ CounterInv)'
  <2>1. CASE UNCHANGED vars
    BY <2>1 DEF vars, TypeOK, CounterInv
  <2> QED BY <2>1, TypesKept
<1> QED
  BY <1>1, <1>2, PTL DEF Spec

-----------------------------------------------------------------------------
(* NoticeInv: what is finished, answered or cached passed or says so.      *)

\* What a move of one request to node l with state s must satisfy.
LEMMA NoticeNode ==
  ASSUME TypeOK, NoticeInv, NEW r \in Requests, NEW l, NEW s,
         Node(r, l, s), UNCHANGED cache, l # "idle",
         l = "finish" => Honest(s) /\ Deserved(s),
         l = "done" => (s.error = "blank" \/ Honest(s)) /\ Deserved(s)
  PROVE  NoticeInv'
<1>1. \A q \in Requests :
        IF q = r THEN pc'[q] = l /\ state'[q] = s
                 ELSE pc'[q] = pc[q] /\ state'[q] = state[q]
  BY DEF Node, TypeOK
<1>2. ASSUME NEW q \in Requests
      PROVE  /\ pc'[q] = "idle" => ~state'[q].warned
             /\ pc'[q] = "finish" => Honest(state'[q]) /\ Deserved(state'[q])
             /\ pc'[q] = "done" =>
                  /\ state'[q].error = "blank" \/ Honest(state'[q])
                  /\ Deserved(state'[q])
  <2>1. CASE q = r BY <1>1, <2>1
  <2>2. CASE q # r BY <1>1, <2>2 DEF NoticeInv
  <2> QED BY <2>1, <2>2
<1>3. \A e \in cache' : Honest(e) /\ Deserved(e)
  BY DEF NoticeInv
<1> QED BY <1>2, <1>3 DEF NoticeInv, Honest, Deserved, Passes

\* The evaluator ends the graph with a pass or with the notice, never both.
LEMMA EvaluateIsHonest ==
  ASSUME NEW s \in RAGState, Passes(s) \/ s.retry >= MaxRetries
  PROVE  /\ Honest([s EXCEPT !.warned = RetriesOver(s)])
         /\ Deserved([s EXCEPT !.warned = RetriesOver(s)])
  BY DEF RAGState, Honest, Deserved, Passes, RetriesOver, IsCannotAnswer

LEMMA NoticeKept ==
  ASSUME TypeOK, NoticeInv, Next
  PROVE  NoticeInv'
<1>0. ASSUME NEW r \in Requests PROVE state[r] \in RAGState
  BY DEF TypeOK
<1>1. ASSUME NEW r \in Requests, Ask(r) PROVE NoticeInv'
  <2>1. PICK x \in RAGState : x = state[r]
    BY <1>0
  <2>2. [x EXCEPT !.error = "blank"].error = "blank"
        /\ Deserved([x EXCEPT !.error = "blank"])
    BY <1>1, <2>1 DEF Ask, NoticeInv, Deserved, RAGState
  <2> QED BY <1>1, <2>1, <2>2, NoticeNode DEF Ask
<1>2. ASSUME NEW r \in Requests, CacheHit(r) PROVE NoticeInv'
  <2>1. PICK x \in RAGState : x = state[r]
    BY <1>0
  <2>2. PICK e \in cache :
          Node(r, "done",
               [x EXCEPT !.source = e.source, !.text = e.text,
                  !.basis = e.basis, !.warned = e.warned, !.faith = e.faith,
                  !.rel = e.rel, !.cached = TRUE, !.by = e.by])
    BY <1>2, <2>1 DEF CacheHit
  <2> DEFINE t == [x EXCEPT !.source = e.source, !.text = e.text,
                     !.basis = e.basis, !.warned = e.warned, !.faith = e.faith,
                     !.rel = e.rel, !.cached = TRUE, !.by = e.by]
  <2>3. t.text = e.text /\ t.warned = e.warned /\ t.faith = e.faith /\ t.rel = e.rel
    BY DEF RAGState
  <2>4. Honest(e) /\ Deserved(e)
    BY DEF NoticeInv
  <2>5. Node(r, "done", t)
    BY <2>2
  <2> HIDE DEF t
  <2>6. Honest(t) /\ Deserved(t)
    BY <2>3, <2>4 DEF Honest, Deserved, Passes
  <2> QED BY <1>2, <2>5, <2>6, NoticeNode DEF CacheHit
<1>3. ASSUME NEW r \in Requests, CacheMiss(r) PROVE NoticeInv'
  BY <1>3, NoticeNode DEF CacheMiss
<1>4. ASSUME NEW r \in Requests, AnalyzeQuery(r) PROVE NoticeInv'
  BY <1>4, NoticeNode DEF AnalyzeQuery
<1>5. ASSUME NEW r \in Requests, DbLookup(r) PROVE NoticeInv'
  BY <1>5, NoticeNode DEF DbLookup
<1>6. ASSUME NEW r \in Requests, RetrieveFinds(r) PROVE NoticeInv'
  BY <1>6, NoticeNode DEF RetrieveFinds
<1>7. ASSUME NEW r \in Requests, RetrieveFails(r) PROVE NoticeInv'
  BY <1>7, NoticeNode DEF RetrieveFails
<1>8. ASSUME NEW r \in Requests, RetrieveCrashes(r) PROVE NoticeInv'
  <2>1. PICK x \in RAGState : x = state[r]
    BY <1>0
  <2> DEFINE t == [x EXCEPT !.source = "rag", !.text = "crash", !.warned = FALSE,
                     !.faith = 0, !.rel = 0, !.retry = 0, !.error = "crash"]
  <2>2. t.text = "crash" /\ t.warned = FALSE
    BY DEF RAGState
  <2>3. Node(r, "done", t) /\ UNCHANGED cache
    BY <1>8, <2>1 DEF RetrieveCrashes
  <2> HIDE DEF t
  <2>4. Honest(t) /\ Deserved(t)
    BY <2>2 DEF Honest, Deserved
  <2> QED BY <2>3, <2>4, NoticeNode
<1>9. ASSUME NEW r \in Requests, SynthesizeDirect(r) PROVE NoticeInv'
  BY <1>9, NoticeNode DEF SynthesizeDirect
<1>10. ASSUME NEW r \in Requests, SynthesizeWrites(r) PROVE NoticeInv'
  BY <1>10, NoticeNode DEF SynthesizeWrites
<1>11. ASSUME NEW r \in Requests, SynthesizeFails(r) PROVE NoticeInv'
  BY <1>11, NoticeNode DEF SynthesizeFails
<1>12. ASSUME NEW r \in Requests, Evaluate(r) PROVE NoticeInv'
  <2>1. PICK s \in RAGState :
          /\ Node(r, IF Passes(s) \/ s.retry >= MaxRetries
                     THEN "finish" ELSE "increment_retry",
                  [s EXCEPT !.warned = RetriesOver(s)])
          /\ UNCHANGED cache
    <3>1. PICK sc \in Scores(state[r]) :
            LET s == [state[r] EXCEPT !.faith = sc[1], !.rel = sc[2]]
            IN Node(r, IF Passes(s) \/ s.retry >= MaxRetries
                       THEN "finish" ELSE "increment_retry",
                    [s EXCEPT !.warned = RetriesOver(s)])
      BY <1>12 DEF Evaluate
    <3>2. sc[1] \in 0..100 /\ sc[2] \in 0..100
      BY ScoresBounded
    <3>3. [state[r] EXCEPT !.faith = sc[1], !.rel = sc[2]] \in RAGState
      BY <1>0, <3>2, Updates
    <3> QED BY <1>12, <3>1, <3>3 DEF Evaluate
  <2>2. CASE Passes(s) \/ s.retry >= MaxRetries
    BY <2>1, <2>2, EvaluateIsHonest, NoticeNode
  <2>3. CASE ~(Passes(s) \/ s.retry >= MaxRetries)
    BY <2>1, <2>3, NoticeNode
  <2> QED BY <2>2, <2>3
<1>13. ASSUME NEW r \in Requests, IncrementRetry(r) PROVE NoticeInv'
  BY <1>13, NoticeNode DEF IncrementRetry
<1>14. ASSUME NEW r \in Requests, Finish(r) PROVE NoticeInv'
  <2>1. Honest(state[r]) /\ Deserved(state[r])
    BY <1>14 DEF Finish, NoticeInv
  <2>2. Honest(EntryOf(state[r])) /\ Deserved(EntryOf(state[r]))
    BY <2>1 DEF EntryOf, Honest, Deserved, Passes
  <2>3. \A q \in Requests :
          state'[q] = state[q] /\ (pc'[q] = pc[q] \/ (q = r /\ pc'[q] = "done"))
    BY <1>14 DEF Finish, Node, TypeOK
  <2>4. \A e \in cache' : Honest(e) /\ Deserved(e)
    BY <1>14, <2>2 DEF Finish, NoticeInv
  <2>5. ASSUME NEW q \in Requests
        PROVE  /\ pc'[q] = "idle" => ~state'[q].warned
               /\ pc'[q] = "finish" => Honest(state'[q]) /\ Deserved(state'[q])
               /\ pc'[q] = "done" =>
                    /\ state'[q].error = "blank" \/ Honest(state'[q])
                    /\ Deserved(state'[q])
    BY <2>1, <2>3 DEF NoticeInv
  <2> QED BY <2>4, <2>5 DEF NoticeInv, Honest, Deserved, Passes
<1>15. ASSUME Expire PROVE NoticeInv'
  BY <1>15 DEF Expire, NoticeInv, Honest, Deserved, Passes
<1> QED
  BY <1>1, <1>2, <1>3, <1>4, <1>5, <1>6, <1>7, <1>8, <1>9, <1>10, <1>11,
     <1>12, <1>13, <1>14, <1>15 DEF Next, Step

LEMMA AlwaysNotice == Spec => []NoticeInv
<1>1. Init => NoticeInv
  BY DEF Init, InitialState, NoticeInv
<1>2. TypeOK /\ NoticeInv /\ [Next]_vars => NoticeInv'
  <2>1. CASE UNCHANGED vars
    BY <2>1 DEF vars, NoticeInv, Honest, Deserved, Passes
  <2> QED BY <2>1, NoticeKept
<1> QED
  BY <1>1, <1>2, TypeCorrect, PTL DEF Spec

\* Every request is answered with what passed the thresholds or with the notice.
THEOREM NoticeCorrect == Spec => []NoSilentDoubt
<1>1. NoticeInv => NoSilentDoubt
  BY DEF NoticeInv, NoSilentDoubt, Honest
<1> QED
  BY <1>1, AlwaysNotice, PTL

\* The notice never comes with an answer that passed, from the graph or the cache.
THEOREM NoticeDeserved == Spec => []NoticeIsDeserved
<1>1. NoticeInv => NoticeIsDeserved
  BY DEF NoticeInv, NoticeIsDeserved, Deserved
<1> QED
  BY <1>1, AlwaysNotice, PTL

-----------------------------------------------------------------------------
(* RoundInv: an answer and the chunks it is judged with are of one attempt. *)

\* What a move of one request to node l with state s must satisfy.
LEMMA RoundNode ==
  ASSUME TypeOK, RoundInv, NEW r \in Requests, NEW l, NEW s,
         Node(r, l, s), l # "idle",
         l = "db_lookup" => s.source # "rag",
         l = "synthesize" /\ s.source # "sql" => s.round = s.retry,
         l # "done" => ~s.cached,
         s.text = "written" /\ ~s.cached /\ l \in {"evaluate", "finish", "done"}
           => s.basis = s.retry /\ s.round = s.retry /\ s.chunks = "some"
  PROVE  RoundInv'
<1>1. \A q \in Requests :
        IF q = r THEN pc'[q] = l /\ state'[q] = s
                 ELSE pc'[q] = pc[q] /\ state'[q] = state[q]
  BY DEF Node, TypeOK
<1> QED
  BY <1>1 DEF RoundInv, AnswerFromLastAttempt

LEMMA RoundKept ==
  ASSUME TypeOK, RoundInv, Next
  PROVE  RoundInv'
<1>0. ASSUME NEW r \in Requests
      PROVE  \E x \in RAGState : x = state[r]
  BY DEF TypeOK
<1>1. ASSUME NEW r \in Requests, Ask(r) PROVE RoundInv'
  <2>1. PICK x \in RAGState : x = state[r]
    BY <1>0
  <2>2. x.text = "empty" /\ ~x.cached
    BY <1>1, <2>1 DEF Ask, RoundInv
  <2>3. [x EXCEPT !.error = "blank"].text = "empty"
    BY <2>2 DEF RAGState
  <2> QED BY <1>1, <2>1, <2>2, <2>3, RoundNode DEF Ask
<1>2. ASSUME NEW r \in Requests, CacheHit(r) PROVE RoundInv'
  <2>1. PICK x \in RAGState : x = state[r]
    BY <1>0
  <2>2. PICK e \in cache :
          Node(r, "done",
               [x EXCEPT !.source = e.source, !.text = e.text,
                  !.basis = e.basis, !.warned = e.warned, !.faith = e.faith,
                  !.rel = e.rel, !.cached = TRUE, !.by = e.by])
    BY <1>2, <2>1 DEF CacheHit
  <2> DEFINE t == [x EXCEPT !.source = e.source, !.text = e.text,
                     !.basis = e.basis, !.warned = e.warned, !.faith = e.faith,
                     !.rel = e.rel, !.cached = TRUE, !.by = e.by]
  <2>3. t.cached
    BY DEF RAGState
  <2>4. Node(r, "done", t)
    BY <2>2
  <2> HIDE DEF t
  <2> QED BY <2>3, <2>4, RoundNode
<1>3. ASSUME NEW r \in Requests, CacheMiss(r) PROVE RoundInv'
  BY <1>3, RoundNode DEF CacheMiss, RoundInv
<1>4. ASSUME NEW r \in Requests, AnalyzeQuery(r) PROVE RoundInv'
  <2>1. PICK x \in RAGState : x = state[r]
    BY <1>0
  <2>2. ~x.cached
    BY <1>4, <2>1 DEF AnalyzeQuery, RoundInv
  <2>3. \A src \in Sources :
          LET t == [x EXCEPT !.source = src] IN ~t.cached /\ t.source = src
    BY <2>2 DEF RAGState
  <2> QED BY <1>4, <2>1, <2>3, RoundNode DEF AnalyzeQuery
<1>5. ASSUME NEW r \in Requests, DbLookup(r) PROVE RoundInv'
  <2>1. PICK x \in RAGState : x = state[r]
    BY <1>0
  <2>2. ~x.cached /\ x.source \in {"sql", "hybrid"}
    BY <1>5, <2>1 DEF DbLookup, RoundInv, RAGState, Sources
  <2>3. \A b \in BOOLEAN, er \in Errors :
          LET t == [x EXCEPT !.sql = b, !.error = er]
          IN ~t.cached /\ t.source = x.source
    BY <2>2 DEF RAGState
  <2>4. "none" \in Errors /\ "db" \in Errors
    BY DEF Errors
  <2>5. \E b \in BOOLEAN, er \in Errors :
          Node(r, IF x.source = "hybrid" THEN "retrieve" ELSE "synthesize",
               [x EXCEPT !.sql = b, !.error = er])
    BY <1>5, <2>1, <2>4 DEF DbLookup
  <2> QED BY <2>2, <2>3, <2>5, RoundNode
<1>6. ASSUME NEW r \in Requests, RetrieveFinds(r) PROVE RoundInv'
  <2>1. PICK x \in RAGState : x = state[r]
    BY <1>0
  <2>2. ~x.cached
    BY <1>6, <2>1 DEF RetrieveFinds, RoundInv
  <2>3. \A k \in {"blank", "some"} :
          LET t == [x EXCEPT !.chunks = k, !.round = x.retry, !.error = "none"]
          IN ~t.cached /\ t.round = t.retry
    BY <2>2 DEF RAGState
  <2> QED BY <1>6, <2>1, <2>3, RoundNode DEF RetrieveFinds
<1>7. ASSUME NEW r \in Requests, RetrieveFails(r) PROVE RoundInv'
  <2>1. PICK x \in RAGState : x = state[r]
    BY <1>0
  <2>2. ~x.cached
    BY <1>7, <2>1 DEF RetrieveFails, RoundInv
  <2> DEFINE t == [x EXCEPT !.chunks = "none", !.round = x.retry, !.error = "retrieve"]
  <2>3. ~t.cached /\ t.round = t.retry
    BY <2>2 DEF RAGState
  <2>4. Node(r, "synthesize", t)
    BY <1>7, <2>1 DEF RetrieveFails
  <2> HIDE DEF t
  <2> QED BY <2>3, <2>4, RoundNode
<1>8. ASSUME NEW r \in Requests, RetrieveCrashes(r) PROVE RoundInv'
  <2>1. PICK x \in RAGState : x = state[r]
    BY <1>0
  <2> DEFINE t == [x EXCEPT !.source = "rag", !.text = "crash", !.warned = FALSE,
                     !.faith = 0, !.rel = 0, !.retry = 0, !.error = "crash"]
  <2>2. t.text = "crash"
    BY DEF RAGState
  <2>3. Node(r, "done", t)
    BY <1>8, <2>1 DEF RetrieveCrashes
  <2> HIDE DEF t
  <2> QED BY <2>2, <2>3, RoundNode
<1>9. ASSUME NEW r \in Requests, SynthesizeDirect(r) PROVE RoundInv'
  <2>1. PICK x \in RAGState : x = state[r]
    BY <1>0
  <2>2. ~x.cached
    BY <1>9, <2>1 DEF SynthesizeDirect, RoundInv
  <2>3. \A txt \in {"live", "idkSql", "idk"} :
          LET t == [x EXCEPT !.error = "none", !.text = txt]
          IN ~t.cached /\ t.text # "written"
    BY <2>2 DEF RAGState
  <2>4. PICK txt \in {"live", "idkSql", "idk"} :
          Node(r, "evaluate", [x EXCEPT !.error = "none", !.text = txt])
    BY <1>9, <2>1 DEF SynthesizeDirect
  <2> QED BY <2>3, <2>4, RoundNode
<1>10. ASSUME NEW r \in Requests, SynthesizeWrites(r) PROVE RoundInv'
  <2>1. PICK x \in RAGState : x = state[r]
    BY <1>0
  <2>2. ~x.cached /\ x.round = x.retry /\ x.chunks = "some"
    BY <1>10, <2>1 DEF SynthesizeWrites, RoundInv
  <2>3. \A txt \in {"written", "idk", "empty"} :
          LET t == [x EXCEPT !.text = txt, !.basis = x.round, !.error = "none"]
          IN /\ ~t.cached
             /\ t.basis = t.retry /\ t.round = t.retry /\ t.chunks = "some"
    BY <2>2 DEF RAGState
  <2> QED BY <1>10, <2>1, <2>3, RoundNode DEF SynthesizeWrites
<1>11. ASSUME NEW r \in Requests, SynthesizeFails(r) PROVE RoundInv'
  <2>1. PICK x \in RAGState : x = state[r]
    BY <1>0
  <2>2. ~x.cached
    BY <1>11, <2>1 DEF SynthesizeFails, RoundInv
  <2>3. \A txt \in {"empty", "live", "nolive"} :
          LET t == [x EXCEPT !.error = "synthesize", !.text = txt]
          IN ~t.cached /\ t.text # "written"
    BY <2>2 DEF RAGState
  <2>4. PICK txt \in {"empty", "live", "nolive"} :
          Node(r, "evaluate", [x EXCEPT !.error = "synthesize", !.text = txt])
    BY <1>11, <2>1 DEF SynthesizeFails
  <2> QED BY <2>3, <2>4, RoundNode
<1>12. ASSUME NEW r \in Requests, Evaluate(r) PROVE RoundInv'
  <2>1. PICK x \in RAGState : x = state[r]
    BY <1>0
  <2>2. /\ ~x.cached
        /\ x.text = "written"
             => x.basis = x.retry /\ x.round = x.retry /\ x.chunks = "some"
    BY <1>12, <2>1 DEF Evaluate, RoundInv, AnswerFromLastAttempt
  <2>3. PICK sc \in Scores(x), w \in BOOLEAN, l \in {"finish", "increment_retry"} :
          Node(r, l, [[x EXCEPT !.faith = sc[1], !.rel = sc[2]] EXCEPT !.warned = w])
    <3>1. PICK sc \in Scores(state[r]) :
            LET s == [state[r] EXCEPT !.faith = sc[1], !.rel = sc[2]]
            IN Node(r, IF Passes(s) \/ s.retry >= MaxRetries
                       THEN "finish" ELSE "increment_retry",
                    [s EXCEPT !.warned = RetriesOver(s)])
      BY <1>12 DEF Evaluate
    <3>2. RetriesOver([x EXCEPT !.faith = sc[1], !.rel = sc[2]]) \in BOOLEAN
      BY NoticeBoolean
    <3> QED BY <2>1, <3>1, <3>2
  <2> DEFINE t == [[x EXCEPT !.faith = sc[1], !.rel = sc[2]] EXCEPT !.warned = w]
  <2>4. Node(r, l, t)
    BY <2>3
  <2>5. /\ ~t.cached
        /\ t.text = "written"
             => t.basis = t.retry /\ t.round = t.retry /\ t.chunks = "some"
    BY <2>2 DEF RAGState
  <2> HIDE DEF t
  <2> QED BY <2>4, <2>5, RoundNode
<1>13. ASSUME NEW r \in Requests, IncrementRetry(r) PROVE RoundInv'
  <2>1. PICK x \in RAGState : x = state[r]
    BY <1>0
  <2>2. ~x.cached
    BY <1>13, <2>1 DEF IncrementRetry, RoundInv
  <2> DEFINE t == [x EXCEPT !.retry = @ + 1]
  <2>3. ~t.cached
    BY <2>2 DEF RAGState
  <2>4. Node(r, "retrieve", t)
    BY <1>13, <2>1 DEF IncrementRetry
  <2> HIDE DEF t
  <2> QED BY <2>3, <2>4, RoundNode
<1>14. ASSUME NEW r \in Requests, Finish(r) PROVE RoundInv'
  <2>1. state[r].text = "written" /\ ~state[r].cached
          => state[r].basis = state[r].retry /\ state[r].round = state[r].retry
             /\ state[r].chunks = "some"
    BY <1>14 DEF Finish, RoundInv, AnswerFromLastAttempt
  <2> QED BY <1>14, <2>1, RoundNode DEF Finish
<1>15. ASSUME Expire PROVE RoundInv'
  BY <1>15 DEF Expire, RoundInv, AnswerFromLastAttempt
<1> QED
  BY <1>1, <1>2, <1>3, <1>4, <1>5, <1>6, <1>7, <1>8, <1>9, <1>10, <1>11,
     <1>12, <1>13, <1>14, <1>15 DEF Next, Step

\* An answer the LLM wrote is judged and delivered with the chunks of the
\* attempt it was written from.
THEOREM LastAttemptCorrect == Spec => []AnswerFromLastAttempt
<1>1. Init => RoundInv
  BY DEF Init, InitialState, RoundInv, AnswerFromLastAttempt
<1>2. TypeOK /\ RoundInv /\ [Next]_vars => RoundInv'
  <2>1. CASE UNCHANGED vars
    BY <2>1 DEF vars, RoundInv, AnswerFromLastAttempt
  <2> QED BY <2>1, RoundKept
<1>3. RoundInv => AnswerFromLastAttempt
  BY DEF RoundInv
<1> QED
  BY <1>1, <1>2, <1>3, TypeCorrect, PTL DEF Spec

-----------------------------------------------------------------------------
(* CacheInv: what the cache holds, for whom, and what is served from it.   *)

\* No step changes whose question a request asks.
OwnersKept ==
  \A q \in Requests :
    state'[q].tenant = state[q].tenant /\ state'[q].question = state[q].question

\* What a move of one request to node l with state s must satisfy.
LEMMA CacheNode ==
  ASSUME TypeOK, CacheInv, NEW r \in Requests, NEW l, NEW s \in RAGState,
         Node(r, l, s), UNCHANGED cache, l # "idle",
         s.tenant = state[r].tenant, s.question = state[r].question,
         l # "done" => s.by = r /\ ~s.cached,
         l \in {"evaluate", "finish"} /\ s.source = "rag"
           => s.text \in {"empty", "idk", "written"},
         l = "finish" /\ s.source = "rag"
           => (s.text = "empty" => s.faith = 0) /\ (s.text = "idk" => s.rel = 0),
         s.cached =>
           /\ s.source = "rag" /\ s.text = "written"
           /\ state[s.by].tenant = s.tenant /\ state[s.by].question = s.question
  PROVE  CacheInv'
<1>1. \A q \in Requests :
        IF q = r THEN pc'[q] = l /\ state'[q] = s
                 ELSE pc'[q] = pc[q] /\ state'[q] = state[q]
  BY DEF Node, TypeOK
<1>2. OwnersKept
  BY <1>1 DEF OwnersKept
<1>3. /\ \A q \in Requests : state[q].by \in Requests
      /\ s.by \in Requests
      /\ \A e \in cache : e.by \in Requests
  BY DEF TypeOK, RAGState, Entry
<1>4. ASSUME NEW q \in Requests
      PROVE  /\ pc'[q] # "done" => state'[q].by = q /\ ~state'[q].cached
             /\ pc'[q] = "idle" => state'[q].source = "rag" /\ state'[q].text = "empty"
             /\ pc'[q] \in {"evaluate", "finish"} /\ state'[q].source = "rag"
                  => state'[q].text \in {"empty", "idk", "written"}
             /\ pc'[q] = "finish" /\ state'[q].source = "rag"
                  => /\ state'[q].text = "empty" => state'[q].faith = 0
                     /\ state'[q].text = "idk" => state'[q].rel = 0
  BY <1>1 DEF CacheInv
<1>5. \A e \in cache' :
        /\ e.source = "rag" /\ e.text = "written"
        /\ state'[e.by].tenant = e.tenant /\ state'[e.by].question = e.question
  BY <1>2, <1>3 DEF CacheInv, OwnersKept
<1>6. LiveDataIsFresh'
  BY <1>1 DEF CacheInv, LiveDataIsFresh
<1>7. CacheStaysInTenant'
  BY <1>1, <1>2, <1>3 DEF CacheInv, CacheStaysInTenant, OwnersKept
<1> QED
  BY <1>4, <1>5, <1>6, <1>7 DEF CacheInv

\* A document answer without content never has the scores the cache asks for.
LEMMA EmptyScores ==
  ASSUME NEW s, s.source = "rag", NEW sc \in Scores(s)
  PROVE  /\ s.text = "empty" => sc[1] = 0
         /\ s.text = "idk" => sc[2] = 0
  BY DEF Scores, IsCannotAnswer

LEMMA CacheKept ==
  ASSUME TypeOK, CounterInv, CacheInv, Next
  PROVE  CacheInv'
<1>0. ASSUME NEW r \in Requests
      PROVE  \E x \in RAGState : x = state[r]
  BY DEF TypeOK
<1>1. ASSUME NEW r \in Requests, Ask(r) PROVE CacheInv'
  <2>1. PICK x \in RAGState : x = state[r]
    BY <1>0
  <2>2. x.by = r /\ ~x.cached
    BY <1>1, <2>1 DEF Ask, CacheInv
  <2> DEFINE t == [x EXCEPT !.error = "blank"]
  <2>3. t \in RAGState
    <3>1. "blank" \in Errors BY DEF Errors
    <3> QED BY <3>1, Updates
  <2>4. t.tenant = x.tenant /\ t.question = x.question /\ ~t.cached
    BY <2>2 DEF RAGState
  <2>5. UNCHANGED cache /\ (Node(r, "get_cached", x) \/ Node(r, "done", t))
    BY <1>1, <2>1 DEF Ask
  <2> HIDE DEF t
  <2> QED BY <2>1, <2>2, <2>3, <2>4, <2>5, CacheNode
<1>2. ASSUME NEW r \in Requests, CacheHit(r) PROVE CacheInv'
  <2>1. PICK x \in RAGState : x = state[r]
    BY <1>0
  <2>2. PICK e \in cache :
          /\ Matches(e, x)
          /\ Node(r, "done",
                  [x EXCEPT !.source = e.source, !.text = e.text,
                     !.basis = e.basis, !.warned = e.warned, !.faith = e.faith,
                     !.rel = e.rel, !.cached = TRUE, !.by = e.by])
    BY <1>2, <2>1 DEF CacheHit
  <2> DEFINE t == [x EXCEPT !.source = e.source, !.text = e.text,
                     !.basis = e.basis, !.warned = e.warned, !.faith = e.faith,
                     !.rel = e.rel, !.cached = TRUE, !.by = e.by]
  <2>3. t \in RAGState
    BY Updates DEF TypeOK
  <2>4. /\ t.tenant = x.tenant /\ t.question = x.question
        /\ t.source = e.source /\ t.text = e.text /\ t.by = e.by
    BY DEF RAGState
  <2>5. /\ e.source = "rag" /\ e.text = "written"
        /\ state[e.by].tenant = e.tenant /\ state[e.by].question = e.question
    BY DEF CacheInv
  <2>6. Node(r, "done", t) /\ UNCHANGED cache
    BY <1>2, <2>2 DEF CacheHit
  <2>7. e.tenant = x.tenant /\ e.question = x.question
    BY <2>2 DEF Matches
  <2> HIDE DEF t
  <2> QED BY <2>1, <2>3, <2>4, <2>5, <2>6, <2>7, CacheNode
<1>3. ASSUME NEW r \in Requests, CacheMiss(r) PROVE CacheInv'
  <2>1. PICK x \in RAGState : x = state[r]
    BY <1>0
  <2>2. x.by = r /\ ~x.cached
    BY <1>3, <2>1 DEF CacheMiss, CacheInv
  <2> QED BY <1>3, <2>1, <2>2, CacheNode DEF CacheMiss
<1>4. ASSUME NEW r \in Requests, AnalyzeQuery(r) PROVE CacheInv'
  <2>1. PICK x \in RAGState : x = state[r]
    BY <1>0
  <2>2. x.by = r /\ ~x.cached
    BY <1>4, <2>1 DEF AnalyzeQuery, CacheInv
  <2>3. \A src \in Sources :
          LET t == [x EXCEPT !.source = src]
          IN /\ t \in RAGState /\ t.by = r /\ ~t.cached
             /\ t.tenant = x.tenant /\ t.question = x.question
    BY <2>2 DEF RAGState
  <2> QED BY <1>4, <2>1, <2>3, CacheNode DEF AnalyzeQuery
<1>5. ASSUME NEW r \in Requests, DbLookup(r) PROVE CacheInv'
  <2>1. PICK x \in RAGState : x = state[r]
    BY <1>0
  <2>2. x.by = r /\ ~x.cached
    BY <1>5, <2>1 DEF DbLookup, CacheInv
  <2>3. \A b \in BOOLEAN, er \in Errors :
          LET t == [x EXCEPT !.sql = b, !.error = er]
          IN /\ t \in RAGState /\ t.by = r /\ ~t.cached
             /\ t.tenant = x.tenant /\ t.question = x.question
    BY <2>2 DEF RAGState
  <2>4. "none" \in Errors /\ "db" \in Errors
    BY DEF Errors
  <2>5. \E b \in BOOLEAN, er \in Errors, l \in {"retrieve", "synthesize"} :
          Node(r, l, [x EXCEPT !.sql = b, !.error = er]) /\ UNCHANGED cache
    BY <1>5, <2>1, <2>4 DEF DbLookup
  <2> QED BY <2>1, <2>3, <2>5, CacheNode
<1>6. ASSUME NEW r \in Requests, RetrieveFinds(r) \/ RetrieveFails(r)
      PROVE  CacheInv'
  <2>1. PICK x \in RAGState : x = state[r]
    BY <1>0
  <2>2. x.by = r /\ ~x.cached
    BY <1>6, <2>1 DEF RetrieveFinds, RetrieveFails, CacheInv
  <2>3. \A k \in {"none", "blank", "some"}, er \in Errors :
          LET t == [x EXCEPT !.chunks = k, !.round = x.retry, !.error = er]
          IN /\ t \in RAGState /\ t.by = r /\ ~t.cached
             /\ t.tenant = x.tenant /\ t.question = x.question
    BY <2>2 DEF RAGState
  <2>4. "none" \in Errors /\ "retrieve" \in Errors
    BY DEF Errors
  <2>5. \E k \in {"none", "blank", "some"}, er \in Errors :
          /\ Node(r, "synthesize",
                  [x EXCEPT !.chunks = k, !.round = x.retry, !.error = er])
          /\ UNCHANGED cache
    BY <1>6, <2>1, <2>4 DEF RetrieveFinds, RetrieveFails
  <2> QED BY <2>1, <2>3, <2>5, CacheNode
<1>7. ASSUME NEW r \in Requests, RetrieveCrashes(r) PROVE CacheInv'
  <2>1. PICK x \in RAGState : x = state[r]
    BY <1>0
  <2>2. ~x.cached
    BY <1>7, <2>1 DEF RetrieveCrashes, CacheInv
  <2> DEFINE t == [x EXCEPT !.source = "rag", !.text = "crash", !.warned = FALSE,
                     !.faith = 0, !.rel = 0, !.retry = 0, !.error = "crash"]
  <2>3. t \in RAGState
    BY Updates
  <2>4. t.tenant = x.tenant /\ t.question = x.question /\ ~t.cached
    BY <2>2 DEF RAGState
  <2>5. Node(r, "done", t) /\ UNCHANGED cache
    BY <1>7, <2>1 DEF RetrieveCrashes
  <2> HIDE DEF t
  <2> QED BY <2>1, <2>3, <2>4, <2>5, CacheNode
<1>8. ASSUME NEW r \in Requests,
             SynthesizeDirect(r) \/ SynthesizeWrites(r) \/ SynthesizeFails(r)
      PROVE  CacheInv'
  <2>1. PICK x \in RAGState : x = state[r]
    BY <1>0
  <2>2. x.by = r /\ ~x.cached
    BY <1>8, <2>1
       DEF SynthesizeDirect, SynthesizeWrites, SynthesizeFails, CacheInv
  <2>3. {"none", "synthesize"} \subseteq Errors
    BY DEF Errors
  <2>4. PICK txt \in Texts, er \in Errors :
          /\ x.source = "rag" => txt \in {"empty", "idk", "written"}
          /\ \/ Node(r, "evaluate", [x EXCEPT !.error = er, !.text = txt])
             \/ Node(r, "evaluate",
                     [x EXCEPT !.text = txt, !.basis = x.round, !.error = er])
          /\ UNCHANGED cache
    <3>1. CASE SynthesizeDirect(r)
      BY <2>1, <2>3, <3>1 DEF SynthesizeDirect, Texts
    <3>2. CASE SynthesizeWrites(r)
      BY <2>1, <2>3, <3>2 DEF SynthesizeWrites, Texts
    <3>3. CASE SynthesizeFails(r)
      BY <2>1, <2>3, <3>3 DEF SynthesizeFails, Texts
    <3> QED BY <1>8, <3>1, <3>2, <3>3
  <2> DEFINE t == [x EXCEPT !.error = er, !.text = txt]
             u == [x EXCEPT !.text = txt, !.basis = x.round, !.error = er]
  <2>5. /\ t \in RAGState /\ t.by = r /\ ~t.cached
        /\ t.tenant = x.tenant /\ t.question = x.question
        /\ t.source = x.source /\ t.text = txt
    BY <2>2 DEF RAGState
  <2>6. /\ u \in RAGState /\ u.by = r /\ ~u.cached
        /\ u.tenant = x.tenant /\ u.question = x.question
        /\ u.source = x.source /\ u.text = txt
    BY <2>2 DEF RAGState
  <2>7. Node(r, "evaluate", t) \/ Node(r, "evaluate", u)
    BY <2>4
  <2> HIDE DEF t, u
  <2> QED BY <2>1, <2>4, <2>5, <2>6, <2>7, CacheNode
<1>9. ASSUME NEW r \in Requests, Evaluate(r) PROVE CacheInv'
  <2>1. PICK x \in RAGState : x = state[r]
    BY <1>0
  <2>2. /\ x.by = r /\ ~x.cached
        /\ x.source = "rag" => x.text \in {"empty", "idk", "written"}
    BY <1>9, <2>1 DEF Evaluate, CacheInv
  <2>3. PICK sc \in Scores(x), w \in BOOLEAN, l \in {"finish", "increment_retry"} :
          /\ Node(r, l, [[x EXCEPT !.faith = sc[1], !.rel = sc[2]] EXCEPT !.warned = w])
          /\ UNCHANGED cache
    <3>1. PICK sc \in Scores(state[r]) :
            LET s == [state[r] EXCEPT !.faith = sc[1], !.rel = sc[2]]
            IN Node(r, IF Passes(s) \/ s.retry >= MaxRetries
                       THEN "finish" ELSE "increment_retry",
                    [s EXCEPT !.warned = RetriesOver(s)])
      BY <1>9 DEF Evaluate
    <3>2. RetriesOver([x EXCEPT !.faith = sc[1], !.rel = sc[2]]) \in BOOLEAN
      BY NoticeBoolean
    <3> QED BY <1>9, <2>1, <3>1, <3>2 DEF Evaluate
  <2> DEFINE t == [[x EXCEPT !.faith = sc[1], !.rel = sc[2]] EXCEPT !.warned = w]
  <2>4. sc[1] \in 0..100 /\ sc[2] \in 0..100
    BY ScoresBounded
  <2>5. /\ t \in RAGState /\ t.by = r /\ ~t.cached
        /\ t.tenant = x.tenant /\ t.question = x.question
        /\ t.source = x.source /\ t.text = x.text
        /\ t.faith = sc[1] /\ t.rel = sc[2]
    BY <2>2, <2>4 DEF RAGState
  <2>6. Node(r, l, t) /\ UNCHANGED cache
    BY <2>3
  <2> HIDE DEF t
  <2> QED BY <2>1, <2>2, <2>5, <2>6, EmptyScores, CacheNode
<1>10. ASSUME NEW r \in Requests, IncrementRetry(r) PROVE CacheInv'
  <2>1. PICK x \in RAGState : x = state[r]
    BY <1>0
  <2>2. x.by = r /\ ~x.cached
    BY <1>10, <2>1 DEF IncrementRetry, CacheInv
  <2> DEFINE t == [x EXCEPT !.retry = @ + 1]
  <2>3. state'[r] = t /\ state'[r] \in RAGState
    <3>1. TypeOK' BY TypesKept
    <3> QED BY <1>10, <2>1, <3>1 DEF IncrementRetry, Node, TypeOK
  <2>4. t.by = r /\ ~t.cached /\ t.tenant = x.tenant /\ t.question = x.question
    BY <2>2 DEF RAGState
  <2>5. Node(r, "retrieve", t) /\ UNCHANGED cache
    BY <1>10, <2>1 DEF IncrementRetry
  <2> HIDE DEF t
  <2> QED BY <2>1, <2>3, <2>4, <2>5, CacheNode
<1>11. ASSUME NEW r \in Requests, Finish(r) PROVE CacheInv'
  <2>1. PICK x \in RAGState : x = state[r]
    BY <1>0
  <2>2. /\ x.by = r /\ ~x.cached
        /\ x.source = "rag" => x.text \in {"empty", "idk", "written"}
        /\ x.source = "rag" => (x.text = "empty" => x.faith = 0)
                               /\ (x.text = "idk" => x.rel = 0)
    BY <1>11, <2>1 DEF Finish, CacheInv
  <2>3. Cacheable(x) => x.source = "rag" /\ x.text = "written"
    BY <2>2 DEF Cacheable, CacheFaith, CacheRel, RAGState, Sources
  <2>4. \A q \in Requests :
          /\ state'[q] = state[q]
          /\ pc'[q] = pc[q] \/ pc'[q] = "done"
    BY <1>11 DEF Finish, Node, TypeOK
  <2>5. \A e \in cache' :
          /\ e.source = "rag" /\ e.text = "written"
          /\ state[e.by].tenant = e.tenant /\ state[e.by].question = e.question
    BY <1>11, <2>1, <2>2, <2>3 DEF Finish, CacheInv, EntryOf
  <2>6. /\ \A e \in cache' : e.by \in Requests
        /\ \A q \in Requests : state[q].by \in Requests
    <3>1. TypeOK' BY TypesKept
    <3> QED BY <3>1 DEF TypeOK, RAGState, Entry
  <2> QED BY <2>4, <2>5, <2>6 DEF CacheInv, LiveDataIsFresh, CacheStaysInTenant
<1>12. ASSUME Expire PROVE CacheInv'
  BY <1>12 DEF Expire, CacheInv, LiveDataIsFresh, CacheStaysInTenant
<1> QED
  BY <1>1, <1>2, <1>3, <1>4, <1>5, <1>6, <1>7, <1>8, <1>9, <1>10, <1>11,
     <1>12 DEF Next, Step

LEMMA AlwaysCache == Spec => []CacheInv
<1>1. Init => CacheInv
  <2> SUFFICES ASSUME Init PROVE CacheInv
    OBVIOUS
  <2>1. PICK s \in [Requests -> Tenants \X Questions] :
          state = [r \in Requests |-> InitialState(r, s[r][1], s[r][2])]
    BY DEF Init
  <2>2. \A r \in Requests :
          /\ state[r].by = r /\ state[r].cached = FALSE
          /\ state[r].source = "rag" /\ state[r].text = "empty" /\ pc[r] = "idle"
    BY <2>1 DEF Init, InitialState
  <2>3. cache = {}
    BY DEF Init
  <2> QED BY <2>2, <2>3 DEF CacheInv, LiveDataIsFresh, CacheStaysInTenant
<1>2. TypeOK /\ CounterInv /\ CacheInv /\ [Next]_vars => CacheInv'
  <2>1. CASE UNCHANGED vars
    BY <2>1 DEF vars, CacheInv, LiveDataIsFresh, CacheStaysInTenant
  <2> QED BY <2>1, CacheKept
<1> QED
  BY <1>1, <1>2, TypeCorrect, PTL DEF Spec

\* No cached answer crosses to another tenant or question.
THEOREM CacheCorrect == Spec => []CacheStaysInTenant
<1>1. CacheInv => CacheStaysInTenant
  BY DEF CacheInv
<1> QED
  BY <1>1, AlwaysCache, PTL

\* Live account data is never served from the cache.
THEOREM LiveDataFresh == Spec => []LiveDataIsFresh
<1>1. CacheInv => LiveDataIsFresh
  BY DEF CacheInv
<1> QED
  BY <1>1, AlwaysCache, PTL
=============================================================================
