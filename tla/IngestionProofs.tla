--------------------------- MODULE IngestionProofs ---------------------------
(***************************************************************************)
(* Theorems about Ingestion for every number of documents, tasks, batches, *)
(* retries and faults.                                                     *)
(***************************************************************************)
EXTENDS Ingestion, TLAPS

\* What the provers need of the constants.
LEMMA ConstantTypes ==
  /\ Batches \in Nat /\ Batches >= 1
  /\ UpsertAttempts \in Nat /\ UpsertAttempts >= 1
  /\ MaxRetries \in Nat /\ MaxFaults \in Nat
  /\ TaskDoc \in [Tasks -> Docs]
BY ConstantsAssumption DEF ConstantsAssumption

LEMMA InitTypeOK == Init => TypeOK
BY ConstantTypes DEF Init, TypeOK

LEMMA TypeOKStep == TypeOK /\ [Next]_vars => TypeOK'
<1> SUFFICES ASSUME TypeOK, [Next]_vars PROVE TypeOK'
  OBVIOUS
<1> USE ConstantTypes DEF TypeOK, Uploading, Running, Ended, Mishap, taskLocals,
        taskVars, pgVars, qdrantVars, Goto, Note, Fault, ResetLoop
<1>1. ASSUME NEW t \in Tasks, Submit(t) PROVE TypeOK'
  BY <1>1 DEF Submit
<1>2. ASSUME NEW t \in Tasks, Deliver(t) PROVE TypeOK'
  BY <1>2 DEF Deliver
<1>3. ASSUME NEW t \in Tasks, Prepared(t) PROVE TypeOK'
  BY <1>3 DEF Prepared
<1>4. ASSUME NEW t \in Tasks, RetryTransient(t) PROVE TypeOK'
  BY <1>4 DEF RetryTransient
<1>5. ASSUME NEW t \in Tasks, RetriesExhausted(t) PROVE TypeOK'
  BY <1>5 DEF RetriesExhausted
<1>6. ASSUME NEW t \in Tasks, Fail(t) PROVE TypeOK'
  BY <1>6 DEF Fail
<1>7. ASSUME NEW t \in Tasks, RecordDLQ(t) PROVE TypeOK'
  BY <1>7 DEF RecordDLQ
<1>8. ASSUME NEW t \in Tasks, Raise(t) PROVE TypeOK'
  BY <1>8 DEF Raise
<1>9. ASSUME NEW t \in Tasks, Return(t) PROVE TypeOK'
  BY <1>9 DEF Return
<1>10. ASSUME NEW t \in Tasks, SkipComplete(t) PROVE TypeOK'
  BY <1>10 DEF SkipComplete
<1>11. ASSUME NEW t \in Tasks, ReadStatus(t) PROVE TypeOK'
  BY <1>11 DEF ReadStatus, NoteRace
<1>12. ASSUME NEW t \in Tasks, Cleanup(t) PROVE TypeOK'
  BY <1>12 DEF Cleanup, NotOf
<1>13. ASSUME NEW t \in Tasks, CleanupFails(t) PROVE TypeOK'
  BY <1>13 DEF CleanupFails
<1>14. ASSUME NEW t \in Tasks, Claim(t) PROVE TypeOK'
  BY <1>14 DEF Claim
<1>15. ASSUME NEW t \in Tasks, StoreParents(t) PROVE TypeOK'
  BY <1>15 DEF StoreParents, ThisRun, Run
<1>16. ASSUME NEW t \in Tasks PROVE ThisBatch(t) \in Point
  BY DEF ThisBatch, Point
<1>17. ASSUME NEW t \in Tasks, UpsertAck(t) PROVE TypeOK'
  BY <1>16, <1>17 DEF UpsertAck
<1>18. ASSUME NEW t \in Tasks, UpsertRetry(t) PROVE TypeOK'
  BY <1>16, <1>18 DEF UpsertRetry, MayBeInFlight
<1>19. ASSUME NEW t \in Tasks, UpsertFails(t) PROVE TypeOK'
  BY <1>16, <1>19 DEF UpsertFails, MayBeInFlight
<1>20. ASSUME NEW t \in Tasks, MarkComplete(t) PROVE TypeOK'
  BY <1>20 DEF MarkComplete
<1>21. ASSUME NEW t \in Tasks, WorkerLost(t) PROVE TypeOK'
  BY <1>21 DEF WorkerLost
<1>22. ASSUME NEW t \in Tasks, HardLimit(t) PROVE TypeOK'
  BY <1>22 DEF HardLimit
<1>23. ASSUME NEW t \in Tasks, NEW u \in Tasks, RetryThenLost(t, u) PROVE TypeOK'
  BY <1>23 DEF RetryThenLost
<1>24. ASSUME NEW p \in acked, Index(p) PROVE TypeOK'
  BY <1>24 DEF Index
<1>25. ASSUME NEW p \in inflight, Land(p) PROVE TypeOK'
  <2>1. DocOf(p) \in Docs
    BY DEF DocOf, Point
  <2> QED BY <1>25, <2>1 DEF Land
<1>26. ASSUME NEW d \in Docs, LandDelete(d) PROVE TypeOK'
  BY <1>26 DEF LandDelete, NotOf
<1>27. CASE QdrantCrash
  BY <1>27 DEF QdrantCrash
<1>28. CASE UNCHANGED vars
  BY <1>28 DEF vars
<1> QED
  BY <1>1, <1>2, <1>3, <1>4, <1>5, <1>6, <1>7, <1>8, <1>9, <1>10, <1>11, <1>12,
     <1>13, <1>14, <1>15, <1>17, <1>18, <1>19, <1>20, <1>21, <1>22, <1>23, <1>24,
     <1>25, <1>26, <1>27, <1>28 DEF Next, TaskStep

\* Type correctness.
THEOREM TypeCorrect == Spec => []TypeOK
BY InitTypeOK, TypeOKStep, PTL DEF Spec

-----------------------------------------------------------------------------
(* Parents before points.                                                  *)

LEMMA ParentsStep == TypeOK /\ ParentsInv /\ [Next]_vars => ParentsInv'
<1> SUFFICES ASSUME TypeOK, ParentsInv, [Next]_vars PROVE ParentsInv'
  OBVIOUS
<1> USE ConstantTypes DEF ParentsInv, ParentsBeforePoints, Accepted, DocOf, RunOf,
        ThisRun, TypeOK, Run, Point, Uploading, Running, taskLocals, taskVars, pgVars,
        qdrantVars, Goto, Fault, ResetLoop
<1>1. ASSUME NEW t \in Tasks, Submit(t) PROVE ParentsInv'
  BY <1>1 DEF Submit
<1>2. ASSUME NEW t \in Tasks, Deliver(t) PROVE ParentsInv'
  BY <1>2 DEF Deliver
<1>3. ASSUME NEW t \in Tasks, Prepared(t) PROVE ParentsInv'
  BY <1>3 DEF Prepared
<1>4. ASSUME NEW t \in Tasks, RetryTransient(t) PROVE ParentsInv'
  BY <1>4 DEF RetryTransient
<1>5. ASSUME NEW t \in Tasks, RetriesExhausted(t) PROVE ParentsInv'
  BY <1>5 DEF RetriesExhausted
<1>6. ASSUME NEW t \in Tasks, Fail(t) PROVE ParentsInv'
  BY <1>6 DEF Fail
<1>7. ASSUME NEW t \in Tasks, RecordDLQ(t) PROVE ParentsInv'
  BY <1>7 DEF RecordDLQ
<1>8. ASSUME NEW t \in Tasks, Raise(t) PROVE ParentsInv'
  BY <1>8 DEF Raise
<1>9. ASSUME NEW t \in Tasks, Return(t) PROVE ParentsInv'
  BY <1>9 DEF Return
<1>10. ASSUME NEW t \in Tasks, SkipComplete(t) PROVE ParentsInv'
  BY <1>10 DEF SkipComplete
<1>11. ASSUME NEW t \in Tasks, ReadStatus(t) PROVE ParentsInv'
  BY <1>11 DEF ReadStatus, NoteRace
<1>12. ASSUME NEW t \in Tasks, Cleanup(t) PROVE ParentsInv'
  BY <1>12 DEF Cleanup, NotOf
<1>13. ASSUME NEW t \in Tasks, CleanupFails(t) PROVE ParentsInv'
  BY <1>13 DEF CleanupFails
<1>14. ASSUME NEW t \in Tasks, Claim(t) PROVE ParentsInv'
  BY <1>14 DEF Claim
<1>15. ASSUME NEW t \in Tasks, StoreParents(t) PROVE ParentsInv'
  BY <1>15 DEF StoreParents
<1>16. ASSUME NEW t \in Tasks, UpsertAck(t) PROVE ParentsInv'
  BY <1>16 DEF UpsertAck, ThisBatch
<1>17. ASSUME NEW t \in Tasks, UpsertRetry(t) PROVE ParentsInv'
  BY <1>17 DEF UpsertRetry, MayBeInFlight, ThisBatch
<1>18. ASSUME NEW t \in Tasks, UpsertFails(t) PROVE ParentsInv'
  BY <1>18 DEF UpsertFails, MayBeInFlight, ThisBatch
<1>19. ASSUME NEW t \in Tasks, MarkComplete(t) PROVE ParentsInv'
  BY <1>19 DEF MarkComplete
<1>20. ASSUME NEW t \in Tasks, WorkerLost(t) PROVE ParentsInv'
  BY <1>20 DEF WorkerLost
<1>21. ASSUME NEW t \in Tasks, HardLimit(t) PROVE ParentsInv'
  BY <1>21 DEF HardLimit
<1>22. ASSUME NEW t \in Tasks, NEW u \in Tasks, RetryThenLost(t, u) PROVE ParentsInv'
  BY <1>22 DEF RetryThenLost
<1>23. ASSUME NEW p \in acked, Index(p) PROVE ParentsInv'
  BY <1>23 DEF Index
<1>24. ASSUME NEW p \in inflight, Land(p) PROVE ParentsInv'
  BY <1>24 DEF Land
<1>25. ASSUME NEW d \in Docs, LandDelete(d) PROVE ParentsInv'
  BY <1>25 DEF LandDelete, NotOf
<1>26. CASE QdrantCrash
  BY <1>26 DEF QdrantCrash
<1>27. CASE UNCHANGED vars
  BY <1>27 DEF vars
<1> QED
  BY <1>1, <1>2, <1>3, <1>4, <1>5, <1>6, <1>7, <1>8, <1>9, <1>10, <1>11, <1>12, <1>13,
     <1>14, <1>15, <1>16, <1>17, <1>18, <1>19, <1>20, <1>21, <1>22, <1>23, <1>24, <1>25,
     <1>26, <1>27 DEF Next, TaskStep

\* Whatever the constants, no child chunk reaches Qdrant ahead of its parent.
THEOREM ParentsFirst == Spec => []ParentsBeforePoints
<1>1. Init => ParentsInv
  BY DEF Init, ParentsInv, ParentsBeforePoints, Accepted
<1>2. ParentsInv => ParentsBeforePoints
  BY DEF ParentsInv
<1> QED
  BY <1>1, <1>2, ParentsStep, TypeCorrect, PTL DEF Spec

-----------------------------------------------------------------------------
(* The upload protocol.                                                    *)

\* A second uploader is noted when it reads the status.
LEMMA SoleUploaderStep == TypeOK /\ SoleUploader /\ [Next]_vars => SoleUploader'
<1> SUFFICES ASSUME TypeOK, SoleUploader, [Next]_vars PROVE SoleUploader'
  OBVIOUS
<1> USE ConstantTypes DEF TypeOK, Free, Uploading, Running, Mishap, taskLocals,
        taskVars, pgVars, qdrantVars, Goto, Note, Fault, ResetLoop, SoleUploader
<1>1. ASSUME NEW t \in Tasks, Submit(t) PROVE SoleUploader'
  BY <1>1 DEF Submit
<1>2. ASSUME NEW t \in Tasks, Deliver(t) PROVE SoleUploader'
  BY <1>2 DEF Deliver
<1>3. ASSUME NEW t \in Tasks, Prepared(t) PROVE SoleUploader'
  BY <1>3 DEF Prepared
<1>4. ASSUME NEW t \in Tasks, RetryTransient(t) PROVE SoleUploader'
  BY <1>4 DEF RetryTransient
<1>5. ASSUME NEW t \in Tasks, RetriesExhausted(t) PROVE SoleUploader'
  BY <1>5 DEF RetriesExhausted
<1>6. ASSUME NEW t \in Tasks, Fail(t) PROVE SoleUploader'
  BY <1>6 DEF Fail
<1>7. ASSUME NEW t \in Tasks, RecordDLQ(t) PROVE SoleUploader'
  BY <1>7 DEF RecordDLQ
<1>8. ASSUME NEW t \in Tasks, Raise(t) PROVE SoleUploader'
  BY <1>8 DEF Raise
<1>9. ASSUME NEW t \in Tasks, Return(t) PROVE SoleUploader'
  BY <1>9 DEF Return
<1>10. ASSUME NEW t \in Tasks, SkipComplete(t) PROVE SoleUploader'
  BY <1>10 DEF SkipComplete
<1>11. ASSUME NEW t \in Tasks, ReadStatus(t) PROVE SoleUploader'
  BY <1>11 DEF ReadStatus, NoteRace
<1>12. ASSUME NEW t \in Tasks, Cleanup(t) PROVE SoleUploader'
  BY <1>12 DEF Cleanup
<1>13. ASSUME NEW t \in Tasks, CleanupFails(t) PROVE SoleUploader'
  BY <1>13 DEF CleanupFails
<1>14. ASSUME NEW t \in Tasks, Claim(t) PROVE SoleUploader'
  BY <1>14 DEF Claim
<1>15. ASSUME NEW t \in Tasks, StoreParents(t) PROVE SoleUploader'
  BY <1>15 DEF StoreParents
<1>16. ASSUME NEW t \in Tasks, UpsertAck(t) PROVE SoleUploader'
  BY <1>16 DEF UpsertAck
<1>17. ASSUME NEW t \in Tasks, UpsertRetry(t) PROVE SoleUploader'
  BY <1>17 DEF UpsertRetry, MayBeInFlight
<1>18. ASSUME NEW t \in Tasks, UpsertFails(t) PROVE SoleUploader'
  BY <1>18 DEF UpsertFails, MayBeInFlight
<1>19. ASSUME NEW t \in Tasks, MarkComplete(t) PROVE SoleUploader'
  BY <1>19 DEF MarkComplete
<1>20. ASSUME NEW t \in Tasks, WorkerLost(t) PROVE SoleUploader'
  BY <1>20 DEF WorkerLost
<1>21. ASSUME NEW t \in Tasks, HardLimit(t) PROVE SoleUploader'
  BY <1>21 DEF HardLimit
<1>22. ASSUME NEW t \in Tasks, NEW u \in Tasks, RetryThenLost(t, u) PROVE SoleUploader'
  BY <1>22 DEF RetryThenLost
<1>23. ASSUME NEW p \in acked, Index(p) PROVE SoleUploader'
  BY <1>23 DEF Index
<1>24. ASSUME NEW p \in inflight, Land(p) PROVE SoleUploader'
  BY <1>24 DEF Land, DocOf, Point
<1>25. ASSUME NEW d \in Docs, LandDelete(d) PROVE SoleUploader'
  BY <1>25 DEF LandDelete
<1>26. CASE QdrantCrash
  BY <1>26 DEF QdrantCrash
<1>27. CASE UNCHANGED vars
  BY <1>27 DEF vars
<1> QED
  BY <1>1, <1>2, <1>3, <1>4, <1>5, <1>6, <1>7, <1>8, <1>9, <1>10, <1>11, <1>12, <1>13,
     <1>14, <1>15, <1>16, <1>17, <1>18, <1>19, <1>20, <1>21, <1>22, <1>23, <1>24, <1>25,
     <1>26, <1>27 DEF Next, TaskStep

\* Nobody else touches the status row of a sole uploader.
LEMMA StatusOfUploaderStep ==
  TypeOK /\ SoleUploader /\ StatusOfUploader /\ [Next]_vars => StatusOfUploader'
<1> SUFFICES ASSUME TypeOK, SoleUploader, StatusOfUploader, [Next]_vars
             PROVE StatusOfUploader'
  OBVIOUS
<1> USE ConstantTypes DEF TypeOK, Free, Uploading, Running, Mishap, taskLocals,
        taskVars, pgVars, qdrantVars, Goto, Note, Fault, ResetLoop, SoleUploader, StatusOfUploader
<1>1. ASSUME NEW t \in Tasks, Submit(t) PROVE StatusOfUploader'
  BY <1>1 DEF Submit
<1>2. ASSUME NEW t \in Tasks, Deliver(t) PROVE StatusOfUploader'
  BY <1>2 DEF Deliver
<1>3. ASSUME NEW t \in Tasks, Prepared(t) PROVE StatusOfUploader'
  BY <1>3 DEF Prepared
<1>4. ASSUME NEW t \in Tasks, RetryTransient(t) PROVE StatusOfUploader'
  BY <1>4 DEF RetryTransient
<1>5. ASSUME NEW t \in Tasks, RetriesExhausted(t) PROVE StatusOfUploader'
  BY <1>5 DEF RetriesExhausted
<1>6. ASSUME NEW t \in Tasks, Fail(t) PROVE StatusOfUploader'
  BY <1>6 DEF Fail
<1>7. ASSUME NEW t \in Tasks, RecordDLQ(t) PROVE StatusOfUploader'
  BY <1>7 DEF RecordDLQ
<1>8. ASSUME NEW t \in Tasks, Raise(t) PROVE StatusOfUploader'
  BY <1>8 DEF Raise
<1>9. ASSUME NEW t \in Tasks, Return(t) PROVE StatusOfUploader'
  BY <1>9 DEF Return
<1>10. ASSUME NEW t \in Tasks, SkipComplete(t) PROVE StatusOfUploader'
  BY <1>10 DEF SkipComplete
<1>11. ASSUME NEW t \in Tasks, ReadStatus(t) PROVE StatusOfUploader'
  BY <1>11 DEF ReadStatus, NoteRace
<1>12. ASSUME NEW t \in Tasks, Cleanup(t) PROVE StatusOfUploader'
  BY <1>12 DEF Cleanup
<1>13. ASSUME NEW t \in Tasks, CleanupFails(t) PROVE StatusOfUploader'
  BY <1>13 DEF CleanupFails
<1>14. ASSUME NEW t \in Tasks, Claim(t) PROVE StatusOfUploader'
  BY <1>14 DEF Claim
<1>15. ASSUME NEW t \in Tasks, StoreParents(t) PROVE StatusOfUploader'
  BY <1>15 DEF StoreParents
<1>16. ASSUME NEW t \in Tasks, UpsertAck(t) PROVE StatusOfUploader'
  BY <1>16 DEF UpsertAck
<1>17. ASSUME NEW t \in Tasks, UpsertRetry(t) PROVE StatusOfUploader'
  BY <1>17 DEF UpsertRetry, MayBeInFlight
<1>18. ASSUME NEW t \in Tasks, UpsertFails(t) PROVE StatusOfUploader'
  BY <1>18 DEF UpsertFails, MayBeInFlight
<1>19. ASSUME NEW t \in Tasks, MarkComplete(t) PROVE StatusOfUploader'
  BY <1>19 DEF MarkComplete
<1>20. ASSUME NEW t \in Tasks, WorkerLost(t) PROVE StatusOfUploader'
  BY <1>20 DEF WorkerLost
<1>21. ASSUME NEW t \in Tasks, HardLimit(t) PROVE StatusOfUploader'
  BY <1>21 DEF HardLimit
<1>22. ASSUME NEW t \in Tasks, NEW u \in Tasks, RetryThenLost(t, u) PROVE StatusOfUploader'
  BY <1>22 DEF RetryThenLost
<1>23. ASSUME NEW p \in acked, Index(p) PROVE StatusOfUploader'
  BY <1>23 DEF Index
<1>24. ASSUME NEW p \in inflight, Land(p) PROVE StatusOfUploader'
  BY <1>24 DEF Land, DocOf, Point
<1>25. ASSUME NEW d \in Docs, LandDelete(d) PROVE StatusOfUploader'
  BY <1>25 DEF LandDelete
<1>26. CASE QdrantCrash
  BY <1>26 DEF QdrantCrash
<1>27. CASE UNCHANGED vars
  BY <1>27 DEF vars
<1> QED
  BY <1>1, <1>2, <1>3, <1>4, <1>5, <1>6, <1>7, <1>8, <1>9, <1>10, <1>11, <1>12, <1>13,
     <1>14, <1>15, <1>16, <1>17, <1>18, <1>19, <1>20, <1>21, <1>22, <1>23, <1>24, <1>25,
     <1>26, <1>27 DEF Next, TaskStep

\* Whole uploads: nobody but a noted mishap takes a batch of the sole uploader,
\* or of a complete document, away.
LEMMA WholeStep ==
  TypeOK /\ UploadInv /\ [Next]_vars => BatchesBehind' /\ CompleteIsWhole'
<1> DEFINE Whole == BatchesBehind /\ CompleteIsWhole
<1> SUFFICES ASSUME TypeOK, UploadInv, [Next]_vars PROVE Whole'
  OBVIOUS
<1> USE ConstantTypes DEF TypeOK, Free, Uploading, Running, Mishap, taskLocals,
        taskVars, pgVars, qdrantVars, Goto, Note, Fault, ResetLoop, UploadInv, SoleUploader,
        StatusOfUploader, BatchesBehind, CompleteIsWhole, Accepted, AcceptedOf, DocOf,
        BatchesOf, ThisRun, ThisBatch, Point
<1>1. ASSUME NEW t \in Tasks, Submit(t) PROVE Whole'
  BY <1>1 DEF Submit
<1>2. ASSUME NEW t \in Tasks, Deliver(t) PROVE Whole'
  BY <1>2 DEF Deliver
<1>3. ASSUME NEW t \in Tasks, Prepared(t) PROVE Whole'
  BY <1>3 DEF Prepared
<1>4. ASSUME NEW t \in Tasks, RetryTransient(t) PROVE Whole'
  BY <1>4 DEF RetryTransient
<1>5. ASSUME NEW t \in Tasks, RetriesExhausted(t) PROVE Whole'
  BY <1>5 DEF RetriesExhausted
<1>6. ASSUME NEW t \in Tasks, Fail(t) PROVE Whole'
  BY <1>6 DEF Fail
<1>7. ASSUME NEW t \in Tasks, RecordDLQ(t) PROVE Whole'
  BY <1>7 DEF RecordDLQ
<1>8. ASSUME NEW t \in Tasks, Raise(t) PROVE Whole'
  BY <1>8 DEF Raise
<1>9. ASSUME NEW t \in Tasks, Return(t) PROVE Whole'
  BY <1>9 DEF Return
<1>10. ASSUME NEW t \in Tasks, SkipComplete(t) PROVE Whole'
  BY <1>10 DEF SkipComplete
<1>11. ASSUME NEW t \in Tasks, ReadStatus(t) PROVE Whole'
  BY <1>11 DEF ReadStatus, NoteRace
<1>12. ASSUME NEW t \in Tasks, Cleanup(t) PROVE Whole'
  BY <1>12 DEF Cleanup, NotOf
<1>13. ASSUME NEW t \in Tasks, CleanupFails(t) PROVE Whole'
  BY <1>13 DEF CleanupFails
<1>14. ASSUME NEW t \in Tasks, Claim(t) PROVE Whole'
  BY <1>14 DEF Claim
<1>15. ASSUME NEW t \in Tasks, StoreParents(t) PROVE Whole'
  BY <1>15 DEF StoreParents
<1>16. ASSUME NEW t \in Tasks, UpsertAck(t) PROVE Whole'
  <2>1. Accepted' = Accepted \cup {ThisBatch(t)}
    BY <1>16 DEF UpsertAck
  <2>2. CompleteIsWhole'
    BY <1>16, <2>1 DEF UpsertAck
  <2>3. ASSUME NEW u \in Tasks, u # t, Free(TaskDoc[u], {"raced", "lost", "lateDelete"})
        PROVE /\ pc'[u] = "upload" =>
                   \A b \in 1..(next'[u] - 1) :
                     [task |-> u, exec |-> exec'[u], batch |-> b] \in Accepted'
              /\ pc'[u] = "finish" => BatchesOf(ThisRun(u)') \subseteq Accepted'
    BY <1>16, <2>1, <2>3 DEF UpsertAck
  <2>4. ASSUME Free(TaskDoc[t], {"raced", "lost", "lateDelete"})
        PROVE \A b \in 1..next[t] : [task |-> t, exec |-> exec[t], batch |-> b] \in Accepted'
    <3>1. \A b \in 1..(next[t] - 1) :
            [task |-> t, exec |-> exec[t], batch |-> b] \in Accepted
      BY <1>16, <2>4 DEF UpsertAck
    <3>2. [task |-> t, exec |-> exec[t], batch |-> next[t]] = ThisBatch(t)
      OBVIOUS
    <3>3. \A b \in 1..next[t] : b \in 1..(next[t] - 1) \/ b = next[t]
      OBVIOUS
    <3> QED BY ONLY <2>1, <3>1, <3>2, <3>3
  <2>5. ASSUME Free(TaskDoc[t], {"raced", "lost", "lateDelete"})
        PROVE /\ pc'[t] = "upload" =>
                   \A b \in 1..(next'[t] - 1) :
                     [task |-> t, exec |-> exec'[t], batch |-> b] \in Accepted'
              /\ pc'[t] = "finish" => BatchesOf(ThisRun(t)') \subseteq Accepted'
    BY <1>16, <2>4, <2>5 DEF UpsertAck
  <2>6. BatchesBehind'
    BY <1>16, <2>3, <2>5 DEF UpsertAck
  <2> QED BY <2>2, <2>6
<1>17. ASSUME NEW t \in Tasks, UpsertRetry(t) PROVE Whole'
  BY <1>17 DEF UpsertRetry, MayBeInFlight
<1>18. ASSUME NEW t \in Tasks, UpsertFails(t) PROVE Whole'
  BY <1>18 DEF UpsertFails, MayBeInFlight
<1>19. ASSUME NEW t \in Tasks, MarkComplete(t) PROVE Whole'
  <2>1. BatchesBehind'
    BY <1>19 DEF MarkComplete
  <2>2. ASSUME Free(TaskDoc[t], {"raced", "lost", "lateDelete"})
        PROVE \E p \in AcceptedOf(TaskDoc[t]) : BatchesOf(p) \subseteq Accepted
    <3> DEFINE p == [task |-> t, exec |-> exec[t], batch |-> 1]
    <3>1. BatchesOf(ThisRun(t)) \subseteq Accepted
      BY <1>19, <2>2 DEF MarkComplete
    <3>2. p \in BatchesOf(ThisRun(t))
      OBVIOUS
    <3>3. p \in AcceptedOf(TaskDoc[t])
      BY <3>1, <3>2
    <3>4. BatchesOf(p) = BatchesOf(ThisRun(t))
      OBVIOUS
    <3> QED BY <3>1, <3>3, <3>4
  <2>3. CompleteIsWhole'
    BY <1>19, <2>2 DEF MarkComplete
  <2> QED BY <2>1, <2>3
<1>20. ASSUME NEW t \in Tasks, WorkerLost(t) PROVE Whole'
  BY <1>20 DEF WorkerLost
<1>21. ASSUME NEW t \in Tasks, HardLimit(t) PROVE Whole'
  BY <1>21 DEF HardLimit
<1>22. ASSUME NEW t \in Tasks, NEW u \in Tasks, RetryThenLost(t, u) PROVE Whole'
  BY <1>22 DEF RetryThenLost
<1>23. ASSUME NEW p \in acked, Index(p) PROVE Whole'
  BY <1>23 DEF Index
<1>24. ASSUME NEW p \in inflight, Land(p) PROVE Whole'
  BY <1>24 DEF Land
<1>25. ASSUME NEW d \in Docs, LandDelete(d) PROVE Whole'
  <2>1. \A c \in Docs : Free(c, {"raced", "lost", "lateDelete"})' =>
          /\ Free(c, {"raced", "lost", "lateDelete"})
          /\ AcceptedOf(c) \subseteq Accepted'
    BY <1>25 DEF LandDelete, NotOf
  <2>2. BatchesBehind'
    BY <1>25, <2>1 DEF LandDelete
  <2>3. CompleteIsWhole'
    BY <1>25, <2>1 DEF LandDelete
  <2> QED BY <2>2, <2>3
<1>26. CASE QdrantCrash
  <2>1. \A c \in Docs : Free(c, {"raced", "lost", "lateDelete"})' =>
          /\ Free(c, {"raced", "lost", "lateDelete"})
          /\ AcceptedOf(c) \subseteq Accepted'
    BY <1>26 DEF QdrantCrash
  <2>2. UNCHANGED <<pc, exec, next, status>>
    BY <1>26 DEF QdrantCrash
  <2>3. BatchesBehind'
    <3> SUFFICES ASSUME NEW t \in Tasks,
                        Free(TaskDoc[t], {"raced", "lost", "lateDelete"})'
                 PROVE  /\ pc[t] = "upload" =>
                             \A b \in 1..(next[t] - 1) :
                               [task |-> t, exec |-> exec[t], batch |-> b] \in Accepted'
                        /\ pc[t] = "finish" => BatchesOf(ThisRun(t)) \subseteq Accepted'
      BY <2>2
    <3>1. TaskDoc[t] \in Docs
      OBVIOUS
    <3>2. /\ Free(TaskDoc[t], {"raced", "lost", "lateDelete"})
          /\ AcceptedOf(TaskDoc[t]) \subseteq Accepted'
      BY <2>1, <3>1
    <3> HIDE <1>26
    <3> QED BY <3>2
  <2>4. CompleteIsWhole'
    BY <2>1, <2>2
  <2> QED BY <2>3, <2>4
<1>27. CASE UNCHANGED vars
  BY <1>27 DEF vars
<1> QED
  BY <1>1, <1>2, <1>3, <1>4, <1>5, <1>6, <1>7, <1>8, <1>9, <1>10, <1>11, <1>12,
     <1>13, <1>14, <1>15, <1>16, <1>17, <1>18, <1>19, <1>20, <1>21, <1>22, <1>23,
     <1>24, <1>25, <1>26, <1>27 DEF Next, TaskStep

\* A step that leaves the documents still free of mishap alone.
LEMMA ExactFrame ==
  ASSUME TypeOK, TypeOK', ContentOfUploader, CompleteIsExact,
         UNCHANGED <<pc, exec, status>>,
         \A c \in Docs : Free(c, Mishap)' =>
           Free(c, Mishap) /\ AcceptedOf(c)' = AcceptedOf(c)
  PROVE  ContentOfUploader' /\ CompleteIsExact'
<1>1. \A t \in Tasks : TaskDoc[t] \in Docs
  BY ConstantTypes
<1>2. ContentOfUploader'
  BY <1>1 DEF ContentOfUploader, ThisRun
<1>3. \A c \in Docs : /\ mishap[c] = {} <=> Free(c, Mishap)
                     /\ mishap'[c] = {} <=> Free(c, Mishap)'
  BY DEF Free, TypeOK
<1>4. CompleteIsExact'
  <2> SUFFICES ASSUME NEW c \in Docs, status'[c] = "complete", mishap'[c] = {},
                      NEW p \in AcceptedOf(c)', NEW q \in AcceptedOf(c)'
               PROVE  RunOf(p) = RunOf(q)
    BY DEF CompleteIsExact, RunOf
  <2>1. mishap[c] = {} /\ AcceptedOf(c)' = AcceptedOf(c)
    BY <1>3 DEF Free, AcceptedOf
  <2> QED BY <2>1 DEF CompleteIsExact
<1> QED BY <1>2, <1>4

\* Exact content: only the sole uploader adds to a document without mishap.
LEMMA ExactStep ==
  TypeOK /\ UploadInv /\ [Next]_vars => ContentOfUploader' /\ CompleteIsExact'
<1> DEFINE Exact == ContentOfUploader /\ CompleteIsExact
<1> SUFFICES ASSUME TypeOK, UploadInv, [Next]_vars PROVE Exact'
  OBVIOUS
<1>0. TypeOK'
  BY TypeOKStep
<1> USE ConstantTypes DEF TypeOK, Free, Uploading, Running, Mishap, taskLocals,
        taskVars, pgVars, qdrantVars, Goto, Note, Fault, ResetLoop, UploadInv, SoleUploader,
        StatusOfUploader, ContentOfUploader, CompleteIsExact, Accepted, AcceptedOf, DocOf,
        RunOf, ThisRun, ThisBatch, Point
<1>1. ASSUME NEW t \in Tasks, Submit(t) PROVE Exact'
  BY <1>1 DEF Submit
<1>2. ASSUME NEW t \in Tasks, Deliver(t) PROVE Exact'
  BY <1>2 DEF Deliver
<1>3. ASSUME NEW t \in Tasks, Prepared(t) PROVE Exact'
  BY <1>3 DEF Prepared
<1>4. ASSUME NEW t \in Tasks, RetryTransient(t) PROVE Exact'
  BY <1>4 DEF RetryTransient
<1>5. ASSUME NEW t \in Tasks, RetriesExhausted(t) PROVE Exact'
  BY <1>5 DEF RetriesExhausted
<1>6. ASSUME NEW t \in Tasks, Fail(t) PROVE Exact'
  BY <1>6 DEF Fail
<1>7. ASSUME NEW t \in Tasks, RecordDLQ(t) PROVE Exact'
  BY <1>7 DEF RecordDLQ
<1>8. ASSUME NEW t \in Tasks, Raise(t) PROVE Exact'
  BY <1>8 DEF Raise
<1>9. ASSUME NEW t \in Tasks, Return(t) PROVE Exact'
  BY <1>9 DEF Return
<1>10. ASSUME NEW t \in Tasks, SkipComplete(t) PROVE Exact'
  BY <1>10 DEF SkipComplete
<1>11. ASSUME NEW t \in Tasks, ReadStatus(t) PROVE Exact'
  BY <1>11 DEF ReadStatus, NoteRace
<1>12. ASSUME NEW t \in Tasks, Cleanup(t) PROVE Exact'
  BY <1>12 DEF Cleanup, NotOf
<1>13. ASSUME NEW t \in Tasks, CleanupFails(t) PROVE Exact'
  <2>1. /\ pc[t] = "cleanup" /\ pc' = [pc EXCEPT ![t] = "claim"]
        /\ UNCHANGED <<status, points, acked, exec>>
    BY <1>13 DEF CleanupFails
  <2>2. IF AcceptedOf(TaskDoc[t]) # {}
        THEN mishap' = [mishap EXCEPT ![TaskDoc[t]] = @ \cup {"dirty"}]
        ELSE mishap' = mishap
    BY <1>13 DEF CleanupFails
  <2>3. \A e \in Docs :
          /\ Free(e, Mishap)' => Free(e, Mishap)
          /\ e = TaskDoc[t] /\ Free(e, Mishap)' => AcceptedOf(e) = {}
    <3>1. TaskDoc[t] \in Docs /\ mishap \in [Docs -> SUBSET Mishap]
      OBVIOUS
    <3> HIDE DEF AcceptedOf
    <3> QED BY ONLY <2>2, <3>1 DEF Free, Mishap
  <2>4. \A e \in Docs : AcceptedOf(e)' = AcceptedOf(e)
    BY <2>1
  <2>5. \A u \in Tasks \ {t} : pc'[u] = pc[u] /\ ThisRun(u)' = ThisRun(u)
    BY <2>1
  <2>6. pc'[t] = "claim"
    BY <2>1
  <2>7. ContentOfUploader /\ CompleteIsExact
    BY DEF UploadInv
  <2>8. \A u \in Tasks : TaskDoc[u] \in Docs
    OBVIOUS
  <2> HIDE DEF AcceptedOf, Free, ThisRun, RunOf
  <2>9. ContentOfUploader'
    BY ONLY <2>1, <2>3, <2>4, <2>5, <2>6, <2>7, <2>8 DEF ContentOfUploader
  <2>10. CompleteIsExact'
    <3>1. \A e \in Docs : mishap'[e] = {} => mishap[e] = {}
      BY <2>2
    <3> QED BY ONLY <2>1, <2>4, <2>7, <3>1 DEF CompleteIsExact, RunOf
  <2> QED BY <2>9, <2>10
<1>14. ASSUME NEW t \in Tasks, Claim(t) PROVE Exact'
  BY <1>14 DEF Claim
<1>15. ASSUME NEW t \in Tasks, StoreParents(t) PROVE Exact'
  BY <1>15 DEF StoreParents
<1>16. ASSUME NEW t \in Tasks, UpsertAck(t) PROVE Exact'
  BY <1>16 DEF UpsertAck
<1>17. ASSUME NEW t \in Tasks, UpsertRetry(t) PROVE Exact'
  BY <1>17 DEF UpsertRetry, MayBeInFlight
<1>18. ASSUME NEW t \in Tasks, UpsertFails(t) PROVE Exact'
  BY <1>18 DEF UpsertFails, MayBeInFlight
<1>19. ASSUME NEW t \in Tasks, MarkComplete(t) PROVE Exact'
  <2>1. ContentOfUploader'
    BY <1>19 DEF MarkComplete
  <2>2. Free(TaskDoc[t], Mishap) =>
          \A p \in AcceptedOf(TaskDoc[t]) : RunOf(p) = ThisRun(t)
    BY <1>19 DEF MarkComplete
  <2>3. /\ UNCHANGED <<points, acked, mishap, exec>>
        /\ status' = [status EXCEPT ![TaskDoc[t]] = "complete"]
    BY <1>19 DEF MarkComplete
  <2>4. CompleteIsExact'
    <3>1. \A d \in Docs : AcceptedOf(d)' = AcceptedOf(d)
      BY <2>3
    <3>2. ASSUME NEW d \in Docs, status'[d] = "complete", mishap'[d] = {},
                 NEW p \in AcceptedOf(d), NEW q \in AcceptedOf(d)
          PROVE  RunOf(p) = RunOf(q)
      <4>1. CASE d = TaskDoc[t]
        BY <2>2, <2>3, <3>2, <4>1
      <4>2. CASE d # TaskDoc[t]
        BY <2>3, <3>2, <4>2
      <4> QED BY <4>1, <4>2
    <3> HIDE DEF AcceptedOf, RunOf
    <3> QED BY <3>1, <3>2
  <2> QED BY <2>1, <2>4
<1>20. ASSUME NEW t \in Tasks, WorkerLost(t) PROVE Exact'
  BY <1>20 DEF WorkerLost
<1>21. ASSUME NEW t \in Tasks, HardLimit(t) PROVE Exact'
  BY <1>21 DEF HardLimit
<1>22. ASSUME NEW t \in Tasks, NEW u \in Tasks, RetryThenLost(t, u) PROVE Exact'
  BY <1>22 DEF RetryThenLost
<1>23. ASSUME NEW p \in acked, Index(p) PROVE Exact'
  BY <1>23 DEF Index
<1>24. ASSUME NEW p \in inflight, Land(p) PROVE Exact'
  <2>1. Accepted' = Accepted \cup {p}
    BY <1>24 DEF Land
  <2>2. CASE p \in Accepted
    <3>1. Accepted' = Accepted /\ UNCHANGED <<pc, exec, status, mishap>>
      BY <1>24, <2>1, <2>2 DEF Land
    <3> QED BY <3>1
  <2>3. CASE p \notin Accepted /\ pc[p.task] = "upload" /\ exec[p.task] = p.exec
    <3>1. UNCHANGED <<pc, exec, status, mishap>>
      BY <1>24, <2>3 DEF Land
    <3>2. p.task \in Tasks /\ RunOf(p) = ThisRun(p.task)
      BY <2>3
    <3>3. ContentOfUploader'
      BY <2>1, <2>3, <3>1, <3>2
    <3>4. CompleteIsExact'
      <4>1. Free(DocOf(p), {"raced"}) => status[DocOf(p)] = "processing"
        BY <2>3, <3>2
      <4>2. \A c \in Docs : c # DocOf(p) => AcceptedOf(c)' = AcceptedOf(c)
        BY <2>1
      <4>3. \A c \in Docs : status'[c] = "complete" /\ mishap'[c] = {}
                            => c # DocOf(p) /\ status[c] = "complete" /\ mishap[c] = {}
        BY <3>1, <4>1
      <4>4. CompleteIsExact
        OBVIOUS
      <4> HIDE DEF AcceptedOf, RunOf
      <4> QED BY <4>2, <4>3, <4>4
    <3> QED BY <3>3, <3>4
  <2>4. CASE p \notin Accepted /\ ~(pc[p.task] = "upload" /\ exec[p.task] = p.exec)
    <3>1. /\ UNCHANGED <<pc, exec, status>>
          /\ mishap' = [mishap EXCEPT ![DocOf(p)] = @ \cup {"late"}]
      BY <1>24, <2>4 DEF Land
    <3>2. \A c \in Docs : Free(c, Mishap)' => c # DocOf(p) /\ Free(c, Mishap)
      BY <3>1
    <3>3. \A c \in Docs : c # DocOf(p) => AcceptedOf(c)' = AcceptedOf(c)
      BY <2>1
    <3> QED BY <3>1, <3>2, <3>3, <1>0, ExactFrame
  <2> QED BY <2>2, <2>3, <2>4
<1>25. ASSUME NEW d \in Docs, LandDelete(d) PROVE Exact'
  BY <1>25 DEF LandDelete, NotOf
<1>26. CASE QdrantCrash
  <2>1. UNCHANGED <<pc, exec, status>>
    BY <1>26 DEF QdrantCrash
  <2>2. ASSUME NEW c \in Docs, Free(c, Mishap)'
        PROVE Free(c, Mishap) /\ AcceptedOf(c)' = AcceptedOf(c)
    <3>1. mishap'[c] = mishap[c] /\ ~ \E p \in acked : DocOf(p) = c
      BY <1>26, <2>2 DEF QdrantCrash
    <3>2. points' = points /\ acked' = {}
      BY <1>26 DEF QdrantCrash
    <3> QED BY <2>2, <3>1, <3>2
  <2> QED BY <2>1, <2>2, <1>0, ExactFrame
<1>27. CASE UNCHANGED vars
  BY <1>27 DEF vars
<1> QED
  BY <1>1, <1>2, <1>3, <1>4, <1>5, <1>6, <1>7, <1>8, <1>9, <1>10, <1>11, <1>12, <1>13,
     <1>14, <1>15, <1>16, <1>17, <1>18, <1>19, <1>20, <1>21, <1>22, <1>23, <1>24, <1>25,
     <1>26, <1>27 DEF Next, TaskStep

LEMMA InitUploadInv == Init => UploadInv
BY ConstantTypes DEF Init, UploadInv, SoleUploader, StatusOfUploader, BatchesBehind,
   ContentOfUploader, CompleteIsWhole, CompleteIsExact, Uploading, Accepted, AcceptedOf

THEOREM UploadProtocol == Spec => []UploadInv
<1>1. TypeOK /\ UploadInv /\ [Next]_vars => UploadInv'
  BY SoleUploaderStep, StatusOfUploaderStep, WholeStep, ExactStep DEF UploadInv
<1> QED
  BY <1>1, InitUploadInv, TypeCorrect, PTL DEF Spec

\* A complete document has all its batches in Qdrant.
THEOREM CompleteWhole == Spec => []CompleteIsWhole
<1>1. UploadInv => CompleteIsWhole
  BY DEF UploadInv
<1> QED BY <1>1, UploadProtocol, PTL

\* A complete document without mishap has one run's batches only.
THEOREM CompleteExact == Spec => []CompleteIsExact
<1>1. UploadInv => CompleteIsExact
  BY DEF UploadInv
<1> QED BY <1>1, UploadProtocol, PTL

-----------------------------------------------------------------------------
(* Results and the permanence of "complete".                               *)

\* Only Claim could take "complete" back, and it finds another status.
LEMMA PermanentStep ==
  ASSUME TypeOK, UploadInv, [Next]_vars,
         NEW d \in Docs, status[d] = "complete", "raced" \notin mishap'[d]
  PROVE  status'[d] = "complete"
<1> USE ConstantTypes DEF TypeOK, Uploading, Running, Mishap, taskLocals,
        taskVars, pgVars, qdrantVars, Goto, Note, Fault, ResetLoop, UploadInv, StatusOfUploader, Free
<1>1. ASSUME NEW t \in Tasks, Submit(t) PROVE status'[d] = "complete"
  BY <1>1 DEF Submit
<1>2. ASSUME NEW t \in Tasks, Deliver(t) PROVE status'[d] = "complete"
  BY <1>2 DEF Deliver
<1>3. ASSUME NEW t \in Tasks, Prepared(t) PROVE status'[d] = "complete"
  BY <1>3 DEF Prepared
<1>4. ASSUME NEW t \in Tasks, RetryTransient(t) PROVE status'[d] = "complete"
  BY <1>4 DEF RetryTransient
<1>5. ASSUME NEW t \in Tasks, RetriesExhausted(t) PROVE status'[d] = "complete"
  BY <1>5 DEF RetriesExhausted
<1>6. ASSUME NEW t \in Tasks, Fail(t) PROVE status'[d] = "complete"
  BY <1>6 DEF Fail
<1>7. ASSUME NEW t \in Tasks, RecordDLQ(t) PROVE status'[d] = "complete"
  BY <1>7 DEF RecordDLQ
<1>8. ASSUME NEW t \in Tasks, Raise(t) PROVE status'[d] = "complete"
  BY <1>8 DEF Raise
<1>9. ASSUME NEW t \in Tasks, Return(t) PROVE status'[d] = "complete"
  BY <1>9 DEF Return
<1>10. ASSUME NEW t \in Tasks, SkipComplete(t) PROVE status'[d] = "complete"
  BY <1>10 DEF SkipComplete
<1>11. ASSUME NEW t \in Tasks, ReadStatus(t) PROVE status'[d] = "complete"
  BY <1>11 DEF ReadStatus, NoteRace
<1>12. ASSUME NEW t \in Tasks, Cleanup(t) PROVE status'[d] = "complete"
  BY <1>12 DEF Cleanup
<1>13. ASSUME NEW t \in Tasks, CleanupFails(t) PROVE status'[d] = "complete"
  BY <1>13 DEF CleanupFails
<1>14. ASSUME NEW t \in Tasks, Claim(t) PROVE status'[d] = "complete"
  BY <1>14 DEF Claim
<1>15. ASSUME NEW t \in Tasks, StoreParents(t) PROVE status'[d] = "complete"
  BY <1>15 DEF StoreParents
<1>16. ASSUME NEW t \in Tasks, UpsertAck(t) PROVE status'[d] = "complete"
  BY <1>16 DEF UpsertAck
<1>17. ASSUME NEW t \in Tasks, UpsertRetry(t) PROVE status'[d] = "complete"
  BY <1>17 DEF UpsertRetry, MayBeInFlight
<1>18. ASSUME NEW t \in Tasks, UpsertFails(t) PROVE status'[d] = "complete"
  BY <1>18 DEF UpsertFails, MayBeInFlight
<1>19. ASSUME NEW t \in Tasks, MarkComplete(t) PROVE status'[d] = "complete"
  BY <1>19 DEF MarkComplete
<1>20. ASSUME NEW t \in Tasks, WorkerLost(t) PROVE status'[d] = "complete"
  BY <1>20 DEF WorkerLost
<1>21. ASSUME NEW t \in Tasks, HardLimit(t) PROVE status'[d] = "complete"
  BY <1>21 DEF HardLimit
<1>22. ASSUME NEW t \in Tasks, NEW u \in Tasks, RetryThenLost(t, u) PROVE status'[d] = "complete"
  BY <1>22 DEF RetryThenLost
<1>23. ASSUME NEW p \in acked, Index(p) PROVE status'[d] = "complete"
  BY <1>23 DEF Index
<1>24. ASSUME NEW p \in inflight, Land(p) PROVE status'[d] = "complete"
  BY <1>24 DEF Land
<1>25. ASSUME NEW e \in Docs, LandDelete(e) PROVE status'[d] = "complete"
  BY <1>25 DEF LandDelete
<1>26. CASE QdrantCrash
  BY <1>26 DEF QdrantCrash
<1>27. CASE UNCHANGED vars
  BY <1>27 DEF vars
<1> QED
  BY <1>1, <1>2, <1>3, <1>4, <1>5, <1>6, <1>7, <1>8, <1>9, <1>10, <1>11, <1>12, <1>13,
     <1>14, <1>15, <1>16, <1>17, <1>18, <1>19, <1>20, <1>21, <1>22, <1>23, <1>24, <1>25,
     <1>26, <1>27 DEF Next, TaskStep

\* A complete document is reopened by overlapping uploads only.
THEOREM Permanent == Spec => CompleteIsPermanent
<1>1. TypeOK /\ UploadInv /\ [Next]_vars =>
        [\A d \in Docs : status[d] = "complete" /\ "raced" \notin mishap'[d]
                            => status'[d] = "complete"]_vars
  BY PermanentStep
<1> QED
  BY <1>1, TypeCorrect, UploadProtocol, PTL DEF Spec, CompleteIsPermanent

\* What a task is about to report.
ResultInv ==
  \A t \in Tasks :
    pc[t] \in {"return", "succeeded"} /\ "raced" \notin mishap[TaskDoc[t]]
      => status[TaskDoc[t]] = "complete"

LEMMA ResultStep == TypeOK /\ UploadInv /\ ResultInv /\ [Next]_vars => ResultInv'
<1> SUFFICES ASSUME TypeOK, UploadInv, ResultInv, [Next]_vars PROVE ResultInv'
  OBVIOUS
<1> USE ConstantTypes DEF TypeOK, Uploading, Running, Mishap, taskLocals,
        taskVars, pgVars, qdrantVars, Goto, Note, Fault, ResetLoop, UploadInv, StatusOfUploader, ResultInv, Free
<1>1. ASSUME NEW t \in Tasks, Submit(t) PROVE ResultInv'
  BY <1>1 DEF Submit
<1>2. ASSUME NEW t \in Tasks, Deliver(t) PROVE ResultInv'
  BY <1>2 DEF Deliver
<1>3. ASSUME NEW t \in Tasks, Prepared(t) PROVE ResultInv'
  BY <1>3 DEF Prepared
<1>4. ASSUME NEW t \in Tasks, RetryTransient(t) PROVE ResultInv'
  BY <1>4 DEF RetryTransient
<1>5. ASSUME NEW t \in Tasks, RetriesExhausted(t) PROVE ResultInv'
  BY <1>5 DEF RetriesExhausted
<1>6. ASSUME NEW t \in Tasks, Fail(t) PROVE ResultInv'
  BY <1>6 DEF Fail
<1>7. ASSUME NEW t \in Tasks, RecordDLQ(t) PROVE ResultInv'
  BY <1>7 DEF RecordDLQ
<1>8. ASSUME NEW t \in Tasks, Raise(t) PROVE ResultInv'
  BY <1>8 DEF Raise
<1>9. ASSUME NEW t \in Tasks, Return(t) PROVE ResultInv'
  BY <1>9 DEF Return
<1>10. ASSUME NEW t \in Tasks, SkipComplete(t) PROVE ResultInv'
  BY <1>10 DEF SkipComplete
<1>11. ASSUME NEW t \in Tasks, ReadStatus(t) PROVE ResultInv'
  BY <1>11 DEF ReadStatus, NoteRace
<1>12. ASSUME NEW t \in Tasks, Cleanup(t) PROVE ResultInv'
  BY <1>12 DEF Cleanup
<1>13. ASSUME NEW t \in Tasks, CleanupFails(t) PROVE ResultInv'
  BY <1>13 DEF CleanupFails
<1>14. ASSUME NEW t \in Tasks, Claim(t) PROVE ResultInv'
  BY <1>14 DEF Claim
<1>15. ASSUME NEW t \in Tasks, StoreParents(t) PROVE ResultInv'
  BY <1>15 DEF StoreParents
<1>16. ASSUME NEW t \in Tasks, UpsertAck(t) PROVE ResultInv'
  BY <1>16 DEF UpsertAck
<1>17. ASSUME NEW t \in Tasks, UpsertRetry(t) PROVE ResultInv'
  BY <1>17 DEF UpsertRetry, MayBeInFlight
<1>18. ASSUME NEW t \in Tasks, UpsertFails(t) PROVE ResultInv'
  BY <1>18 DEF UpsertFails, MayBeInFlight
<1>19. ASSUME NEW t \in Tasks, MarkComplete(t) PROVE ResultInv'
  BY <1>19 DEF MarkComplete
<1>20. ASSUME NEW t \in Tasks, WorkerLost(t) PROVE ResultInv'
  BY <1>20 DEF WorkerLost
<1>21. ASSUME NEW t \in Tasks, HardLimit(t) PROVE ResultInv'
  BY <1>21 DEF HardLimit
<1>22. ASSUME NEW t \in Tasks, NEW u \in Tasks, RetryThenLost(t, u) PROVE ResultInv'
  BY <1>22 DEF RetryThenLost
<1>23. ASSUME NEW p \in acked, Index(p) PROVE ResultInv'
  BY <1>23 DEF Index
<1>24. ASSUME NEW p \in inflight, Land(p) PROVE ResultInv'
  BY <1>24 DEF Land, DocOf, Point
<1>25. ASSUME NEW d \in Docs, LandDelete(d) PROVE ResultInv'
  BY <1>25 DEF LandDelete
<1>26. CASE QdrantCrash
  BY <1>26 DEF QdrantCrash
<1>27. CASE UNCHANGED vars
  BY <1>27 DEF vars
<1> QED
  BY <1>1, <1>2, <1>3, <1>4, <1>5, <1>6, <1>7, <1>8, <1>9, <1>10, <1>11, <1>12, <1>13,
     <1>14, <1>15, <1>16, <1>17, <1>18, <1>19, <1>20, <1>21, <1>22, <1>23, <1>24, <1>25,
     <1>26, <1>27 DEF Next, TaskStep

\* A task that reports success leaves a complete document.
THEOREM SuccessComplete == Spec => []SuccessMeansComplete
<1>1. Init => ResultInv
  BY DEF Init, ResultInv
<1>2. ResultInv => SuccessMeansComplete
  BY DEF ResultInv, SuccessMeansComplete
<1> QED
  BY <1>1, <1>2, ResultStep, TypeCorrect, UploadProtocol, PTL DEF Spec

-----------------------------------------------------------------------------
(* The pipeline implements the abstract store.                             *)

\* Mishaps are never forgotten.
LEMMA MishapsStay ==
  ASSUME TypeOK, [Next]_vars, NEW c \in Docs PROVE mishap[c] \subseteq mishap'[c]
<1> USE ConstantTypes DEF TypeOK, Uploading, Running, Mishap, taskLocals,
        taskVars, pgVars, qdrantVars, Goto, Note, Fault, ResetLoop
<1>1. ASSUME NEW t \in Tasks, Submit(t) PROVE mishap[c] \subseteq mishap'[c]
  BY <1>1 DEF Submit
<1>2. ASSUME NEW t \in Tasks, Deliver(t) PROVE mishap[c] \subseteq mishap'[c]
  BY <1>2 DEF Deliver
<1>3. ASSUME NEW t \in Tasks, Prepared(t) PROVE mishap[c] \subseteq mishap'[c]
  BY <1>3 DEF Prepared
<1>4. ASSUME NEW t \in Tasks, RetryTransient(t) PROVE mishap[c] \subseteq mishap'[c]
  BY <1>4 DEF RetryTransient
<1>5. ASSUME NEW t \in Tasks, RetriesExhausted(t) PROVE mishap[c] \subseteq mishap'[c]
  BY <1>5 DEF RetriesExhausted
<1>6. ASSUME NEW t \in Tasks, Fail(t) PROVE mishap[c] \subseteq mishap'[c]
  BY <1>6 DEF Fail
<1>7. ASSUME NEW t \in Tasks, RecordDLQ(t) PROVE mishap[c] \subseteq mishap'[c]
  BY <1>7 DEF RecordDLQ
<1>8. ASSUME NEW t \in Tasks, Raise(t) PROVE mishap[c] \subseteq mishap'[c]
  BY <1>8 DEF Raise
<1>9. ASSUME NEW t \in Tasks, Return(t) PROVE mishap[c] \subseteq mishap'[c]
  BY <1>9 DEF Return
<1>10. ASSUME NEW t \in Tasks, SkipComplete(t) PROVE mishap[c] \subseteq mishap'[c]
  BY <1>10 DEF SkipComplete
<1>11. ASSUME NEW t \in Tasks, ReadStatus(t) PROVE mishap[c] \subseteq mishap'[c]
  BY <1>11 DEF ReadStatus, NoteRace
<1>12. ASSUME NEW t \in Tasks, Cleanup(t) PROVE mishap[c] \subseteq mishap'[c]
  BY <1>12 DEF Cleanup
<1>13. ASSUME NEW t \in Tasks, CleanupFails(t) PROVE mishap[c] \subseteq mishap'[c]
  BY <1>13 DEF CleanupFails
<1>14. ASSUME NEW t \in Tasks, Claim(t) PROVE mishap[c] \subseteq mishap'[c]
  BY <1>14 DEF Claim
<1>15. ASSUME NEW t \in Tasks, StoreParents(t) PROVE mishap[c] \subseteq mishap'[c]
  BY <1>15 DEF StoreParents
<1>16. ASSUME NEW t \in Tasks, UpsertAck(t) PROVE mishap[c] \subseteq mishap'[c]
  BY <1>16 DEF UpsertAck
<1>17. ASSUME NEW t \in Tasks, UpsertRetry(t) PROVE mishap[c] \subseteq mishap'[c]
  BY <1>17 DEF UpsertRetry, MayBeInFlight
<1>18. ASSUME NEW t \in Tasks, UpsertFails(t) PROVE mishap[c] \subseteq mishap'[c]
  BY <1>18 DEF UpsertFails, MayBeInFlight
<1>19. ASSUME NEW t \in Tasks, MarkComplete(t) PROVE mishap[c] \subseteq mishap'[c]
  BY <1>19 DEF MarkComplete
<1>20. ASSUME NEW t \in Tasks, WorkerLost(t) PROVE mishap[c] \subseteq mishap'[c]
  BY <1>20 DEF WorkerLost
<1>21. ASSUME NEW t \in Tasks, HardLimit(t) PROVE mishap[c] \subseteq mishap'[c]
  BY <1>21 DEF HardLimit
<1>22. ASSUME NEW t \in Tasks, NEW u \in Tasks, RetryThenLost(t, u) PROVE mishap[c] \subseteq mishap'[c]
  BY <1>22 DEF RetryThenLost
<1>23. ASSUME NEW p \in acked, Index(p) PROVE mishap[c] \subseteq mishap'[c]
  BY <1>23 DEF Index
<1>24. ASSUME NEW p \in inflight, Land(p) PROVE mishap[c] \subseteq mishap'[c]
  BY <1>24 DEF Land, DocOf, Point
<1>25. ASSUME NEW d \in Docs, LandDelete(d) PROVE mishap[c] \subseteq mishap'[c]
  BY <1>25 DEF LandDelete
<1>26. CASE QdrantCrash
  BY <1>26 DEF QdrantCrash
<1>27. CASE UNCHANGED vars
  BY <1>27 DEF vars
<1> QED
  BY <1>1, <1>2, <1>3, <1>4, <1>5, <1>6, <1>7, <1>8, <1>9, <1>10, <1>11, <1>12, <1>13,
     <1>14, <1>15, <1>16, <1>17, <1>18, <1>19, <1>20, <1>21, <1>22, <1>23, <1>24, <1>25,
     <1>26, <1>27 DEF Next, TaskStep

\* The abstract step of one document, in the terms of Ingestion.
LEMMA StepOfDocument ==
  ASSUME NEW d \in Docs,
         \/ status'[d] = status[d] /\ AcceptedOf(d)' = AcceptedOf(d)
         \/ /\ status[d] # "complete" /\ status'[d] = "processing"
            /\ AcceptedOf(d) = {} /\ AcceptedOf(d)' = {}
         \/ /\ status[d] = "processing" /\ status'[d] = "processing"
            /\ \/ AcceptedOf(d)' = {}
               \/ /\ AcceptedOf(d) \subseteq AcceptedOf(d)'
                  /\ \A p, q \in AcceptedOf(d)' : RunOf(p) = RunOf(q)
         \/ /\ status[d] = "processing" /\ status'[d] = "complete"
            /\ AcceptedOf(d)' = AcceptedOf(d)
            /\ AcceptedOf(d) # {}
            /\ \A p \in AcceptedOf(d) : AcceptedOf(d) = BatchesOf(p)
  PROVE  Store!DocStep(d)
<1>1. Content[d] = AcceptedOf(d) /\ Content'[d] = AcceptedOf(d)'
  BY DEF Content
<1>2. \A p, q : RunOf(p) = RunOf(q) => BatchesOf(p) = BatchesOf(q)
  BY DEF RunOf, BatchesOf
<1> QED
  BY <1>1, <1>2 DEF Store!DocStep, Store!Same, Store!Open, Store!Discard, Store!Add,
     Store!Publish

\* Every step is an abstract step of each document still free of mishap.
LEMMA StepImplements ==
  ASSUME TypeOK, UploadInv, [Next]_vars, NEW d \in Docs, mishap'[d] = {}
  PROVE  Store!DocStep(d)
<1>0. mishap[d] = {}
  BY MishapsStay
<1> USE <1>0, ConstantTypes DEF TypeOK, Uploading, Running, Mishap, taskLocals,
        taskVars, pgVars, qdrantVars, Goto, Note, Fault, ResetLoop
<1>1. ASSUME NEW t \in Tasks, Submit(t) PROVE Store!DocStep(d)
  <2>1. status'[d] = status[d] /\ AcceptedOf(d)' = AcceptedOf(d)
    BY <1>1 DEF Submit, AcceptedOf, Accepted
  <2> QED BY <2>1, StepOfDocument
<1>2. ASSUME NEW t \in Tasks, Deliver(t) PROVE Store!DocStep(d)
  <2>1. status'[d] = status[d] /\ AcceptedOf(d)' = AcceptedOf(d)
    BY <1>2 DEF Deliver, AcceptedOf, Accepted
  <2> QED BY <2>1, StepOfDocument
<1>3. ASSUME NEW t \in Tasks, Prepared(t) PROVE Store!DocStep(d)
  <2>1. status'[d] = status[d] /\ AcceptedOf(d)' = AcceptedOf(d)
    BY <1>3 DEF Prepared, AcceptedOf, Accepted
  <2> QED BY <2>1, StepOfDocument
<1>4. ASSUME NEW t \in Tasks, RetryTransient(t) PROVE Store!DocStep(d)
  <2>1. status'[d] = status[d] /\ AcceptedOf(d)' = AcceptedOf(d)
    BY <1>4 DEF RetryTransient, AcceptedOf, Accepted
  <2> QED BY <2>1, StepOfDocument
<1>5. ASSUME NEW t \in Tasks, RetriesExhausted(t) PROVE Store!DocStep(d)
  <2>1. status'[d] = status[d] /\ AcceptedOf(d)' = AcceptedOf(d)
    BY <1>5 DEF RetriesExhausted, AcceptedOf, Accepted
  <2> QED BY <2>1, StepOfDocument
<1>6. ASSUME NEW t \in Tasks, Fail(t) PROVE Store!DocStep(d)
  <2>1. status'[d] = status[d] /\ AcceptedOf(d)' = AcceptedOf(d)
    BY <1>6 DEF Fail, AcceptedOf, Accepted
  <2> QED BY <2>1, StepOfDocument
<1>7. ASSUME NEW t \in Tasks, RecordDLQ(t) PROVE Store!DocStep(d)
  <2>1. status'[d] = status[d] /\ AcceptedOf(d)' = AcceptedOf(d)
    BY <1>7 DEF RecordDLQ, AcceptedOf, Accepted
  <2> QED BY <2>1, StepOfDocument
<1>8. ASSUME NEW t \in Tasks, Raise(t) PROVE Store!DocStep(d)
  <2>1. status'[d] = status[d] /\ AcceptedOf(d)' = AcceptedOf(d)
    BY <1>8 DEF Raise, AcceptedOf, Accepted
  <2> QED BY <2>1, StepOfDocument
<1>9. ASSUME NEW t \in Tasks, Return(t) PROVE Store!DocStep(d)
  <2>1. status'[d] = status[d] /\ AcceptedOf(d)' = AcceptedOf(d)
    BY <1>9 DEF Return, AcceptedOf, Accepted
  <2> QED BY <2>1, StepOfDocument
<1>10. ASSUME NEW t \in Tasks, SkipComplete(t) PROVE Store!DocStep(d)
  <2>1. status'[d] = status[d] /\ AcceptedOf(d)' = AcceptedOf(d)
    BY <1>10 DEF SkipComplete, AcceptedOf, Accepted
  <2> QED BY <2>1, StepOfDocument
<1>11. ASSUME NEW t \in Tasks, ReadStatus(t) PROVE Store!DocStep(d)
  <2>1. status'[d] = status[d] /\ AcceptedOf(d)' = AcceptedOf(d)
    BY <1>11 DEF ReadStatus, NoteRace, AcceptedOf, Accepted
  <2> QED BY <2>1, StepOfDocument
<1>12. ASSUME NEW t \in Tasks, Cleanup(t) PROVE Store!DocStep(d)
  <2>1. CASE d = TaskDoc[t]
    <3>1. status[d] = "processing" /\ status'[d] = "processing"
      BY <1>12, <2>1 DEF Cleanup, StatusOfUploader, UploadInv, Free
    <3>2. AcceptedOf(d)' = {}
      BY <1>12, <2>1 DEF Cleanup, AcceptedOf, Accepted, NotOf
    <3> QED BY <3>1, <3>2, StepOfDocument
  <2>2. CASE d # TaskDoc[t]
    <3>1. status'[d] = status[d] /\ AcceptedOf(d)' = AcceptedOf(d)
      BY <1>12, <2>2 DEF Cleanup, AcceptedOf, Accepted, NotOf
    <3> QED BY <3>1, StepOfDocument
  <2> QED BY <2>1, <2>2
<1>13. ASSUME NEW t \in Tasks, CleanupFails(t) PROVE Store!DocStep(d)
  <2>1. status'[d] = status[d] /\ AcceptedOf(d)' = AcceptedOf(d)
    BY <1>13 DEF CleanupFails, AcceptedOf, Accepted
  <2> QED BY <2>1, StepOfDocument
<1>14. ASSUME NEW t \in Tasks, Claim(t) PROVE Store!DocStep(d)
  <2>1. AcceptedOf(d)' = AcceptedOf(d)
    BY <1>14 DEF Claim, AcceptedOf, Accepted
  <2>2. CASE d = TaskDoc[t]
    <3>1. /\ status[d] # "complete" /\ status'[d] = "processing"
          /\ AcceptedOf(d) = {}
      BY <1>14, <2>2 DEF Claim, StatusOfUploader, ContentOfUploader, UploadInv, Free
    <3> QED BY <2>1, <3>1, StepOfDocument
  <2>3. CASE d # TaskDoc[t]
    <3>1. status'[d] = status[d]
      BY <1>14, <2>3 DEF Claim
    <3> QED BY <2>1, <3>1, StepOfDocument
  <2> QED BY <2>2, <2>3
<1>15. ASSUME NEW t \in Tasks, StoreParents(t) PROVE Store!DocStep(d)
  <2>1. status'[d] = status[d] /\ AcceptedOf(d)' = AcceptedOf(d)
    BY <1>15 DEF StoreParents, AcceptedOf, Accepted
  <2> QED BY <2>1, StepOfDocument
<1>16. ASSUME NEW t \in Tasks, UpsertAck(t) PROVE Store!DocStep(d)
  <2>1. Accepted' = Accepted \cup {ThisBatch(t)} /\ UNCHANGED <<status, mishap>>
    BY <1>16 DEF UpsertAck, Accepted
  <2>2. CASE d = TaskDoc[t]
    <3>1. status[d] = "processing" /\ status'[d] = "processing"
      BY <1>16, <2>1, <2>2 DEF UpsertAck, StatusOfUploader, UploadInv, Free
    <3>2. \A p \in AcceptedOf(d) : RunOf(p) = ThisRun(t)
      BY <1>16, <2>1, <2>2 DEF UpsertAck, ContentOfUploader, UploadInv, Free
    <3>3. AcceptedOf(d)' = AcceptedOf(d) \cup {ThisBatch(t)}
      BY <2>1, <2>2 DEF AcceptedOf, DocOf, ThisBatch
    <3>4. RunOf(ThisBatch(t)) = ThisRun(t)
      BY DEF RunOf, ThisBatch, ThisRun
    <3>5. \A p, q \in AcceptedOf(d)' : RunOf(p) = RunOf(q)
      BY <3>2, <3>3, <3>4
    <3> QED BY <3>1, <3>3, <3>5, StepOfDocument
  <2>3. CASE d # TaskDoc[t]
    <3>1. AcceptedOf(d)' = AcceptedOf(d)
      BY <2>1, <2>3 DEF AcceptedOf, DocOf, ThisBatch
    <3> QED BY <2>1, <3>1, StepOfDocument
  <2> QED BY <2>2, <2>3
<1>17. ASSUME NEW t \in Tasks, UpsertRetry(t) PROVE Store!DocStep(d)
  <2>1. status'[d] = status[d] /\ AcceptedOf(d)' = AcceptedOf(d)
    BY <1>17 DEF UpsertRetry, MayBeInFlight, AcceptedOf, Accepted
  <2> QED BY <2>1, StepOfDocument
<1>18. ASSUME NEW t \in Tasks, UpsertFails(t) PROVE Store!DocStep(d)
  <2>1. status'[d] = status[d] /\ AcceptedOf(d)' = AcceptedOf(d)
    BY <1>18 DEF UpsertFails, MayBeInFlight, AcceptedOf, Accepted
  <2> QED BY <2>1, StepOfDocument
<1>19. ASSUME NEW t \in Tasks, MarkComplete(t) PROVE Store!DocStep(d)
  <2>1. AcceptedOf(d)' = AcceptedOf(d) /\ mishap' = mishap
    BY <1>19 DEF MarkComplete, AcceptedOf, Accepted
  <2>2. CASE d = TaskDoc[t]
    <3>1. status[d] = "processing" /\ status'[d] = "complete"
      BY <1>19, <2>1, <2>2 DEF MarkComplete, StatusOfUploader, UploadInv, Free
    <3>2. \A p \in AcceptedOf(d) : RunOf(p) = ThisRun(t)
      BY <1>19, <2>1, <2>2 DEF MarkComplete, ContentOfUploader, UploadInv, Free
    <3>3. BatchesOf(ThisRun(t)) \subseteq Accepted
      BY <1>19, <2>1, <2>2 DEF MarkComplete, BatchesBehind, UploadInv, Free
    <3>4. BatchesOf(ThisRun(t)) \subseteq AcceptedOf(d)
      BY <2>2, <3>3 DEF AcceptedOf, BatchesOf, ThisRun, DocOf
    <3>5. ASSUME NEW p \in AcceptedOf(d) PROVE p \in BatchesOf(ThisRun(t))
      <4>1. /\ p = [task |-> p.task, exec |-> p.exec, batch |-> p.batch]
            /\ p.batch \in 1..Batches
        BY DEF AcceptedOf, Accepted, Point
      <4>2. p.task = t /\ p.exec = exec[t]
        BY <3>2 DEF RunOf, ThisRun
      <4> QED BY <4>1, <4>2 DEF BatchesOf, ThisRun
    <3>6. AcceptedOf(d) = BatchesOf(ThisRun(t))
      BY <3>4, <3>5
    <3>7. [task |-> t, exec |-> exec[t], batch |-> 1] \in BatchesOf(ThisRun(t))
      <4>1. 1 \in 1..Batches
        BY ConstantsAssumption
      <4>2. ThisRun(t).task = t /\ ThisRun(t).exec = exec[t]
        BY DEF ThisRun
      <4> QED BY ONLY <4>1, <4>2 DEF BatchesOf
    <3>8. \A p \in AcceptedOf(d) : BatchesOf(p) = BatchesOf(ThisRun(t))
      BY <3>2 DEF BatchesOf, RunOf, ThisRun
    <3> QED BY <2>1, <3>1, <3>6, <3>7, <3>8, StepOfDocument
  <2>3. CASE d # TaskDoc[t]
    <3>1. status'[d] = status[d]
      BY <1>19, <2>3 DEF MarkComplete
    <3> QED BY <2>1, <3>1, StepOfDocument
  <2> QED BY <2>2, <2>3
<1>20. ASSUME NEW t \in Tasks, WorkerLost(t) PROVE Store!DocStep(d)
  <2>1. status'[d] = status[d] /\ AcceptedOf(d)' = AcceptedOf(d)
    BY <1>20 DEF WorkerLost, AcceptedOf, Accepted
  <2> QED BY <2>1, StepOfDocument
<1>21. ASSUME NEW t \in Tasks, HardLimit(t) PROVE Store!DocStep(d)
  <2>1. status'[d] = status[d] /\ AcceptedOf(d)' = AcceptedOf(d)
    BY <1>21 DEF HardLimit, AcceptedOf, Accepted
  <2> QED BY <2>1, StepOfDocument
<1>22. ASSUME NEW t \in Tasks, NEW u \in Tasks, RetryThenLost(t, u) PROVE Store!DocStep(d)
  <2>1. status'[d] = status[d] /\ AcceptedOf(d)' = AcceptedOf(d)
    BY <1>22 DEF RetryThenLost, AcceptedOf, Accepted
  <2> QED BY <2>1, StepOfDocument
<1>23. ASSUME NEW p \in acked, Index(p) PROVE Store!DocStep(d)
  <2>1. status'[d] = status[d] /\ AcceptedOf(d)' = AcceptedOf(d)
    BY <1>23 DEF Index, AcceptedOf, Accepted
  <2> QED BY <2>1, StepOfDocument
<1>24. ASSUME NEW p \in inflight, Land(p) PROVE Store!DocStep(d)
  <2>1. Accepted' = Accepted \cup {p} /\ UNCHANGED <<status, pc, exec>>
    BY <1>24 DEF Land, Accepted, taskVars, taskLocals, pgVars
  <2>2. CASE p \in Accepted \/ DocOf(p) # d
    <3>1. AcceptedOf(d)' = AcceptedOf(d)
      BY <2>1, <2>2 DEF AcceptedOf
    <3> QED BY <2>1, <3>1, StepOfDocument
  <2>3. CASE p \notin Accepted /\ DocOf(p) = d
    <3> DEFINE t == p.task
    <3>1. t \in Tasks /\ TaskDoc[t] = d
      BY <2>3 DEF Point, DocOf
    <3>2. pc[t] = "upload" /\ exec[t] = p.exec
      <4> SUFFICES ASSUME ~(pc[t] = "upload" /\ exec[t] = p.exec) PROVE FALSE
        OBVIOUS
      <4>1. mishap' = [mishap EXCEPT ![d] = @ \cup {"late"}]
        BY <1>24, <2>3 DEF Land, Note
      <4> QED BY <4>1
    <3>3. status[d] = "processing"
      BY <3>1, <3>2 DEF StatusOfUploader, UploadInv, Free
    <3>4. \A q \in AcceptedOf(d) : RunOf(q) = ThisRun(t)
      BY <3>1, <3>2 DEF ContentOfUploader, UploadInv, Free
    <3>5. RunOf(p) = ThisRun(t)
      BY <3>2 DEF RunOf, ThisRun
    <3>6. AcceptedOf(d)' = AcceptedOf(d) \cup {p}
      BY <2>1, <2>3 DEF AcceptedOf
    <3>7. \A q, r \in AcceptedOf(d)' : RunOf(q) = RunOf(r)
      BY <3>4, <3>5, <3>6
    <3> QED BY <2>1, <3>3, <3>6, <3>7, StepOfDocument
  <2> QED BY <2>2, <2>3
<1>25. ASSUME NEW e \in Docs, LandDelete(e) PROVE Store!DocStep(d)
  <2>1. status'[d] = status[d] /\ Accepted' = NotOf(e, Accepted)
    BY <1>25 DEF LandDelete, pgVars, Accepted, NotOf
  <2>2. AcceptedOf(e) = {} \/ e # d
    <3> SUFFICES ASSUME AcceptedOf(e) # {}, e = d PROVE FALSE
      OBVIOUS
    <3>1. mishap' = [mishap EXCEPT ![d] = @ \cup {"lateDelete"}]
      BY <1>25 DEF LandDelete, Note
    <3> QED BY <3>1
  <2>3. AcceptedOf(d)' = AcceptedOf(d)
    BY <2>1, <2>2 DEF AcceptedOf, NotOf
  <2> QED BY <2>1, <2>3, StepOfDocument
<1>26. CASE QdrantCrash
  <2>1. status'[d] = status[d] /\ AcceptedOf(d)' = AcceptedOf(d)
    BY <1>26 DEF QdrantCrash, AcceptedOf, Accepted
  <2> QED BY <2>1, StepOfDocument
<1>27. CASE UNCHANGED vars
  <2>1. status'[d] = status[d] /\ AcceptedOf(d)' = AcceptedOf(d)
    BY <1>27 DEF vars, AcceptedOf, Accepted
  <2> QED BY <2>1, StepOfDocument
<1> QED
  BY <1>1, <1>2, <1>3, <1>4, <1>5, <1>6, <1>7, <1>8, <1>9, <1>10, <1>11, <1>12, <1>13,
     <1>14, <1>15, <1>16, <1>17, <1>18, <1>19, <1>20, <1>21, <1>22, <1>23, <1>24, <1>25,
     <1>26, <1>27 DEF Next, TaskStep

\* The pipeline implements the abstract document store.
THEOREM Implements == Spec => ImplementsStore
<1>1. Init => Store!Init
  BY DEF Init, Store!Init, Content, Broken, AcceptedOf, Accepted
<1>2. TypeOK /\ TypeOK' /\ UploadInv /\ [Next]_vars => [Store!Next]_(Store!vars)
  <2> SUFFICES ASSUME TypeOK, TypeOK', UploadInv, [Next]_vars PROVE Store!Next
    OBVIOUS
  <2>1. Broken \subseteq Broken'
    BY MishapsStay DEF Broken
  <2>2. \A d \in Docs : d \in Broken' \/ Store!DocStep(d)
    BY StepImplements DEF Broken
  <2> QED BY <2>1, <2>2 DEF Store!Next
<1> QED
  BY <1>1, <1>2, TypeCorrect, UploadProtocol, PTL DEF Spec, ImplementsStore, Store!Spec

=============================================================================
