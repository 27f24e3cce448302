------------------------------ MODULE Ingestion ------------------------------
(***************************************************************************)
(* The ingestion pipeline: submit_document and the Celery task             *)
(* ingest_document of ingestion/orchestrator.py, and the four-phase writer *)
(* upload_document of ingestion/qdrant_uploader.py, over the two stores    *)
(* they keep consistent: PostgreSQL (ingestion_status, parent_chunks,      *)
(* failed_documents) and Qdrant (the points).                              *)
(*                                                                         *)
(* The actor is a task: one message on the "ingestion" queue and the       *)
(* execution a worker gives it.  A document is its file hash, the key of   *)
(* every table.  Each delivery of a task chunks the document afresh, with  *)
(* fresh UUIDs for parents and points, so what it writes carries the       *)
(* delivery (task, exec) that wrote it.                                    *)
(***************************************************************************)
EXTENDS Naturals, FiniteSets

CONSTANTS
  Docs,            \* file hashes
  Tasks,           \* queue messages; two tasks of one document are two submissions
  TaskDoc,         \* the document of each task: [Tasks -> Docs]
  Hierarchical,    \* the documents whose chunks have parents
  Batches,         \* number of upsert batches of a document
  MaxRetries,      \* Celery max_retries of ingest_document
  UpsertAttempts,  \* _MAX_RETRIES of the uploader
  FaultKinds,      \* the faults the environment may inject
  MaxFaults        \* bound: how many it injects in one behaviour

ASSUME ConstantsAssumption ==
  /\ TaskDoc \in [Tasks -> Docs]
  /\ Hierarchical \subseteq Docs
  /\ Batches \in Nat \ {0}
  /\ MaxRetries \in Nat
  /\ UpsertAttempts \in Nat \ {0}
  /\ MaxFaults \in Nat

VARIABLES
  \* the tasks
  pc,         \* where the execution of each task is
  retries,    \* self.request.retries, carried by the message
  exec,       \* deliveries of the task so far
  next,       \* next batch of the upload loop
  attempt,    \* failed attempts at that batch
  \* PostgreSQL
  status,     \* ingestion_status.status per file hash
  parents,    \* the deliveries whose parent_chunks rows are committed
  dlq,        \* tasks with a row in failed_documents
  \* Qdrant
  points,     \* indexed points, one per (delivery, batch)
  acked,      \* upserts acknowledged with wait=False and not indexed yet
  inflight,   \* upserts whose client gave up and which may still be applied
  lateDelete, \* documents with a cleanup delete that may still be applied
  \* observation
  mishap,     \* what went wrong for each document
  faults      \* faults injected so far

taskLocals == <<retries, exec, next, attempt>>
taskVars == <<pc, taskLocals>>
pgVars == <<status, parents, dlq>>
qdrantVars == <<points, acked, inflight, lateDelete>>
vars == <<taskVars, pgVars, qdrantVars, mishap, faults>>

\* Inside upload_document, from the status read to the final status write.
Uploading == {"cleanup", "claim", "parents", "upload", "finish"}
\* A worker holds the task.
Running == {"pipeline", "check", "return", "failing", "raising"} \cup Uploading
Ended == {"succeeded", "failed"}

Run == [task : Tasks, exec : Nat]
Point == [task : Tasks, exec : Nat, batch : 1..Batches]
Mishap == {"raced", "dirty", "late", "lateDelete", "lost"}

DocOf(p) == TaskDoc[p.task]
RunOf(p) == [task |-> p.task, exec |-> p.exec]
ThisRun(t) == [task |-> t, exec |-> exec[t]]
ThisBatch(t) == [task |-> t, exec |-> exec[t], batch |-> next[t]]
\* Everything Qdrant has accepted, searchable or not yet.
Accepted == points \cup acked
AcceptedOf(d) == {p \in Accepted : DocOf(p) = d}
\* Mutant: a delete without the file_hash filter.
NotOfNone(d, P) == {}
NotOf(d, P) == {p \in P : DocOf(p) # d}

Goto(t, l) == pc' = [pc EXCEPT ![t] = l]
Note(d, m) == mishap' = [mishap EXCEPT ![d] = @ \cup {m}]
\* The variables of the batch loop are local to it: set when it starts, and
\* forgotten when it is left.
ResetLoop(t) ==
  /\ next' = [next EXCEPT ![t] = 1]
  /\ attempt' = [attempt EXCEPT ![t] = 0]
Fault(k) == k \in FaultKinds /\ faults < MaxFaults /\ faults' = faults + 1

\* Another upload of the document is under way.
NoteRace(t) ==
  IF \E u \in Tasks \ {t} : TaskDoc[u] = TaskDoc[t] /\ pc[u] \in Uploading
  THEN Note(TaskDoc[t], "raced")
  ELSE UNCHANGED mishap

\* An upsert without an answer may still reach Qdrant.
MayBeInFlight(p) ==
  \/ UNCHANGED <<inflight, faults>>
  \/ Fault("late") /\ inflight' = inflight \cup {p}

Init ==
  /\ pc = [t \in Tasks |-> "idle"]
  /\ retries = [t \in Tasks |-> 0]
  /\ exec = [t \in Tasks |-> 0]
  /\ next = [t \in Tasks |-> 1]
  /\ attempt = [t \in Tasks |-> 0]
  /\ status = [d \in Docs |-> "none"]
  /\ parents = {} /\ dlq = {}
  /\ points = {} /\ acked = {} /\ inflight = {} /\ lateDelete = {}
  /\ mishap = [d \in Docs |-> {}]
  /\ faults = 0

-----------------------------------------------------------------------------
(* Mutants: plausible mistakes the properties below must catch.            *)

\* The retry bound is not tested.
RetryTransientUnbounded(t) ==
  /\ pc[t] = "pipeline"
  /\ Goto(t, "queued")
  /\ retries' = [retries EXCEPT ![t] = @ + 1]
  /\ UNCHANGED <<exec, next, attempt, pgVars, qdrantVars, mishap, faults>>

\* The message was acknowledged on receipt and dies with its worker.
WorkerLostAckedEarly(t) ==
  /\ pc[t] \in Running
  /\ Fault("crash")
  /\ Goto(t, "idle")
  /\ ResetLoop(t)
  /\ UNCHANGED <<retries, exec, pgVars, qdrantVars, mishap>>

\* Any status row counts as done.
SkipKnown(t) ==
  /\ pc[t] = "check"
  /\ status[TaskDoc[t]] # "none"
  /\ Goto(t, "return")
  /\ UNCHANGED <<taskLocals, pgVars, qdrantVars, mishap, faults>>

\* No cleanup of a crashed run.
ReadStatusNoCleanup(t) ==
  LET d == TaskDoc[t] IN
  /\ pc[t] = "check"
  /\ status[d] # "complete"
  /\ Goto(t, "claim")
  /\ NoteRace(t)
  /\ UNCHANGED <<taskLocals, pgVars, qdrantVars, faults>>

\* A complete document is taken up again.
ReadStatusReopens(t) ==
  LET d == TaskDoc[t] IN
  /\ pc[t] = "check"
  /\ Goto(t, IF status[d] = "none" THEN "claim" ELSE "cleanup")
  /\ NoteRace(t)
  /\ UNCHANGED <<taskLocals, pgVars, qdrantVars, faults>>

\* With wait=False the delete overtakes upserts not applied yet.
CleanupNoWait(t) ==
  LET d == TaskDoc[t] IN
  /\ pc[t] = "cleanup"
  /\ Goto(t, "claim")
  /\ points' = NotOf(d, points)
  /\ UNCHANGED <<taskLocals, pgVars, acked, inflight, lateDelete,
                 mishap, faults>>

\* The upload starts before the parents are stored.
ClaimThenUpload(t) ==
  /\ pc[t] = "claim"
  /\ Goto(t, "upload")
  /\ status' = [status EXCEPT ![TaskDoc[t]] = "processing"]
  /\ UNCHANGED <<taskLocals, parents, dlq, qdrantVars, mishap, faults>>

\* A batch that used up its attempts is logged and the run goes on.
UpsertFailsSilently(t) ==
  /\ pc[t] = "upload"
  /\ Goto(t, "finish")
  /\ ResetLoop(t)
  /\ MayBeInFlight(ThisBatch(t))
  /\ UNCHANGED <<retries, exec, pgVars, points, acked, lateDelete, mishap>>

-----------------------------------------------------------------------------
(* The Celery task around the upload.                                      *)

\* submit_document: queue unless the document is known to be complete; when
\* the status cannot be read the gate lets the document through.
Submit(t) ==
  /\ pc[t] = "idle"
  /\ \/ status[TaskDoc[t]] # "complete" /\ UNCHANGED faults
     \/ status[TaskDoc[t]] = "complete" /\ Fault("gate")
  /\ Goto(t, "queued")
  /\ UNCHANGED <<taskLocals, pgVars, qdrantVars, mishap>>

\* A worker takes the message and starts ingest_document.
Deliver(t) ==
  /\ pc[t] = "queued"
  /\ Goto(t, "pipeline")
  /\ exec' = [exec EXCEPT ![t] = @ + 1]
  /\ UNCHANGED <<retries, next, attempt, pgVars, qdrantVars, mishap, faults>>

\* Parsing, chunking and embedding succeed; the upload begins.
Prepared(t) ==
  /\ pc[t] = "pipeline"
  /\ Goto(t, "check")
  /\ UNCHANGED <<taskLocals, pgVars, qdrantVars, mishap, faults>>

\* A transient error with retries left: self.retry queues the message again.
RetryTransient(t) ==
  /\ pc[t] = "pipeline"
  /\ retries[t] < MaxRetries
  /\ Goto(t, "queued")
  /\ retries' = [retries EXCEPT ![t] = @ + 1]
  /\ UNCHANGED <<exec, next, attempt, pgVars, qdrantVars, mishap, faults>>

\* The same, and the worker dies between publishing the retry and
\* acknowledging this delivery: both messages are now on the queue.
RetryThenLost(t, u) ==
  /\ pc[t] = "pipeline" /\ pc[u] = "idle"
  /\ TaskDoc[u] = TaskDoc[t]
  /\ retries[t] < MaxRetries
  /\ Fault("crash")
  /\ pc' = [pc EXCEPT ![t] = "queued", ![u] = "queued"]
  /\ retries' = [retries EXCEPT ![u] = retries[t] + 1]
  /\ UNCHANGED <<exec, next, attempt, pgVars, qdrantVars, mishap>>

\* A transient error on the last attempt: self.retry(exc=exc) raises exc
\* itself, which the handler for MaxRetriesExceededError does not catch.
RetriesExhausted(t) ==
  /\ pc[t] = "pipeline"
  /\ retries[t] = MaxRetries
  /\ Goto(t, "failed")
  /\ UNCHANGED <<taskLocals, pgVars, qdrantVars, mishap, faults>>

\* A non-transient exception, or the soft time limit.  _delete_qdrant_by_hash
\* catches every exception, so none leaves "cleanup"; the upload loop has
\* UpsertFails.
Fail(t) ==
  /\ pc[t] \in Running \ {"cleanup", "upload", "failing", "raising"}
  /\ Goto(t, "failing")
  /\ UNCHANGED <<taskLocals, pgVars, qdrantVars, mishap, faults>>

\* _record_dlq: its own failure is logged and swallowed.
RecordDLQ(t) ==
  /\ pc[t] = "failing"
  /\ Goto(t, "raising")
  /\ \/ dlq' = dlq \cup {t} /\ UNCHANGED faults
     \/ Fault("dlq") /\ UNCHANGED dlq
  /\ UNCHANGED <<taskLocals, status, parents, qdrantVars, mishap>>

\* The handler re-raises and Celery acknowledges the failed task.
Raise(t) ==
  /\ pc[t] = "raising"
  /\ Goto(t, "failed")
  /\ UNCHANGED <<taskLocals, pgVars, qdrantVars, mishap, faults>>

\* The task returns its result and is acknowledged.
Return(t) ==
  /\ pc[t] = "return"
  /\ Goto(t, "succeeded")
  /\ UNCHANGED <<taskLocals, pgVars, qdrantVars, mishap, faults>>

\* The worker dies before the acknowledgement: acks_late and
\* reject_on_worker_lost put the message back, retries unchanged.
WorkerLost(t) ==
  /\ pc[t] \in Running
  /\ Fault("crash")
  /\ Goto(t, "queued")
  /\ ResetLoop(t)
  /\ UNCHANGED <<retries, exec, pgVars, qdrantVars, mishap>>

\* The hard time limit kills the execution; Celery acknowledges the message
\* and no handler runs.
HardLimit(t) ==
  /\ pc[t] \in Running
  /\ Fault("kill")
  /\ Goto(t, "failed")
  /\ ResetLoop(t)
  /\ UNCHANGED <<retries, exec, pgVars, qdrantVars, mishap>>

-----------------------------------------------------------------------------
(* upload_document.                                                        *)

\* Phase 1, status = complete: skip.
SkipComplete(t) ==
  /\ pc[t] = "check"
  /\ status[TaskDoc[t]] = "complete"
  /\ Goto(t, "return")
  /\ UNCHANGED <<taskLocals, pgVars, qdrantVars, mishap, faults>>

\* Phase 1, otherwise: "processing" is read as a crashed run to clean up.
ReadStatus(t) ==
  LET d == TaskDoc[t] IN
  /\ pc[t] = "check"
  /\ status[d] # "complete"
  /\ Goto(t, IF status[d] = "processing" THEN "cleanup" ELSE "claim")
  /\ NoteRace(t)
  /\ UNCHANGED <<taskLocals, pgVars, qdrantVars, faults>>

\* _delete_qdrant_by_hash, wait=True: applied after every logged upsert.
Cleanup(t) ==
  LET d == TaskDoc[t] IN
  /\ pc[t] = "cleanup"
  /\ Goto(t, "claim")
  /\ points' = NotOf(d, points)
  /\ acked' = NotOf(d, acked)
  /\ UNCHANGED <<taskLocals, pgVars, inflight, lateDelete,
                 mishap, faults>>

\* The delete fails and the run goes on.  The request may be refused, or
\* still be on its way when the client gives up.
CleanupFails(t) ==
  LET d == TaskDoc[t] IN
  /\ pc[t] = "cleanup"
  /\ Goto(t, "claim")
  /\ \/ Fault("cleanup") /\ UNCHANGED lateDelete
     \/ Fault("lateDelete") /\ lateDelete' = lateDelete \cup {d}
  /\ IF AcceptedOf(d) # {} THEN Note(d, "dirty") ELSE UNCHANGED mishap
  /\ UNCHANGED <<taskLocals, pgVars, points, acked, inflight>>

\* Phase 1 commits: status = processing.
Claim(t) ==
  /\ pc[t] = "claim"
  /\ Goto(t, "parents")
  /\ status' = [status EXCEPT ![TaskDoc[t]] = "processing"]
  /\ UNCHANGED <<taskLocals, parents, dlq, qdrantVars, mishap, faults>>

\* Phase 2 commits the parent rows; _build_points then starts the batch loop.
StoreParents(t) ==
  /\ pc[t] = "parents"
  /\ Goto(t, "upload")
  /\ parents' = IF TaskDoc[t] \in Hierarchical
                THEN parents \cup {ThisRun(t)} ELSE parents
  /\ ResetLoop(t)
  /\ UNCHANGED <<retries, exec, status, dlq, qdrantVars, mishap, faults>>

\* Phase 3: a batch is acknowledged; after the last one the loop ends.
UpsertAck(t) ==
  /\ pc[t] = "upload"
  /\ acked' = IF ThisBatch(t) \in points THEN acked ELSE acked \cup {ThisBatch(t)}
  /\ IF next[t] = Batches
     THEN Goto(t, "finish") /\ ResetLoop(t)
     ELSE /\ next' = [next EXCEPT ![t] = @ + 1]
          /\ attempt' = [attempt EXCEPT ![t] = 0]
          /\ UNCHANGED pc
  /\ UNCHANGED <<retries, exec, pgVars, points, inflight, lateDelete, mishap, faults>>

\* A network error, timeout or 5xx with attempts left: the same points again.
UpsertRetry(t) ==
  /\ pc[t] = "upload"
  /\ attempt[t] < UpsertAttempts - 1
  /\ attempt' = [attempt EXCEPT ![t] = @ + 1]
  /\ MayBeInFlight(ThisBatch(t))
  /\ UNCHANGED <<pc, retries, exec, next, pgVars, points, acked, lateDelete, mishap>>

\* The last attempt fails, or a 4xx, an exception the loop does not catch or
\* the soft limit ends it earlier.
UpsertFails(t) ==
  /\ pc[t] = "upload"
  /\ Goto(t, "failing")
  /\ ResetLoop(t)
  /\ MayBeInFlight(ThisBatch(t))
  /\ UNCHANGED <<retries, exec, pgVars, points, acked, lateDelete, mishap>>

\* Phase 4 commits: status = complete.
MarkComplete(t) ==
  /\ pc[t] = "finish"
  /\ Goto(t, "return")
  /\ status' = [status EXCEPT ![TaskDoc[t]] = "complete"]
  /\ UNCHANGED <<taskLocals, parents, dlq, qdrantVars, mishap, faults>>

-----------------------------------------------------------------------------
(* Qdrant, as the uploader relies on it.                                   *)

\* An acknowledged upsert becomes searchable.
Index(p) ==
  /\ p \in acked
  /\ acked' = acked \ {p}
  /\ points' = points \cup {p}
  /\ UNCHANGED <<taskVars, pgVars, inflight, lateDelete, mishap, faults>>

\* An upsert its client gave up on is applied after all.
Land(p) ==
  /\ p \in inflight
  /\ inflight' = inflight \ {p}
  /\ points' = points \cup {p}
  /\ acked' = acked \ {p}
  /\ IF \/ p \in Accepted
        \/ pc[p.task] = "upload" /\ exec[p.task] = p.exec
     THEN UNCHANGED mishap
     ELSE Note(DocOf(p), "late")
  /\ UNCHANGED <<taskVars, pgVars, lateDelete, faults>>

\* So is a delete.
LandDelete(d) ==
  /\ d \in lateDelete
  /\ lateDelete' = lateDelete \ {d}
  /\ points' = NotOf(d, points)
  /\ acked' = NotOf(d, acked)
  /\ IF AcceptedOf(d) # {} THEN Note(d, "lateDelete") ELSE UNCHANGED mishap
  /\ UNCHANGED <<taskVars, pgVars, inflight, faults>>

\* A crash between acknowledgement and index commit loses the write.
QdrantCrash ==
  /\ acked # {}
  /\ Fault("lose")
  /\ acked' = {}
  /\ mishap' = [d \in Docs |-> IF \E p \in acked : DocOf(p) = d
                               THEN mishap[d] \cup {"lost"} ELSE mishap[d]]
  /\ UNCHANGED <<taskVars, pgVars, points, inflight, lateDelete>>

-----------------------------------------------------------------------------
\* What a live worker does with its task, faults apart.
TaskStep(t) ==
  \/ Deliver(t) \/ Prepared(t) \/ RetryTransient(t) \/ RetriesExhausted(t)
  \/ Fail(t) \/ RecordDLQ(t) \/ Raise(t) \/ Return(t)
  \/ SkipComplete(t) \/ ReadStatus(t) \/ Cleanup(t) \/ CleanupFails(t)
  \/ Claim(t) \/ StoreParents(t)
  \/ UpsertAck(t) \/ UpsertRetry(t) \/ UpsertFails(t) \/ MarkComplete(t)

Next ==
  \/ \E t \in Tasks : Submit(t) \/ TaskStep(t) \/ WorkerLost(t) \/ HardLimit(t)
  \/ \E t, u \in Tasks : RetryThenLost(t, u)
  \/ \E p \in acked : Index(p)
  \/ \E p \in inflight : Land(p)
  \/ \E d \in Docs : LandDelete(d)
  \/ QdrantCrash

Spec == Init /\ [][Next]_vars

\* A worker that holds a task makes progress (the soft time limit sees to it)
\* and the queue is consumed; Qdrant indexes what it acknowledged.
Fairness ==
  /\ \A t \in Tasks : WF_vars(TaskStep(t))
  /\ WF_vars(\E p \in acked : Index(p))

FairSpec == Spec /\ Fairness

-----------------------------------------------------------------------------
TypeOK ==
  /\ pc \in [Tasks -> {"idle", "queued"} \cup Running \cup Ended]
  /\ retries \in [Tasks -> 0..MaxRetries]
  /\ exec \in [Tasks -> Nat]
  /\ next \in [Tasks -> 1..Batches]
  /\ attempt \in [Tasks -> 0..(UpsertAttempts - 1)]
  /\ status \in [Docs -> {"none", "processing", "complete"}]
  /\ parents \subseteq Run
  /\ dlq \subseteq Tasks
  /\ points \subseteq Point /\ acked \subseteq Point /\ inflight \subseteq Point
  /\ lateDelete \subseteq Docs
  /\ mishap \in [Docs -> SUBSET Mishap]
  /\ faults \in 0..MaxFaults

\* Phase 2 comes before phase 3 for a reason: whatever the interleaving of
\* runs, crashes and late requests, a child chunk that is in Qdrant or may
\* still get there has its parent rows in PostgreSQL.
ParentsBeforePoints ==
  \A p \in Accepted \cup inflight :
    DocOf(p) \in Hierarchical => RunOf(p) \in parents

BatchesOf(r) == {[task |-> r.task, exec |-> r.exec, batch |-> b] : b \in 1..Batches}

\* status = complete is the source of truth of the gate and of phase 1: unless
\* two uploads of the document overlapped, Qdrant lost an acknowledged write
\* or a timed-out delete was applied late, all batches of one run are there.
CompleteIsWhole ==
  \A d \in Docs :
    status[d] = "complete" /\ mishap[d] \cap {"raced", "lost", "lateDelete"} = {}
      => \E p \in AcceptedOf(d) : BatchesOf(p) \subseteq Accepted

\* "Four-phase design prevents duplicate data on partial failure": with
\* workers lost, tasks killed and uploads abandoned at any step, a complete
\* document on which none of the five mishaps fell holds one run only.
CompleteIsExact ==
  \A d \in Docs :
    status[d] = "complete" /\ mishap[d] = {}
      => \A p, q \in AcceptedOf(d) : RunOf(p) = RunOf(q)

\* A task reports success only for a document that is complete, also when
\* another task did the work.
SuccessMeansComplete ==
  \A t \in Tasks :
    pc[t] = "succeeded" /\ "raced" \notin mishap[TaskDoc[t]]
      => status[TaskDoc[t]] = "complete"

\* Once complete, a document is never reopened unless uploads overlapped.
CompleteIsPermanent ==
  [][\A d \in Docs : status[d] = "complete" /\ "raced" \notin mishap'[d]
                       => status'[d] = "complete"]_vars

\* Every queued message is worked off: retries are bounded, lost messages are
\* redelivered and the soft limit ends what hangs.
EveryTaskEnds == \A t \in Tasks : pc[t] = "queued" ~> pc[t] \in Ended

\* wait=False only delays: a complete document becomes searchable in full.
CompleteBecomesSearchable ==
  \A d \in Docs :
    status[d] = "complete"
      ~> \/ mishap[d] \cap {"raced", "lost", "lateDelete"} # {}
         \/ \E p \in points : DocOf(p) = d /\ BatchesOf(p) \subseteq points

-----------------------------------------------------------------------------
(* The inductive invariant behind these properties.  Each part holds of a  *)
(* document until the mishaps it names fall on it.                         *)

Free(d, M) == mishap[d] \cap M = {}

\* The runs that upload find their parents stored.
ParentsInv ==
  /\ ParentsBeforePoints
  /\ \A t \in Tasks :
       pc[t] = "upload" /\ TaskDoc[t] \in Hierarchical => ThisRun(t) \in parents

\* One upload at a time.
SoleUploader ==
  \A t, u \in Tasks :
    /\ TaskDoc[t] = TaskDoc[u] /\ Free(TaskDoc[t], {"raced"})
    /\ pc[t] \in Uploading /\ pc[u] \in Uploading
    => t = u

\* The status row agrees with the phase its only uploader is in.
StatusOfUploader ==
  \A t \in Tasks : Free(TaskDoc[t], {"raced"}) =>
    /\ pc[t] = "claim" => status[TaskDoc[t]] # "complete"
    /\ pc[t] \in {"cleanup", "parents", "upload", "finish"}
         => status[TaskDoc[t]] = "processing"

\* The batches behind the loop counter are in Qdrant.
BatchesBehind ==
  \A t \in Tasks : Free(TaskDoc[t], {"raced", "lost", "lateDelete"}) =>
    /\ pc[t] = "upload" =>
         \A b \in 1..(next[t] - 1) :
           [task |-> t, exec |-> exec[t], batch |-> b] \in Accepted
    /\ pc[t] = "finish" => BatchesOf(ThisRun(t)) \subseteq Accepted

\* What Qdrant holds of a document belongs to the run in progress.
ContentOfUploader ==
  /\ \A d \in Docs :
       status[d] = "none" /\ Free(d, Mishap) => AcceptedOf(d) = {}
  /\ \A t \in Tasks : Free(TaskDoc[t], Mishap) =>
       /\ pc[t] \in {"claim", "parents"} => AcceptedOf(TaskDoc[t]) = {}
       /\ pc[t] \in {"upload", "finish"}
            => \A p \in AcceptedOf(TaskDoc[t]) : RunOf(p) = ThisRun(t)

UploadInv ==
  /\ SoleUploader /\ StatusOfUploader /\ BatchesBehind /\ ContentOfUploader
  /\ CompleteIsWhole /\ CompleteIsExact

-----------------------------------------------------------------------------
(* The pipeline implements the abstract store.                             *)

Content == [d \in Docs |-> AcceptedOf(d)]
Broken == {d \in Docs : mishap[d] # {}}

Store == INSTANCE DocumentStore WITH
  Package <- BatchesOf, phase <- status, content <- Content, broken <- Broken

\* Every run of the pipeline is a run of the abstract store: content from one
\* upload only, published whole, then left alone.
ImplementsStore == Store!Spec

-----------------------------------------------------------------------------
(* What comments and docs of the code say, and TLC refutes.                *)

\* orchestrator.py:289 "Both paths record permanently failed tasks to the
\* failed_documents DLQ table".
FailuresReachDLQ == \A t \in Tasks : pc[t] = "failed" => t \in dlq

=============================================================================
