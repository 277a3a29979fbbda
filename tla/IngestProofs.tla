----------------------------- MODULE IngestProofs -----------------------------
(***************************************************************************)
(* What Ingest promises for every set of clients, contents, documents and  *)
(* filenames, every choice of routes and faults, and every MaxJobs.        *)
(*                                                                         *)
(* IngestInv!IInv is inductive; the theorems follow from it.  Lemmas say   *)
(* what a step can change, for what follows and for the modules that       *)
(* extend this one.                                                        *)
(***************************************************************************)
EXTENDS IngestInv, TLAPS

(***************************************************************************)
(* Rows keep their shape.                                                  *)
(***************************************************************************)
\* Every value written to a row is a row of its table.
LEMMA RowShapes ==
  /\ NoSource \in Source
  /\ NoDocument \in Document
  /\ \A n \in Names : NewSource(n) \in Source
  /\ \A r \in Source, st \in IngestStatus : [r EXCEPT !.status = st] \in Source
  /\ \A r \in Source : [r EXCEPT !.deleted = TRUE] \in Source
  /\ \A was, cur \in Source, n \in Names : ResetRow(was, n, cur) \in Source
  /\ \A s \in Sources, b \in BOOLEAN :
       [state |-> "live", of |-> s, chunks |-> b] \in Document
BY DEF NoSource, Source, NoDocument, Document, NewSource, IngestStatus, Settled, ResetRow

\* Writing a sources row keeps the tables typed.
LEMMA WriteTyped ==
  ASSUME TablesTypeOK, NEW p \in Procs, NEW s \in Sources, NEW r \in Source, Write(p, s, r),
         UNCHANGED collection,
         docs' \in [Docs -> Document], docWork' \in [Docs -> Document],
         docLock' \in [Docs -> Procs \cup {None}]
  PROVE  TablesTypeOK'
BY DEF TablesTypeOK, Write

\* Writing documents rows keeps them typed.
LEMMA WriteDocsTyped ==
  ASSUME TablesTypeOK, NEW p \in Procs, NEW D, NEW v \in Document, WriteDocs(p, D, v)
  PROVE  /\ docs' \in [Docs -> Document] /\ docWork' \in [Docs -> Document]
         /\ docLock' \in [Docs -> Procs \cup {None}]
BY DEF TablesTypeOK, WriteDocs

\* So does a rollback to the savepoint.
LEMMA DropNewDocsTyped ==
  ASSUME TablesTypeOK, NEW p, DropNewDocs(p)
  PROVE  /\ docs' \in [Docs -> Document] /\ docWork' \in [Docs -> Document]
         /\ docLock' \in [Docs -> Procs \cup {None}]
BY DEF TablesTypeOK, DropNewDocs

\* So does a soft deletion.
LEMMA SoftDeleteTyped ==
  ASSUME TablesTypeOK, NEW D, SoftDelete(D)
  PROVE  /\ docs' \in [Docs -> Document] /\ docWork' \in [Docs -> Document]
         /\ docLock' \in [Docs -> Procs \cup {None}]
<1> DEFINE Deleted(r) == [r EXCEPT !.state = "deleted", !.chunks = FALSE]
<1>1. \A r \in Document : Deleted(r) \in Document
  BY DEF Document
<1> QED BY <1>1 DEF TablesTypeOK, SoftDelete

\* So does a one-statement transaction.
LEMMA WriteThroughTyped ==
  ASSUME TablesTypeOK, NEW s \in Sources, NEW r \in Source, WriteThrough(s, r)
  PROVE  row' \in [Sources -> Source] /\ work' \in [Sources -> Source] /\ lock' = lock
BY DEF TablesTypeOK, WriteThrough

\* So does the end of a transaction.
LEMMA EndTyped ==
  ASSUME TablesTypeOK
  PROVE  /\ \A p : Commit(p) => TablesTypeOK'
         /\ \A P : Rollback(P) => TablesTypeOK'
BY DEF TablesTypeOK, Commit, Rollback

\* Every step keeps the tables typed.
LEMMA TablesStep ==
  ASSUME TypeOK, RequestShape, Next
  PROVE  TablesTypeOK'
<1> USE DEF TypeOK
<1>0. UNCHANGED tables => TablesTypeOK'
  BY DEF TablesTypeOK, tables, sourceRows, documentRows
<1>1. ASSUME NEW c \in Clients, ClientStep(c) PROVE TablesTypeOK'
  <2> USE DEF Reject, RequestShape, HasTarget
  <2>0. c \in Procs
    BY DEF Procs
  <2>1. CASE Insert(c)
    BY <1>1, <2>0, <2>1, RowShapes, WriteTyped, EndTyped DEF Insert, TablesTypeOK, documentRows
  <2>2. CASE PurgeDelete(c)
    BY <2>0, <2>2, RowShapes, WriteDocsTyped DEF PurgeDelete, TablesTypeOK, sourceRows
  <2>3. CASE Reset(c)
    BY <2>0, <2>3, RowShapes, WriteTyped, EndTyped DEF Reset, TablesTypeOK, documentRows
  <2>4. CASE SyncCommit(c) \/ BatchCommit(c) \/ BatchReject(c) \/ SaveFail(c) \/ Abort(c)
    BY <2>4, EndTyped DEF SyncCommit, BatchCommit, BatchReject, SaveFail, Abort
  <2>5. CASE DeleteCommit(c)
    <3>1. CASE UNCHANGED tables
      BY <1>0, <3>1
    <3>2. CASE ~UNCHANGED tables
      <4>1. /\ WriteThrough(at[c], [row[at[c]] EXCEPT !.deleted = TRUE])
            /\ SoftDelete(tgt[c]) /\ UNCHANGED collection
        BY <2>5, <3>2 DEF DeleteCommit
      <4>2. at[c] \in Sources /\ row[at[c]] \in Source
        BY <2>5 DEF DeleteCommit, TablesTypeOK
      <4> QED BY <4>1, <4>2, RowShapes, WriteThroughTyped, SoftDeleteTyped DEF TablesTypeOK
    <3> QED BY <3>1, <3>2
  <2>6. CASE DropCollection(c)
    BY <2>6, RowShapes DEF DropCollection, TablesTypeOK
  <2>7. CASE UNCHANGED tables
    BY <1>0, <2>7
  <2> QED BY <1>1, <2>1, <2>2, <2>3, <2>4, <2>5, <2>6, <2>7
        DEF ClientStep, SyncFind, Purge, StoreBytes, BatchBegin, BatchFind, SaveOne, EnqueueOne,
            RedisDown, DeleteFind
<1>2. ASSUME NEW s \in Sources, JobStep(s) PROVE TablesTypeOK'
  <2>1. CASE JobFail(s)
    <3>1. row[s] \in Source /\ [row[s] EXCEPT !.status = "failed"] \in Source
      BY RowShapes DEF TablesTypeOK, IngestStatus, Settled
    <3> QED BY <2>1, <3>1, WriteThroughTyped
          DEF JobFail, TablesTypeOK, documentRows, sourceRows
  <2>2. CASE JobCommit(s) \/ JobTimeout(s)
    BY <2>2, EndTyped DEF JobCommit, JobTimeout
  <2>3. CASE UNCHANGED tables
    BY <1>0, <2>3
  <2> QED BY <1>2, <2>1, <2>2, <2>3
        DEF JobStep, JobStart, JobFetch, JobFinish, JobRefused, ExpireResult, RecoverOne
<1>3. ASSUME NEW p \in Procs, PipelineStep(p) PROVE TablesTypeOK'
  <2> DEFINE s == Target(p)
  <2>1. pc[p] \in {"parse", "document", "chunk", "embed"} => s \in Sources
    BY DEF RequestShape, HasTarget, Procs, Target
  <2>2. \A st \in IngestStatus : s \in Sources => [work[s] EXCEPT !.status = st] \in Source
    BY RowShapes DEF TablesTypeOK
  <2>3. {"parsing", "chunking", "embedding", "completed", "failed"} \subseteq IngestStatus
    BY DEF IngestStatus, Settled
  <2> HIDE DEF s
  <2> USE DEF TablesTypeOK, documentRows, sourceRows, SetStatus
  <2>4. CASE Parse(p)
    BY <2>1, <2>2, <2>3, <2>4, WriteTyped DEF Parse, s
  <2>5. CASE AddDocument(p)
    BY <2>1, <2>2, <2>3, <2>5, RowShapes, WriteTyped, WriteDocsTyped DEF AddDocument, s
  <2>6. CASE ChunkEmpty(p)
    BY <2>1, <2>2, <2>3, <2>6, WriteTyped DEF ChunkEmpty, s
  <2>7. CASE Chunk(p)
    BY <2>1, <2>2, <2>3, <2>7, WriteTyped DEF Chunk, s
  <2>8. CASE InsertChunks(p)
    BY <2>1, <2>2, <2>3, <2>8, RowShapes, WriteTyped, WriteDocsTyped DEF InsertChunks, s
  <2>9. CASE PipelineFail(p)
    BY <2>1, <2>2, <2>3, <2>9, WriteTyped, DropNewDocsTyped, EndTyped DEF PipelineFail, s
  <2> QED BY <1>3, <2>4, <2>5, <2>6, <2>7, <2>8, <2>9 DEF PipelineStep
<1>4. CASE WorkerStop
  BY <1>4, EndTyped DEF WorkerStop
<1>5. CASE WorkerBoot \/ WorkerReady
  BY <1>0, <1>5 DEF WorkerBoot, WorkerReady
<1> QED BY <1>1, <1>2, <1>3, <1>4, <1>5 DEF Next

(***************************************************************************)
(* Requests and jobs keep their shape.                                     *)
(***************************************************************************)
\* An answered request is back in its idle shape.
LEMMA RespondShape ==
  ASSUME TypeOK, RequestShape, JobShape, NEW c \in Clients, Respond(c), TablesTypeOK',
         files' \subseteq Sources \X Names, UNCHANGED worker,
         job' \in [Sources -> {"none", "queued", "running", "interrupted"}],
         \A s \in Sources : job[s] = "running" => job'[s] = "running",
         UNCHANGED result
  PROVE  TypeOK' /\ RequestShape' /\ JobShape'
<1> USE ProcsAssumption DEF TypeOK, Respond, Goto, Procs
<1>1. TypeOK'
  BY RowShapes DEF worker, ClientSteps
<1>2. RequestShape'
  BY DEF RequestShape, ClientSteps, HasTarget, Alone, Claiming
<1>3. JobShape'
  BY DEF JobShape
<1> QED BY <1>1, <1>2, <1>3

\* enqueue_job keeps the queue typed.
LEMMA EnqueueTyped ==
  ASSUME TypeOK, NEW s \in Sources, Enqueue(s)
  PROVE  /\ job' \in [Sources -> {"none", "queued", "running", "interrupted"}]
         /\ \A t \in Sources : job[t] = "running" => job'[t] = "running"
         /\ UNCHANGED result
BY DEF TypeOK, Enqueue

\* A request that has written its row is in the shape of its next step.
LEMMA RowWrittenShape ==
  ASSUME TypeOK, RequestShape, JobShape, NEW c \in Clients, pc[c] \in {"insert", "reset"},
         RowWritten(c), TablesTypeOK', UNCHANGED <<name, batch, tgt, files, queue, worker>>
  PROVE  TypeOK' /\ RequestShape' /\ JobShape'
<1> USE ProcsAssumption DEF TypeOK, RowWritten, Goto, Procs, queue, worker
<1>1. CASE batch[c] = {}
  <2>1. pc' = [pc EXCEPT ![c] = "parse"] /\ UNCHANGED <<todo, at, seen>>
    BY <1>1
  <2>2. TypeOK'
    BY <2>1 DEF PipelineSteps
  <2>3. RequestShape'
    BY <1>1, <2>1
       DEF RequestShape, ClientSteps, PipelineSteps, HasTarget, Alone, Claiming
  <2>4. JobShape'
    BY <2>1 DEF JobShape
  <2> QED BY <2>2, <2>3, <2>4
<1>2. CASE batch[c] # {}
  <2> DEFINE rest == todo[c] \ {at[c]}
             last == rest = {}
  <2>1. /\ pc' = [pc EXCEPT ![c] = IF last THEN "save" ELSE "next"]
        /\ todo' = [todo EXCEPT ![c] = IF last THEN batch[c] ELSE rest]
        /\ at' = [at EXCEPT ![c] = None]
        /\ seen' = [seen EXCEPT ![c] = NoSource]
    BY <1>2
  <2>2. rest \subseteq todo[c] /\ rest \subseteq batch[c]
    BY DEF RequestShape
  <2> HIDE DEF rest, last
  <2> USE DEF RequestShape
  <2>3. TypeOK'
    BY <2>1, <2>2, RowShapes DEF ClientSteps
  <2>4. RequestShape'
    BY <2>1, <2>2, <1>2 DEF ClientSteps, HasTarget, Alone, Claiming
  <2>5. JobShape'
    BY <2>1 DEF JobShape
  <2> QED BY <2>3, <2>4, <2>5
<1> QED BY <1>1, <1>2

\* A request's step keeps requests in shape.
LEMMA ClientShape ==
  ASSUME TypeOK, RequestShape, JobShape, TablesTypeOK', NEW c \in Clients, ClientStep(c)
  PROVE  TypeOK' /\ RequestShape' /\ JobShape'
<1> USE ProcsAssumption DEF TypeOK, Procs, queue, worker
<1>1. CASE SyncFind(c)
  <2>1. TypeOK'
    BY <1>1 DEF SyncFind, Claim, Goto, ClientSteps, TablesTypeOK
  <2>2. RequestShape'
    BY <1>1 DEF SyncFind, Claim, Goto, RequestShape, ClientSteps, HasTarget, Alone, Claiming
  <2>3. JobShape'
    BY <1>1 DEF SyncFind, Claim, Goto, JobShape
  <2> QED BY <2>1, <2>2, <2>3
<1>2. CASE Insert(c)
  BY <1>2, RespondShape, RowWrittenShape DEF Insert, Reject
<1>3. CASE Purge(c) \/ PurgeDelete(c)
  <2>0. DocsOf(at[c]) \subseteq Docs
    BY DEF DocsOf
  <2>1. TypeOK'
    BY <1>3, <2>0 DEF Purge, PurgeDelete, Goto, ClientSteps
  <2>2. RequestShape'
    BY <1>3 DEF Purge, PurgeDelete, Goto, RequestShape, ClientSteps, HasTarget, Alone, Claiming
  <2>3. JobShape'
    BY <1>3 DEF Purge, PurgeDelete, Goto, JobShape
  <2> QED BY <2>1, <2>2, <2>3
<1>4. CASE Reset(c)
  BY <1>4, RespondShape, RowWrittenShape DEF Reset, Reject
<1>5. CASE SyncCommit(c)
  <2>1. CASE Respond(c)
    BY <1>5, <2>1, RespondShape DEF SyncCommit
  <2>2. CASE ~Respond(c)
    <3>1. pc[c] = "commit" /\ Goto(c, "store") /\ UNCHANGED <<seen, request, files, queue, worker>>
      BY <1>5, <2>2 DEF SyncCommit
    <3>2. TypeOK'
      BY <3>1 DEF Goto, request, ClientSteps
    <3>3. RequestShape'
      BY <3>1 DEF Goto, request, RequestShape, ClientSteps, HasTarget, Alone, Claiming
    <3>4. JobShape'
      BY <3>1 DEF Goto, JobShape
    <3> QED BY <3>2, <3>3, <3>4
  <2> QED BY <2>1, <2>2
<1>6. CASE StoreBytes(c)
  <2>1. at[c] \in Sources /\ name[c] \in Names
    BY <1>6 DEF StoreBytes, RequestShape, HasTarget
  <2> QED BY <1>6, <2>1, RespondShape DEF StoreBytes
<1>7. CASE BatchBegin(c)
  <2>1. TypeOK'
    BY <1>7 DEF BatchBegin, Goto, ClientSteps
  <2>2. RequestShape'
    BY <1>7 DEF BatchBegin, Goto, RequestShape, ClientSteps, HasTarget, Alone, Claiming
  <2>3. JobShape'
    BY <1>7 DEF BatchBegin, Goto, JobShape
  <2> QED BY <2>1, <2>2, <2>3
<1>8. CASE BatchFind(c)
  <2>1. TypeOK'
    BY <1>8 DEF BatchFind, Claim, Goto, ClientSteps, TablesTypeOK
  <2>2. RequestShape'
    BY <1>8 DEF BatchFind, Claim, Goto, RequestShape, ClientSteps, HasTarget, Alone, Claiming
  <2>3. JobShape'
    BY <1>8 DEF BatchFind, Claim, Goto, JobShape
  <2> QED BY <2>1, <2>2, <2>3
<1>9. CASE BatchReject(c) \/ SaveFail(c) \/ RedisDown(c) \/ DeleteCommit(c) \/ Abort(c)
  BY <1>9, RespondShape DEF BatchReject, SaveFail, RedisDown, DeleteCommit, Abort, Reject
<1>10. CASE SaveOne(c)
  <2>0. name[c] \in Names
    BY <1>10 DEF SaveOne, RequestShape
  <2>1. TypeOK'
    BY <1>10, <2>0 DEF SaveOne, Goto, ClientSteps
  <2>2. RequestShape'
    BY <1>10 DEF SaveOne, Goto, RequestShape, ClientSteps, HasTarget, Alone, Claiming
  <2>3. JobShape'
    BY <1>10 DEF SaveOne, Goto, JobShape
  <2> QED BY <2>1, <2>2, <2>3
<1>11. CASE BatchCommit(c)
  <2>1. TypeOK'
    BY <1>11 DEF BatchCommit, Goto, ClientSteps
  <2>2. RequestShape'
    BY <1>11 DEF BatchCommit, Goto, RequestShape, ClientSteps, HasTarget, Alone, Claiming
  <2>3. JobShape'
    BY <1>11 DEF BatchCommit, Goto, JobShape
  <2> QED BY <2>1, <2>2, <2>3
<1>12. CASE EnqueueOne(c)
  <2>1. PICK s \in Sources : /\ Enqueue(s)
                             /\ \/ Respond(c)
                                \/ /\ todo' = [todo EXCEPT ![c] = @ \ {s}]
                                   /\ UNCHANGED <<pc, seen, at, name, batch, tgt>>
    BY <1>12 DEF EnqueueOne
  <2>2. UNCHANGED <<files, worker>>
    BY <1>12 DEF EnqueueOne
  <2>3. CASE Respond(c)
    BY <2>1, <2>2, <2>3, EnqueueTyped, RespondShape
  <2>4. CASE ~Respond(c)
    <3>1. /\ todo' = [todo EXCEPT ![c] = @ \ {s}]
          /\ UNCHANGED <<pc, seen, at, name, batch, tgt>>
      BY <2>1, <2>4
    <3>2. TypeOK'
      BY <2>1, <2>2, <3>1, EnqueueTyped
    <3>3. RequestShape'
      BY <1>12, <3>1 DEF EnqueueOne, RequestShape, Claiming
    <3>4. JobShape'
      BY <2>1, <3>1, EnqueueTyped DEF JobShape
    <3> QED BY <3>2, <3>3, <3>4
  <2> QED BY <2>1, <2>3, <2>4
<1>13. CASE DeleteFind(c)
  <2>0. \A s : DocsOf(s) \subseteq Docs
    BY DEF DocsOf
  <2>1. TypeOK'
    BY <1>13, <2>0 DEF DeleteFind, Goto, ClientSteps, TablesTypeOK
  <2>2. RequestShape'
    BY <1>13 DEF DeleteFind, Goto, RequestShape, ClientSteps, HasTarget, Alone, Claiming
  <2>3. JobShape'
    BY <1>13 DEF DeleteFind, Goto, JobShape
  <2> QED BY <2>1, <2>2, <2>3
<1>14. CASE DropCollection(c)
  BY <1>14 DEF DropCollection, request, RequestShape, JobShape
<1> QED BY <1>1, <1>2, <1>3, <1>4, <1>5, <1>6, <1>7, <1>8, <1>9, <1>10, <1>11, <1>12, <1>13,
           <1>14 DEF ClientStep

\* So does a step of a job.
LEMMA JobStepShape ==
  ASSUME TypeOK, RequestShape, JobShape, TablesTypeOK', NEW s \in Sources, JobStep(s)
  PROVE  TypeOK' /\ RequestShape' /\ JobShape'
<1> USE ProcsAssumption DEF TypeOK, Procs, queue, worker, request
<1>1. CASE JobStart(s)
  <2>0. row[s] \in Source
    BY DEF TablesTypeOK
  <2>1. TypeOK'
    <3>1. pc' \in [Procs -> ClientSteps \cup JobSteps \cup PipelineSteps]
      BY <1>1 DEF JobStart, Goto, JobSteps
    <3>2. seen' \in [Procs -> Source]
      BY <1>1, <2>0 DEF JobStart
    <3> QED BY <1>1, <3>1, <3>2 DEF JobStart
  <2>2. RequestShape'
    BY <1>1 DEF JobStart, Goto, RequestShape
  <2>3. JobShape'
    BY <1>1 DEF JobStart, Goto, JobShape, JobSteps
  <2> QED BY <2>1, <2>2, <2>3
<1>2. CASE JobFetch(s) \/ JobFail(s) \/ JobCommit(s)
  <2>1. TypeOK'
    BY <1>2 DEF JobFetch, JobFail, JobCommit, Goto, JobSteps, PipelineSteps
  <2>2. RequestShape'
    BY <1>2 DEF JobFetch, JobFail, JobCommit, Goto, RequestShape
  <2>3. JobShape'
    BY <1>2 DEF JobFetch, JobFail, JobCommit, Goto, JobShape, JobSteps, PipelineSteps
  <2> QED BY <2>1, <2>2, <2>3
<1>3. CASE JobFinish(s) \/ JobTimeout(s)
  <2>0. Finish(s) /\ Goto(s, "idle") /\ seen' = [seen EXCEPT ![s] = NoSource]
        /\ UNCHANGED <<request, files, worker>>
    BY <1>3 DEF JobFinish, JobTimeout
  <2>1. TypeOK'
    BY <2>0, RowShapes DEF Finish, Goto, JobSteps
  <2>2. RequestShape'
    BY <1>3 DEF JobFinish, JobTimeout, Finish, Goto, RequestShape
  <2>3. JobShape'
    BY <1>3 DEF JobFinish, JobTimeout, Finish, Goto, JobShape, JobSteps
  <2> QED BY <2>1, <2>2, <2>3
<1>4. CASE JobRefused(s) \/ ExpireResult(s)
  BY <1>4 DEF JobRefused, ExpireResult, Finish, RequestShape, JobShape
<1>5. CASE RecoverOne(s)
  <2>1. TypeOK' /\ RequestShape'
    BY <1>5, EnqueueTyped DEF RecoverOne, RequestShape
  <2>2. JobShape'
    BY <1>5, EnqueueTyped DEF RecoverOne, JobShape
  <2> QED BY <2>1, <2>2
<1> QED BY <1>1, <1>2, <1>3, <1>4, <1>5 DEF JobStep

\* So does a step of the pipeline.
LEMMA PipelineShape ==
  ASSUME TypeOK, RequestShape, JobShape, TablesTypeOK', NEW p \in Procs, PipelineStep(p)
  PROVE  TypeOK' /\ RequestShape' /\ JobShape'
<1> USE ProcsAssumption DEF TypeOK, Procs, queue, worker, request
<1>1. PICK step \in {"fail", "document", "chunk", "commit", "embed", "record"} :
        /\ pc[p] \in {"parse", "document", "chunk", "embed"}
        /\ Goto(p, step) /\ UNCHANGED <<seen, request, files, queue, worker>>
        /\ step = "record" => p \in Clients
        /\ step = "fail" => p \in Sources
  BY DEF PipelineStep, Parse, AddDocument, ChunkEmpty, Chunk, InsertChunks, PipelineFail
<1>2. TypeOK'
  BY <1>1 DEF Goto, ClientSteps, JobSteps, PipelineSteps
<1>3. RequestShape'
  BY <1>1 DEF Goto, RequestShape, ClientSteps, PipelineSteps, HasTarget, Alone, Claiming
<1>4. JobShape'
  BY <1>1 DEF Goto, JobShape, JobSteps, PipelineSteps
<1> QED BY <1>2, <1>3, <1>4

\* Every step keeps types, requests and jobs in shape.
LEMMA ShapeStep ==
  ASSUME TypeOK, RequestShape, JobShape, [Next]_vars
  PROVE  TypeOK' /\ RequestShape' /\ JobShape'
<1>1. CASE Next
  <2>1. TablesTypeOK'
    BY <1>1, TablesStep
  <2>2. CASE WorkerStop
    <3> USE ProcsAssumption DEF WorkerStop, TypeOK, Procs, request
    <3>1. TypeOK'
      BY <2>1, <2>2, RowShapes DEF ClientSteps
    <3>2. RequestShape' /\ JobShape'
      BY <2>2 DEF RequestShape, JobShape, JobSteps
    <3> QED BY <3>1, <3>2
  <2>3. CASE WorkerBoot \/ WorkerReady
    BY <2>1, <2>3 DEF WorkerBoot, WorkerReady, TypeOK, RequestShape, JobShape, request, queue
  <2> QED BY <1>1, <2>1, <2>2, <2>3, ClientShape, JobStepShape, PipelineShape DEF Next
<1>2. CASE UNCHANGED vars
  BY <1>2 DEF vars, tables, sourceRows, documentRows, request, queue, worker,
              TypeOK, TablesTypeOK, RequestShape, JobShape
<1> QED BY <1>1, <1>2

(***************************************************************************)
(* The lock discipline.                                                    *)
(***************************************************************************)
\* An unlocked row keeps having one version.
LEMMA OneVersionStep ==
  ASSUME TypeOK, OneVersion, [Next]_vars
  PROVE  OneVersion'
<1> USE ProcsAssumption DEF OneVersion, TypeOK, TablesTypeOK, Procs
<1>0. UNCHANGED tables => OneVersion'
  BY DEF tables, sourceRows, documentRows
<1>1. \A p : Commit(p) => OneVersion'
  BY DEF Commit
<1>2. \A P : Rollback(P) => OneVersion'
  BY DEF Rollback
<1>3. \A p \in Procs : \A s, r :
        Write(p, s, r) /\ (\A d \in Docs : docLock'[d] = None => docWork'[d] = docs'[d])
        => OneVersion'
  BY DEF Write
<1>4. \A p \in Procs : \A D, v : WriteDocs(p, D, v) =>
        \A d \in Docs : docLock'[d] = None => docWork'[d] = docs'[d]
  BY DEF WriteDocs
<1>5. \A p \in Procs : DropNewDocs(p) =>
        \A d \in Docs : docLock'[d] = None => docWork'[d] = docs'[d]
  BY DEF DropNewDocs, NewDocs
<1>6. UNCHANGED documentRows => \A d \in Docs : docLock'[d] = None => docWork'[d] = docs'[d]
  BY DEF documentRows
<1>7. UNCHANGED sourceRows => \A s \in Sources : lock'[s] = None => work'[s] = row'[s]
  BY DEF sourceRows
<1>8. ASSUME NEW c \in Clients, ClientStep(c) PROVE OneVersion'
  <2>1. CASE Insert(c) \/ Reset(c)
    BY <1>2, <1>3, <1>6, <2>1 DEF Insert, Reset, Reject
  <2>2. CASE PurgeDelete(c)
    BY <1>4, <1>7, <2>2 DEF PurgeDelete
  <2>3. CASE SyncCommit(c) \/ BatchCommit(c) \/ BatchReject(c) \/ SaveFail(c) \/ Abort(c)
    BY <1>1, <1>2, <2>3 DEF SyncCommit, BatchCommit, BatchReject, SaveFail, Abort, Reject
  <2>4. CASE DeleteCommit(c)
    <3>1. CASE UNCHANGED tables
      BY <1>0, <3>1
    <3>2. CASE ~UNCHANGED tables
      <4>1. /\ WriteThrough(at[c], [row[at[c]] EXCEPT !.deleted = TRUE])
            /\ SoftDelete(tgt[c]) /\ DocsUnlocked(tgt[c])
        BY <2>4, <3>2 DEF DeleteCommit
      <4>2. \A s \in Sources : lock'[s] = None => work'[s] = row'[s]
        BY <4>1 DEF WriteThrough
      <4>3. \A d \in Docs : docLock'[d] = None => docWork'[d] = docs'[d]
        BY <4>1 DEF SoftDelete
      <4> QED BY <4>2, <4>3
    <3> QED BY <3>1, <3>2
  <2>5. CASE DropCollection(c)
    BY <2>5 DEF DropCollection
  <2>6. CASE UNCHANGED tables
    BY <1>0, <2>6
  <2> QED BY <1>8, <2>1, <2>2, <2>3, <2>4, <2>5, <2>6
        DEF ClientStep, SyncFind, Purge, StoreBytes, BatchBegin, BatchFind, SaveOne, EnqueueOne,
            RedisDown, DeleteFind
<1>9. ASSUME NEW s \in Sources, JobStep(s) PROVE OneVersion'
  <2>1. CASE JobFail(s)
    <3>0. \A r : WriteThrough(s, r) => \A t \in Sources : lock'[t] = None => work'[t] = row'[t]
      BY DEF WriteThrough
    <3>1. \A t \in Sources : lock'[t] = None => work'[t] = row'[t]
      BY <1>7, <2>1, <3>0 DEF JobFail
    <3>2. UNCHANGED documentRows
      BY <2>1 DEF JobFail
    <3>3. \A d \in Docs : docLock'[d] = None => docWork'[d] = docs'[d]
      BY <1>6, <3>2
    <3> QED BY <3>1, <3>3
  <2>2. CASE JobCommit(s) \/ JobTimeout(s)
    BY <1>1, <1>2, <2>2 DEF JobCommit, JobTimeout
  <2>3. CASE UNCHANGED tables
    BY <1>0, <2>3
  <2> QED BY <1>9, <2>1, <2>2, <2>3
        DEF JobStep, JobStart, JobFetch, JobFinish, JobRefused, ExpireResult, RecoverOne
<1>10. ASSUME NEW p \in Procs, PipelineStep(p) PROVE OneVersion'
  <2>1. CASE UNCHANGED tables
    BY <1>0, <2>1
  <2>2. CASE Rollback({p})
    BY <1>2, <2>2
  <2>3. CASE /\ \E s, st : SetStatus(p, s, st)
             /\ \/ \E D, v : WriteDocs(p, D, v)
                \/ DropNewDocs(p)
                \/ UNCHANGED documentRows
    BY <1>3, <1>4, <1>5, <1>6, <2>3 DEF SetStatus
  <2> QED BY <1>10, <2>1, <2>2, <2>3
        DEF PipelineStep, Parse, AddDocument, ChunkEmpty, Chunk, InsertChunks, PipelineFail, tables
<1>11. CASE WorkerStop \/ WorkerBoot \/ WorkerReady
  BY <1>0, <1>2, <1>11 DEF WorkerStop, WorkerBoot, WorkerReady
<1>12. CASE UNCHANGED vars
  BY <1>0, <1>12 DEF vars
<1> QED BY <1>8, <1>9, <1>10, <1>11, <1>12 DEF Next

\* A request's step keeps the lock discipline.
LEMMA ClientLocks ==
  ASSUME TypeOK, RequestShape, JobShape, RowLocks, LocksKept, NEW c \in Clients, ClientStep(c)
  PROVE  RowLocks' /\ LocksKept'
<1> USE ProcsAssumption
    DEF TypeOK, TablesTypeOK, Procs, Goto, RowLocks, LocksKept, Uploading, Writing, Claiming,
        JobWriting
<1>0. \A b \in Clients : pc[b] \in Uploading => at[b] \in Sources
  BY DEF RequestShape, HasTarget
<1>1. ASSUME Respond(c), lock' = [s \in Sources |-> IF lock[s] = c THEN None ELSE lock[s]]
      PROVE  RowLocks' /\ LocksKept'
  <2>1. RowLocks'
    BY <1>1 DEF Respond
  <2>2. LocksKept'
    BY <1>0, <1>1 DEF Respond
  <2> QED BY <2>1, <2>2
<1>2. ASSUME Reject(c) PROVE RowLocks' /\ LocksKept'
  <2>1. lock' = [s \in Sources |-> IF lock[s] = c THEN None ELSE lock[s]]
    BY <1>2 DEF Reject, Rollback
  <2> QED BY <1>1, <1>2, <2>1 DEF Reject
<1>3. ASSUME Respond(c), lock' = lock, pc[c] \in {"store", "enqueue", "delete"}
      PROVE  RowLocks' /\ LocksKept'
  BY <1>1, <1>3
<1>4. ASSUME NEW r, Write(c, at[c], r), RowWritten(c), pc[c] \in {"insert", "reset"},
             Unlocked(at[c]), UNCHANGED batch
      PROVE  RowLocks' /\ LocksKept'
  <2>1. at[c] \in Sources /\ lock' = [lock EXCEPT ![at[c]] = c] /\ lock[at[c]] = None
    BY <1>4 DEF Write, Unlocked, RequestShape, HasTarget
  <2>2. CASE batch[c] = {}
    <3>1. pc' = [pc EXCEPT ![c] = "parse"] /\ UNCHANGED <<todo, at>>
      BY <1>4, <2>2 DEF RowWritten
    <3>2. RowLocks'
      BY <1>4, <2>1, <2>2, <3>1
    <3>3. LocksKept'
      BY <1>4, <2>1, <2>2, <3>1
    <3> QED BY <3>2, <3>3
  <2>3. CASE batch[c] # {}
    <3> DEFINE rest == todo[c] \ {at[c]}
               last == rest = {}
    <3>1. /\ pc' = [pc EXCEPT ![c] = IF last THEN "save" ELSE "next"]
          /\ todo' = [todo EXCEPT ![c] = IF last THEN batch[c] ELSE rest]
          /\ at' = [at EXCEPT ![c] = None]
      BY <1>4, <2>3 DEF RowWritten
    <3>2. at[c] \in todo[c] /\ todo[c] \subseteq batch[c]
      BY <1>4, <2>3 DEF RequestShape
    <3>3. RowLocks'
      BY <1>4, <2>1, <2>3, <3>1, <3>2
    <3>4. LocksKept'
      BY <1>4, <2>1, <2>3, <3>1, <3>2
    <3> QED BY <3>3, <3>4
  <2> QED BY <2>2, <2>3
<1>5. CASE SyncFind(c)
  BY <1>5 DEF SyncFind, Claim, tables, sourceRows, RequestShape, Alone
<1>6. CASE Insert(c)
  BY <1>2, <1>4, <1>6 DEF Insert
<1>7. CASE Purge(c) \/ PurgeDelete(c)
  <2>1. /\ pc[c] \in {"purge", "purging"} /\ pc'[c] \in {"purging", "reset"}
        /\ \A q \in Procs : q # c => pc'[q] = pc[q]
        /\ UNCHANGED <<lock, at, batch, todo>>
    BY <1>7 DEF Purge, PurgeDelete, tables, sourceRows
  <2>2. RowLocks'
    BY <2>1
  <2>3. LocksKept'
    BY <2>1
  <2> QED BY <2>2, <2>3
<1>8. CASE Reset(c)
  BY <1>2, <1>4, <1>8 DEF Reset
<1>9. CASE SyncCommit(c)
  <2>1. lock' = [s \in Sources |-> IF lock[s] = c THEN None ELSE lock[s]]
    BY <1>9 DEF SyncCommit, Commit
  <2>2. CASE Respond(c)
    BY <1>1, <2>1, <2>2
  <2>3. CASE ~Respond(c)
    <3>1. pc' = [pc EXCEPT ![c] = "store"] /\ UNCHANGED request /\ batch[c] = {}
      BY <1>9, <2>3 DEF SyncCommit, RequestShape, Alone
    <3>2. RowLocks'
      BY <2>1, <3>1 DEF request
    <3>3. LocksKept'
      BY <1>0, <2>1, <3>1 DEF request
    <3> QED BY <3>2, <3>3
  <2> QED BY <2>2, <2>3
<1>10. CASE StoreBytes(c) \/ RedisDown(c) \/ DeleteCommit(c)
  BY <1>3, <1>10 DEF StoreBytes, RedisDown, DeleteCommit, WriteThrough, tables, sourceRows
<1>11. CASE BatchBegin(c)
  BY <1>11 DEF BatchBegin, tables, sourceRows
<1>12. CASE BatchFind(c)
  BY <1>12 DEF BatchFind, Claim, tables, sourceRows
<1>13. CASE BatchReject(c) \/ SaveFail(c) \/ Abort(c)
  BY <1>2, <1>13 DEF BatchReject, SaveFail, Abort
<1>14. CASE SaveOne(c)
  BY <1>14 DEF SaveOne, tables, sourceRows
<1>15. CASE BatchCommit(c)
  <2>1. RowLocks'
    BY <1>15 DEF BatchCommit, Commit, RequestShape, Alone
  <2>2. LocksKept'
    BY <1>0, <1>15 DEF BatchCommit, Commit
  <2> QED BY <2>1, <2>2
<1>16. CASE EnqueueOne(c)
  BY <1>3, <1>16 DEF EnqueueOne, tables, sourceRows
<1>17. CASE DeleteFind(c)
  BY <1>17 DEF DeleteFind, tables, sourceRows
<1>18. CASE DropCollection(c)
  BY <1>18 DEF DropCollection, request
<1> QED BY <1>5, <1>6, <1>7, <1>8, <1>9, <1>10, <1>11, <1>12, <1>13, <1>14, <1>15, <1>16,
           <1>17, <1>18 DEF ClientStep

\* So does a step of a job.
LEMMA JobLocks ==
  ASSUME TypeOK, RequestShape, JobShape, RowLocks, LocksKept, NEW s \in Sources, JobStep(s)
  PROVE  RowLocks' /\ LocksKept'
<1> USE ProcsAssumption
    DEF TypeOK, TablesTypeOK, Procs, Goto, RowLocks, LocksKept, Uploading, Writing, Claiming,
        JobWriting, request
<1>1. CASE JobStart(s) \/ JobFetch(s) \/ JobFail(s) \/ JobFinish(s)
  BY <1>1 DEF JobStart, JobFetch, JobFail, WriteThrough, JobFinish, tables, sourceRows, JobShape
<1>2. CASE JobCommit(s) \/ JobTimeout(s)
  <2>0. \A b \in Clients : pc[b] \in Uploading => at[b] \in Sources
    BY DEF RequestShape, HasTarget
  <2>1. /\ lock' = [t \in Sources |-> IF lock[t] = s THEN None ELSE lock[t]]
        /\ \E step \in {"done", "idle"} : pc' = [pc EXCEPT ![s] = step]
        /\ UNCHANGED request
    BY <1>2 DEF JobCommit, JobTimeout, Commit, Rollback
  <2>2. RowLocks'
    BY <2>1
  <2>3. LocksKept'
    BY <2>0, <2>1
  <2> QED BY <2>2, <2>3
<1>3. CASE JobRefused(s) \/ ExpireResult(s) \/ RecoverOne(s)
  BY <1>3 DEF JobRefused, ExpireResult, RecoverOne, tables, sourceRows
<1> QED BY <1>1, <1>2, <1>3 DEF JobStep

\* So does a step of the pipeline.
LEMMA PipelineLocks ==
  ASSUME TypeOK, RequestShape, JobShape, RowLocks, LocksKept, NEW p \in Procs, PipelineStep(p)
  PROVE  RowLocks' /\ LocksKept'
<1> USE ProcsAssumption
    DEF TypeOK, TablesTypeOK, Procs, Goto, RowLocks, LocksKept, Uploading, Writing, Claiming,
        JobWriting, request, Target
<1>1. CASE Parse(p)
  BY <1>1 DEF Parse, SetStatus, Write, sourceRows, RequestShape, HasTarget, Alone
<1>2. CASE AddDocument(p) \/ ChunkEmpty(p) \/ Chunk(p) \/ InsertChunks(p)
  <2>1. PICK step \in {"chunk", "embed", "commit"} :
          /\ pc[p] \in {"document", "chunk", "embed"}
          /\ pc' = [pc EXCEPT ![p] = step]
          /\ lock' = [lock EXCEPT ![Target(p)] = p]
    BY <1>2 DEF AddDocument, ChunkEmpty, Chunk, InsertChunks, SetStatus, Write
  <2>2. lock' = lock /\ UNCHANGED <<at, batch, todo>>
    BY <1>2, <2>1 DEF AddDocument, ChunkEmpty, Chunk, InsertChunks
  <2> QED BY <2>1, <2>2
<1>3. CASE PipelineFail(p)
  <2>0. \A b \in Clients : pc[b] \in Uploading => at[b] \in Sources
    BY DEF RequestShape, HasTarget
  <2>1. CASE p \in Clients
    <3>1. /\ pc' = [pc EXCEPT ![p] = "record"] /\ UNCHANGED request
          /\ lock' = lock /\ pc[p] \in Uploading
      BY <1>3, <2>0, <2>1 DEF PipelineFail, SetStatus, Write
    <3> QED BY <2>1, <3>1
  <2>2. CASE p \in Sources
    <3>1. /\ pc' = [pc EXCEPT ![p] = "fail"] /\ UNCHANGED request
          /\ lock' = [t \in Sources |-> IF lock[t] = p THEN None ELSE lock[t]]
      BY <1>3, <2>2 DEF PipelineFail, Rollback
    <3>2. RowLocks'
      BY <2>2, <3>1
    <3>3. LocksKept'
      BY <2>0, <2>2, <3>1
    <3> QED BY <3>2, <3>3
  <2> QED BY <2>1, <2>2
<1> QED BY <1>1, <1>2, <1>3 DEF PipelineStep

\* Every step keeps the lock discipline.
LEMMA LocksStep ==
  ASSUME TypeOK, RequestShape, JobShape, RowLocks, LocksKept, [Next]_vars
  PROVE  RowLocks' /\ LocksKept'
<1>1. CASE WorkerStop
  <2> USE ProcsAssumption
      DEF TypeOK, TablesTypeOK, Procs, RowLocks, LocksKept, Uploading, Writing, Claiming,
          JobWriting, request
  <2>0. \A b \in Clients : pc[b] \in Uploading => at[b] \in Sources
    BY DEF RequestShape, HasTarget
  <2>1. /\ lock' = [s \in Sources |-> IF lock[s] \in Sources THEN None ELSE lock[s]]
        /\ pc' = [p \in Procs |-> IF p \in Sources THEN "idle" ELSE pc[p]]
        /\ UNCHANGED request
    BY <1>1 DEF WorkerStop, Rollback
  <2>2. RowLocks'
    BY <2>1
  <2>3. LocksKept'
    BY <2>0, <2>1
  <2> QED BY <2>2, <2>3
<1>2. CASE UNCHANGED <<tables, pc, request>>
  BY <1>2 DEF tables, sourceRows, request, RowLocks, LocksKept
<1> QED BY <1>1, <1>2, ClientLocks, JobLocks, PipelineLocks
        DEF Next, vars, WorkerBoot, WorkerReady

(***************************************************************************)
(* What a transaction holds before it commits, and so what is committed.   *)
(***************************************************************************)
\* A request's step keeps what its transaction holds.
LEMMA ClientWork ==
  ASSUME TypeOK, RequestShape, OneVersion, RowLocks, WorkVersion, NEW c \in Clients,
         ClientStep(c)
  PROVE  WorkVersion'
<1> USE ProcsAssumption
    DEF TypeOK, TablesTypeOK, Procs, Goto, RowLocks, WorkVersion, Uploading, Writing, Claiming,
        JobWriting
<1>1. ASSUME \E step : pc' = [pc EXCEPT ![c] = step], UNCHANGED row,
             \A s \in Sources : lock'[s] = IF lock[s] = c THEN None ELSE lock[s],
             \A s \in Sources : lock[s] # c => work'[s] = work[s]
      PROVE  WorkVersion'
  BY <1>1
<1>2. ASSUME Reject(c) PROVE WorkVersion'
  BY <1>1, <1>2 DEF Reject, Rollback, Respond
<1>3. ASSUME Commit(c), NEW step, pc' = [pc EXCEPT ![c] = step] PROVE WorkVersion'
  BY <1>3 DEF Commit
<1>4. ASSUME NEW n, pc[c] \in {"insert", "reset"}, RowWritten(c), Write(c, at[c], n),
             n.status = "pending" \/ n.status = row[at[c]].status, n.status # "absent",
             Unlocked(at[c])
      PROVE  WorkVersion'
  <2>1. at[c] \in Sources /\ lock' = [lock EXCEPT ![at[c]] = c]
        /\ work' = [work EXCEPT ![at[c]] = n] /\ row' = row
    BY <1>4 DEF Write, RequestShape, HasTarget
  <2>2. pc' \in {[pc EXCEPT ![c] = step] : step \in {"parse", "next", "save"}}
    BY <1>4 DEF RowWritten
  <2>3. PICK step \in {"parse", "next", "save"} : pc' = [pc EXCEPT ![c] = step]
    BY <2>2
  <2> QED BY <1>4, <2>1, <2>3
<1>5. CASE Insert(c)
  <2>1. NewSource(name[c]).status = "pending"
    BY DEF NewSource
  <2> QED BY <1>2, <1>4, <1>5, <2>1 DEF Insert
<1>6. CASE Reset(c)
  <2> DEFINE n == ResetRow(seen[c], name[c], row[at[c]])
  <2>1. n.status \in {"pending", row[at[c]].status}
    BY DEF ResetRow
  <2>2. CASE Reject(c)
    BY <1>2, <2>2
  <2>3. CASE ~Reject(c)
    <3>1. Exists(at[c]) /\ Write(c, at[c], n) /\ RowWritten(c) /\ pc[c] = "reset"
          /\ Unlocked(at[c])
      BY <1>6, <2>3 DEF Reset
    <3>2. n.status # "absent"
      BY <2>1, <3>1 DEF Exists
    <3> HIDE DEF n
    <3> QED BY <1>4, <2>1, <3>1, <3>2
  <2> QED BY <2>2, <2>3
<1>7. CASE SyncCommit(c) \/ BatchCommit(c)
  BY <1>3, <1>7 DEF SyncCommit, BatchCommit, Respond
<1>8. CASE BatchReject(c) \/ SaveFail(c) \/ Abort(c)
  BY <1>2, <1>8 DEF BatchReject, SaveFail, Abort
<1>9. CASE DeleteCommit(c)
  BY <1>9 DEF DeleteCommit, WriteThrough, Unlocked, Respond, tables, sourceRows
<1>10. CASE DropCollection(c)
  BY <1>10 DEF DropCollection, Unlocked
<1>11. CASE SyncFind(c) \/ BatchBegin(c) \/ DeleteFind(c) \/ StoreBytes(c) \/ RedisDown(c)
            \/ EnqueueOne(c)
  BY <1>11 DEF SyncFind, Claim, BatchBegin, DeleteFind, StoreBytes, RedisDown, EnqueueOne, Respond,
               tables, sourceRows
<1>12. CASE Purge(c) \/ PurgeDelete(c) \/ BatchFind(c) \/ SaveOne(c)
  BY <1>12 DEF Purge, PurgeDelete, BatchFind, Claim, SaveOne, tables, sourceRows
<1> QED BY <1>5, <1>6, <1>7, <1>8, <1>9, <1>10, <1>11, <1>12 DEF ClientStep

\* So does a step of the pipeline.
LEMMA PipelineWork ==
  ASSUME TypeOK, RequestShape, OneVersion, RowLocks, LocksKept, WorkVersion,
         NEW p \in Procs, PipelineStep(p)
  PROVE  WorkVersion'
<1> USE ProcsAssumption
    DEF TypeOK, TablesTypeOK, Procs, Goto, RowLocks, WorkVersion, Uploading, Writing, Claiming,
        JobWriting
<1> DEFINE s == Target(p)
<1>0. pc[p] \in {"parse", "document", "chunk", "embed"} => s \in Sources
  BY DEF RequestShape, HasTarget, Target
<1>1. /\ pc[p] \in {"document", "chunk", "embed"} => lock[s] = p
      /\ pc[p] = "parse" => IF p \in Clients THEN lock[s] = p ELSE lock[s] # p
  BY DEF LocksKept, Target
<1> HIDE DEF s
<1>2. ASSUME pc[p] \in {"parse", "document", "chunk", "embed"}, s \in Sources,
             NEW st, SetStatus(p, s, st), NEW step, Goto(p, step),
             st # "absent", step \in {"document", "chunk", "embed", "commit", "record"},
             step = "commit" => st = "completed", step = "record" => st = "failed",
             p \in Sources => work[s].deleted = row[s].deleted
      PROVE  WorkVersion'
  <2>1. work[s] \in Source
    BY <1>2
  <2>2. [work[s] EXCEPT !.status = st].status = st
        /\ [work[s] EXCEPT !.status = st].deleted = work[s].deleted
    BY <2>1 DEF Source
  <2>3. lock' = [lock EXCEPT ![s] = p] /\ row' = row
        /\ work' = [work EXCEPT ![s] = [work[s] EXCEPT !.status = st]]
    BY <1>2 DEF SetStatus, Write
  <2>4. pc' = [pc EXCEPT ![p] = step]
    BY <1>2
  <2>5. \A t \in Sources : lock[t] = p => t = s
    BY <1>2 DEF RequestShape, Alone, Target, s
  <2>6. ASSUME NEW t \in Sources, t # s, lock'[t] # None
        PROVE  /\ lock[t] = lock'[t] /\ work'[t] = work[t] /\ row'[t] = row[t]
               /\ pc'[lock[t]] = pc[lock[t]]
    BY <1>2, <2>3, <2>4, <2>5, <2>6
  <2>7. lock'[s] = p /\ work'[s].status = st /\ work'[s].deleted = work[s].deleted
        /\ pc'[p] = step /\ row'[s] = row[s]
    BY <1>2, <2>2, <2>3, <2>4
  <2> SUFFICES ASSUME NEW t \in Sources, lock'[t] # None
               PROVE  /\ work'[t].status # "absent"
                      /\ pc'[lock'[t]] = "commit" => work'[t].status = "completed"
                      /\ pc'[lock'[t]] = "record" => work'[t].status = "failed"
                      /\ lock'[t] \in Clients /\ pc'[lock'[t]] \in Writing =>
                           \/ work'[t].status = "pending"
                           \/ work'[t].status = row'[t].status
                      /\ lock'[t] \in Sources => work'[t].deleted = row'[t].deleted
    OBVIOUS
  <2>8. CASE t = s
    BY <1>2, <2>7, <2>8
  <2>9. CASE t # s
    BY <2>6, <2>9
  <2> QED BY <2>8, <2>9
<1>3. CASE Parse(p)
  <2>1. CASE p \in Sources /\ ~Exists(s)
    BY <1>3, <2>1 DEF Parse, sourceRows, s
  <2>2. CASE ~(p \in Sources /\ ~Exists(s))
    <3>1. PICK st \in {"parsing"}, step \in {"document"} :
            /\ pc[p] = "parse" /\ lock[s] \in {p, None}
            /\ SetStatus(p, s, st) /\ Goto(p, step)
      BY <1>3, <2>2 DEF Parse, s
    <3>2. p \in Sources => work[s].deleted = row[s].deleted
      BY <1>0, <1>1, <3>1 DEF OneVersion
    <3> QED BY <1>0, <1>2, <3>1, <3>2
  <2> QED BY <2>1, <2>2
<1>4. CASE AddDocument(p) \/ ChunkEmpty(p) \/ Chunk(p) \/ InsertChunks(p)
  <2>1. PICK st \in {"chunking", "completed", "embedding"}, step \in {"chunk", "embed", "commit"} :
          /\ pc[p] \in {"document", "chunk", "embed"}
          /\ SetStatus(p, s, st) /\ Goto(p, step)
          /\ step = "commit" => st = "completed"
    BY <1>4 DEF AddDocument, ChunkEmpty, Chunk, InsertChunks, s
  <2>2. p \in Sources => work[s].deleted = row[s].deleted
    BY <1>0, <1>1, <2>1
  <2> QED BY <1>0, <1>2, <2>1, <2>2
<1>5. CASE PipelineFail(p)
  <2>1. CASE p \in Clients
    <3>1. SetStatus(p, s, "failed") /\ Goto(p, "record")
          /\ pc[p] \in {"document", "chunk", "embed"}
      BY <1>5, <2>1 DEF PipelineFail, s
    <3> QED BY <1>0, <1>2, <2>1, <3>1
  <2>2. CASE p \in Sources
    BY <1>5, <2>2 DEF PipelineFail, Rollback
  <2> QED BY <2>1, <2>2
<1> QED BY <1>3, <1>4, <1>5 DEF PipelineStep

\* Every step keeps what the transactions hold.
LEMMA WorkStep ==
  ASSUME TypeOK, RequestShape, JobShape, OneVersion, RowLocks, LocksKept, WorkVersion, [Next]_vars
  PROVE  WorkVersion'
<1> USE ProcsAssumption
    DEF TypeOK, TablesTypeOK, Procs, Goto, RowLocks, WorkVersion, Uploading, Writing, Claiming,
        JobWriting
<1>1. ASSUME NEW s \in Sources, JobStep(s) PROVE WorkVersion'
  <2>1. CASE JobStart(s) \/ JobFetch(s) \/ JobFail(s) \/ JobFinish(s)
    BY <2>1 DEF JobStart, JobFetch, JobFail, JobFinish, WriteThrough, Unlocked, tables, sourceRows
  <2>2. CASE JobCommit(s) \/ JobTimeout(s)
    BY <2>2 DEF JobCommit, JobTimeout, Commit, Rollback
  <2>3. CASE JobRefused(s) \/ ExpireResult(s) \/ RecoverOne(s)
    BY <2>3 DEF JobRefused, ExpireResult, RecoverOne, tables, sourceRows
  <2> QED BY <1>1, <2>1, <2>2, <2>3 DEF JobStep
<1>2. CASE WorkerStop
  BY <1>2 DEF WorkerStop, Rollback
<1>3. CASE UNCHANGED <<tables, pc>>
  BY <1>3 DEF tables, sourceRows
<1> QED BY <1>1, <1>2, <1>3, ClientWork, PipelineWork DEF Next, vars, WorkerBoot, WorkerReady

\* How a committed ingest_status can change: settled by a pipeline or a failure,
\* pending by the commit of a batch, or gone with its collection.
LEMMA RowStatusStep ==
  ASSUME TypeOK, RequestShape, JobShape, RowLocks, WorkVersion, [Next]_vars, NEW s \in Sources,
         row'[s].status # row[s].status
  PROVE  \/ row'[s].status \in {"completed", "failed"}
         \/ row'[s].status = "pending" /\ \E c \in Clients :
              s \in batch[c] /\ pc[c] = "publish" /\ pc'[c] = "enqueue"
         \/ row'[s].status = "absent" /\ ~collection'
<1> USE ProcsAssumption DEF TypeOK, TablesTypeOK, Procs
<1>1. ASSUME NEW c \in Clients, Commit(c), pc[c] \in {"commit", "record", "publish"}
      PROVE  \/ row'[s].status \in {"completed", "failed"}
             \/ row'[s].status = "pending" /\ s \in batch[c] /\ pc[c] = "publish"
  <2>1. lock[s] = c /\ row'[s] = work[s]
    BY <1>1 DEF Commit
  <2> QED BY <1>1, <2>1 DEF WorkVersion, RowLocks, Writing, Uploading, Claiming
<1>2. ASSUME NEW c \in Clients, ClientStep(c)
      PROVE  \/ row'[s].status \in {"completed", "failed"}
             \/ row'[s].status = "pending" /\ s \in batch[c] /\ pc[c] = "publish" /\ pc'[c] = "enqueue"
             \/ row'[s].status = "absent" /\ ~collection'
  <2>1. CASE SyncCommit(c) \/ BatchCommit(c)
    BY <1>1, <2>1 DEF SyncCommit, BatchCommit, Goto
  <2>2. CASE DeleteCommit(c)
    <3>1. CASE UNCHANGED tables
      BY <3>1 DEF tables, sourceRows
    <3>2. CASE ~UNCHANGED tables
      <4>1. row' = [row EXCEPT ![at[c]] = [row[at[c]] EXCEPT !.deleted = TRUE]]
        BY <2>2, <3>2 DEF DeleteCommit, WriteThrough
      <4>2. row[s] \in Source
        OBVIOUS
      <4>3. [row[s] EXCEPT !.deleted = TRUE].status = row[s].status
        BY <4>2 DEF Source
      <4> QED BY <4>1, <4>3
    <3> QED BY <3>1, <3>2
  <2>3. CASE DropCollection(c)
    BY <2>3 DEF DropCollection, NoSource
  <2>4. row' = row => FALSE
    OBVIOUS
  <2> QED BY <1>2, <2>1, <2>2, <2>3, <2>4
        DEF ClientStep, SyncFind, Insert, Purge, PurgeDelete, Reset, Write, Reject, Rollback,
            StoreBytes, BatchBegin, BatchFind, BatchReject, SaveOne, SaveFail, EnqueueOne,
            RedisDown, DeleteFind, Abort, tables, sourceRows
<1>3. ASSUME NEW t \in Sources, JobStep(t) PROVE row'[s].status \in {"completed", "failed"}
  <2>1. CASE JobFail(t)
    <3>1. row' = row \/ row' = [row EXCEPT ![t] = [row[t] EXCEPT !.status = "failed"]]
      BY <2>1 DEF JobFail, WriteThrough, sourceRows
    <3>2. row[s] \in Source
      OBVIOUS
    <3>3. [row[s] EXCEPT !.status = "failed"].status = "failed"
      BY <3>2 DEF Source
    <3> QED BY <3>1, <3>3
  <2>2. CASE JobCommit(t)
    <3>1. lock[s] = t /\ row'[s] = work[s] /\ pc[t] = "commit"
      BY <2>2 DEF JobCommit, Commit
    <3> QED BY <3>1 DEF WorkVersion
  <2>3. row' = row => FALSE
    OBVIOUS
  <2> QED BY <1>3, <2>1, <2>2, <2>3
        DEF JobStep, JobStart, JobFetch, JobFinish, JobTimeout, JobRefused, ExpireResult,
            RecoverOne, Rollback, tables, sourceRows
<1>4. ASSUME NEW p \in Procs, PipelineStep(p) PROVE FALSE
  BY <1>4 DEF PipelineStep, Parse, AddDocument, ChunkEmpty, Chunk, InsertChunks, PipelineFail,
              SetStatus, Write, Rollback, sourceRows
<1>5. WorkerStop \/ WorkerBoot \/ WorkerReady \/ UNCHANGED vars => FALSE
  BY DEF WorkerStop, WorkerBoot, WorkerReady, Rollback, vars, tables, sourceRows
<1> QED BY <1>2, <1>3, <1>4, <1>5 DEF Next

\* Hence it stays a settled one.
LEMMA SettledStep ==
  ASSUME TypeOK, RequestShape, JobShape, RowLocks, WorkVersion, SettledRows, [Next]_vars
  PROVE  SettledRows'
BY RowStatusStep DEF SettledRows, Settled

\* No step removes a file from the upload storage.
LEMMA FilesGrow ==
  ASSUME [Next]_vars PROVE files \subseteq files'
<1>1. ASSUME NEW c \in Clients, ClientStep(c) PROVE files \subseteq files'
  BY <1>1
     DEF ClientStep, SyncFind, Insert, Purge, PurgeDelete, Reset, SyncCommit, StoreBytes,
         BatchBegin, BatchFind, BatchReject, SaveOne, SaveFail, BatchCommit, EnqueueOne,
         RedisDown, DeleteFind, DeleteCommit, DropCollection, Abort
<1>2. ASSUME NEW s \in Sources, JobStep(s) PROVE UNCHANGED files
  BY <1>2
     DEF JobStep, JobStart, JobFetch, JobFail, JobCommit, JobFinish, JobTimeout, JobRefused,
         ExpireResult, RecoverOne
<1>3. ASSUME NEW p \in Procs, PipelineStep(p) PROVE UNCHANGED files
  BY <1>3
     DEF PipelineStep, Parse, AddDocument, ChunkEmpty, Chunk, InsertChunks, PipelineFail
<1> QED BY <1>1, <1>2, <1>3 DEF Next, WorkerStop, WorkerBoot, WorkerReady, vars

\* A batch has saved its bytes before it commits.
LEMMA BytesStep ==
  ASSUME TypeOK, RequestShape, BytesFirst, [Next]_vars
  PROVE  BytesFirst'
<1> USE ProcsAssumption, FilesGrow DEF TypeOK, Procs, Goto, BytesFirst
<1>0. ASSUME NEW c \in Clients, \E step : step \notin {"save", "publish"} /\ Goto(c, step),
             \A b \in Clients \ {c} : batch'[b] = batch[b] /\ todo'[b] = todo[b] /\ name'[b] = name[b]
      PROVE  BytesFirst'
  BY <1>0
<1>1. ASSUME NEW c \in Clients, ClientStep(c) PROVE BytesFirst'
  <2>1. CASE Insert(c) \/ Reset(c)
    <3>1. CASE Reject(c)
      BY <1>0, <3>1 DEF Reject, Respond
    <3>2. CASE ~Reject(c)
      <4>1. RowWritten(c) /\ UNCHANGED <<name, batch>>
        BY <2>1, <3>2 DEF Insert, Reset
      <4>2. CASE batch[c] = {}
        BY <1>0, <4>1, <4>2 DEF RowWritten
      <4>3. CASE batch[c] # {}
        <5> DEFINE rest == todo[c] \ {at[c]}
                   last == rest = {}
        <5>1. /\ pc' = [pc EXCEPT ![c] = IF last THEN "save" ELSE "next"]
              /\ todo' = [todo EXCEPT ![c] = IF last THEN batch[c] ELSE rest]
          BY <4>1, <4>3 DEF RowWritten
        <5> HIDE DEF last, rest
        <5> QED BY <4>1, <5>1
      <4> QED BY <4>2, <4>3
    <3> QED BY <3>1, <3>2
  <2>2. CASE SaveOne(c)
    BY <2>2 DEF SaveOne
  <2>3. CASE SyncFind(c) \/ BatchFind(c) \/ BatchBegin(c) \/ BatchCommit(c) \/ DeleteFind(c)
    BY <1>0, <2>3 DEF SyncFind, BatchFind, Claim, BatchBegin, BatchCommit, DeleteFind
  <2>4. CASE Purge(c) \/ PurgeDelete(c)
    BY <1>0, <2>4 DEF Purge, PurgeDelete
  <2>5. CASE Respond(c)
    BY <1>0, <2>5 DEF Respond
  <2>6. CASE SyncCommit(c) /\ ~Respond(c)
    BY <1>0, <2>6 DEF SyncCommit, request
  <2>7. CASE EnqueueOne(c) /\ ~Respond(c)
    <3>1. pc[c] = "enqueue" /\ UNCHANGED <<pc, name, batch>>
          /\ \A b \in Clients \ {c} : todo'[b] = todo[b]
      BY <2>7 DEF EnqueueOne
    <3> QED BY <3>1
  <2>8. CASE DropCollection(c)
    BY <2>8 DEF DropCollection, request
  <2> QED BY <1>1, <2>1, <2>2, <2>3, <2>4, <2>5, <2>6, <2>7, <2>8
        DEF ClientStep, StoreBytes, BatchReject, SaveFail, RedisDown, DeleteCommit, Abort, Reject
<1>2. ASSUME UNCHANGED request, \A c \in Clients : pc'[c] \in {"save", "publish"} => pc'[c] = pc[c]
      PROVE  BytesFirst'
  BY <1>2 DEF request
<1>3. ASSUME NEW s \in Sources, JobStep(s) PROVE BytesFirst'
  BY <1>2, <1>3
     DEF JobStep, JobStart, JobFetch, JobFail, JobCommit, JobFinish, JobTimeout, JobRefused,
         ExpireResult, RecoverOne
<1>4. ASSUME NEW p \in Procs, PipelineStep(p) PROVE BytesFirst'
  BY <1>2, <1>4
     DEF PipelineStep, Parse, AddDocument, ChunkEmpty, Chunk, InsertChunks, PipelineFail
<1>5. CASE WorkerStop \/ WorkerBoot \/ WorkerReady \/ UNCHANGED vars
  BY <1>2, <1>5 DEF WorkerStop, WorkerBoot, WorkerReady, vars
<1> QED BY <1>1, <1>3, <1>4, <1>5 DEF Next

\* Hence a committed PENDING row has bytes.
LEMMA PendingBytesStep ==
  ASSUME TypeOK, RequestShape, JobShape, RowLocks, WorkVersion, BytesFirst, PendingHasBytes,
         [Next]_vars
  PROVE  PendingHasBytes'
BY RowStatusStep, FilesGrow DEF PendingHasBytes, BytesFirst, RequestShape

\* A row that exists is lost only with its collection.
LEMMA ExistsStep ==
  ASSUME TypeOK, RequestShape, JobShape, RowLocks, WorkVersion, [Next]_vars, NEW s \in Sources,
         Exists(s)
  PROVE  Exists(s)' \/ ~collection'
BY RowStatusStep DEF Exists

\* A dropped collection stays dropped.
LEMMA DroppedStays ==
  ASSUME [Next]_vars, ~collection, TypeOK PROVE ~collection'
<1> USE DEF tables
<1>1. ASSUME NEW c \in Clients, ClientStep(c) PROVE ~collection'
  BY <1>1
     DEF ClientStep, SyncFind, Insert, Purge, PurgeDelete, Reset, SyncCommit, Commit, StoreBytes,
         BatchBegin, BatchFind, BatchReject, SaveOne, SaveFail, BatchCommit, EnqueueOne,
         RedisDown, DeleteFind, DeleteCommit, DropCollection, Abort, Reject, Rollback
<1>2. ASSUME NEW s \in Sources, JobStep(s) PROVE ~collection'
  BY <1>2
     DEF JobStep, JobStart, JobFetch, JobFail, JobCommit, Commit, JobFinish, JobTimeout, Rollback,
         JobRefused, ExpireResult, RecoverOne
<1>3. ASSUME NEW p \in Procs, PipelineStep(p) PROVE ~collection'
  BY <1>3
     DEF PipelineStep, Parse, AddDocument, ChunkEmpty, Chunk, InsertChunks, PipelineFail, Rollback
<1> QED BY <1>1, <1>2, <1>3 DEF Next, WorkerStop, Rollback, WorkerBoot, WorkerReady, vars

\* What is about to be enqueued is committed.
LEMMA DurableFirstStep ==
  ASSUME TypeOK, RequestShape, JobShape, RowLocks, LocksKept, WorkVersion, DurableFirst,
         [Next]_vars
  PROVE  DurableFirst'
<1> USE ProcsAssumption DEF TypeOK, Procs, Goto
<1> SUFFICES ASSUME collection'
             PROVE  /\ \A c \in Clients : pc'[c] = "enqueue" => \A s \in todo'[c] : Exists(s)'
                    /\ \A s \in boot' : Exists(s)'
  BY DEF DurableFirst
<1>0. collection /\ \A s \in Sources : Exists(s) => Exists(s)'
  BY DroppedStays, ExistsStep
<1>1. ASSUME NEW b \in Clients, pc'[b] = "enqueue"
      PROVE  \A s \in todo'[b] : Exists(s)'
  <2>1. CASE pc[b] = "enqueue" /\ todo'[b] \subseteq todo[b]
    BY <1>0, <2>1 DEF DurableFirst
  <2>2. ASSUME NEW c \in Clients, ClientStep(c), ~(pc[b] = "enqueue" /\ todo'[b] \subseteq todo[b])
        PROVE  \A s \in todo'[b] : Exists(s)'
    <3>1. CASE BatchCommit(c)
      <4>1. CASE b = c
        <5>1. todo'[c] = batch[c] /\ \A s \in batch[c] : row'[s] = work[s] /\ lock[s] = c
          BY <3>1 DEF BatchCommit, Commit, LocksKept
        <5> QED BY <4>1, <5>1 DEF WorkVersion, Exists
      <4>2. CASE b # c
        BY <1>1, <2>2, <3>1, <4>2 DEF BatchCommit
      <4> QED BY <4>1, <4>2
    <3>2. CASE EnqueueOne(c)
      BY <1>1, <2>2, <3>2 DEF EnqueueOne, Respond
    <3>3. CASE Respond(c)
      BY <1>1, <2>2, <3>3 DEF Respond
    <3>4. CASE RowWritten(c) /\ pc[c] \in {"insert", "reset"}
      BY <1>1, <2>2, <3>4 DEF RowWritten
    <3>5. CASE SyncFind(c) \/ BatchFind(c) \/ BatchBegin(c) \/ SaveOne(c)
      BY <1>1, <2>2, <3>5 DEF SyncFind, BatchFind, Claim, BatchBegin, SaveOne
    <3>7. CASE Purge(c) \/ PurgeDelete(c) \/ DeleteFind(c) \/ DropCollection(c)
      BY <1>1, <2>2, <3>7 DEF Purge, PurgeDelete, DeleteFind, DropCollection, request
    <3>6. CASE SyncCommit(c) /\ ~Respond(c)
      BY <1>1, <2>2, <3>6 DEF SyncCommit, request
    <3>8. CASE StoreBytes(c) \/ BatchReject(c) \/ SaveFail(c) \/ RedisDown(c) \/ DeleteCommit(c)
              \/ Abort(c)
      BY <3>3, <3>8 DEF StoreBytes, BatchReject, SaveFail, RedisDown, DeleteCommit, Abort, Reject
    <3>9. CASE Insert(c) \/ Reset(c)
      BY <3>3, <3>4, <3>9 DEF Insert, Reset, Reject
    <3>10. CASE SyncCommit(c)
      BY <3>3, <3>6, <3>10
    <3> QED BY <2>2, <3>1, <3>2, <3>5, <3>7, <3>8, <3>9, <3>10 DEF ClientStep
  <2>3. CASE UNCHANGED request /\ (pc'[b] = "enqueue" => pc[b] = "enqueue")
    BY <1>1, <2>1, <2>3 DEF request
  <2>4. ASSUME NEW s \in Sources, JobStep(s)
        PROVE  UNCHANGED request /\ (pc'[b] = "enqueue" => pc[b] = "enqueue")
    <3>1. CASE JobStart(s) \/ JobRefused(s) \/ ExpireResult(s) \/ RecoverOne(s)
      BY <3>1 DEF JobStart, JobRefused, ExpireResult, RecoverOne
    <3>2. CASE JobFetch(s)
      BY <3>2 DEF JobFetch
    <3>3. CASE JobFail(s) \/ JobCommit(s)
      BY <3>3 DEF JobFail, JobCommit
    <3>4. CASE JobFinish(s) \/ JobTimeout(s)
      BY <3>4 DEF JobFinish, JobTimeout
    <3> QED BY <2>4, <3>1, <3>2, <3>3, <3>4 DEF JobStep
  <2>5. ASSUME NEW p \in Procs, PipelineStep(p)
        PROVE  UNCHANGED request /\ (pc'[b] = "enqueue" => pc[b] = "enqueue")
    BY <2>5
       DEF PipelineStep, Parse, AddDocument, ChunkEmpty, Chunk, InsertChunks, PipelineFail
  <2>6. WorkerStop \/ WorkerBoot \/ WorkerReady \/ UNCHANGED vars =>
          UNCHANGED request /\ (pc'[b] = "enqueue" => pc[b] = "enqueue")
    BY DEF WorkerStop, WorkerBoot, WorkerReady, vars
  <2> QED BY <2>1, <2>2, <2>3, <2>4, <2>5, <2>6 DEF Next
<1>2. ASSUME NEW s \in boot' PROVE Exists(s)'
  <2>1. CASE boot' \subseteq boot
    BY <1>0, <1>2, <2>1 DEF DurableFirst
  <2>2. CASE WorkerBoot
    BY <1>2, <2>2 DEF WorkerBoot, Exists, tables, sourceRows
  <2>3. ASSUME NEW c \in Clients, ClientStep(c) PROVE UNCHANGED worker
    BY <2>3
       DEF ClientStep, SyncFind, Insert, Purge, PurgeDelete, Reset, SyncCommit, StoreBytes,
           BatchBegin, BatchFind, BatchReject, SaveOne, SaveFail, BatchCommit, EnqueueOne,
           RedisDown, DeleteFind, DeleteCommit, DropCollection, Abort
  <2>4. ASSUME NEW t \in Sources, JobStep(t) PROVE boot' \subseteq boot
    BY <2>4
       DEF JobStep, JobStart, JobFetch, JobFail, JobCommit, JobFinish, JobTimeout, JobRefused,
           ExpireResult, RecoverOne, worker
  <2>5. ASSUME NEW p \in Procs, PipelineStep(p) PROVE UNCHANGED worker
    BY <2>5
       DEF PipelineStep, Parse, AddDocument, ChunkEmpty, Chunk, InsertChunks, PipelineFail
  <2> QED BY <2>1, <2>2, <2>3, <2>4, <2>5 DEF Next, WorkerStop, WorkerReady, vars, worker
<1> QED BY <1>1, <1>2

\* Hence what is enqueued is.
LEMMA JobsDurableStep ==
  ASSUME TypeOK, RequestShape, JobShape, RowLocks, WorkVersion, DurableFirst, JobsAreDurable,
         [Next]_vars
  PROVE  JobsAreDurable'
<1> USE ProcsAssumption DEF TypeOK
<1> SUFFICES ASSUME NEW s \in Sources, job'[s] # "none", collection' PROVE Exists(s)'
  BY DEF JobsAreDurable
<1>0. collection /\ (Exists(s) => Exists(s)')
  BY DroppedStays, ExistsStep
<1>1. CASE job[s] # "none"
  BY <1>0, <1>1 DEF JobsAreDurable
<1>2. CASE job[s] = "none"
  <2>1. ASSUME NEW c \in Clients, ClientStep(c) PROVE Exists(s)
    <3>1. CASE EnqueueOne(c)
      BY <1>0, <1>2, <3>1 DEF EnqueueOne, Enqueue, DurableFirst
    <3> QED BY <1>2, <2>1, <3>1
          DEF ClientStep, SyncFind, Insert, Purge, PurgeDelete, Reset, SyncCommit, StoreBytes,
              BatchBegin, BatchFind, BatchReject, SaveOne, SaveFail, BatchCommit,
              RedisDown, DeleteFind, DeleteCommit, DropCollection, Abort, queue
  <2>2. ASSUME NEW t \in Sources, JobStep(t) PROVE Exists(s)
    <3>1. CASE RecoverOne(t)
      BY <1>0, <1>2, <3>1 DEF RecoverOne, Enqueue, DurableFirst
    <3> QED BY <1>2, <2>2, <3>1
          DEF JobStep, JobStart, JobFetch, JobFail, JobCommit, JobFinish, JobTimeout, JobRefused,
              Finish, ExpireResult, queue
  <2>3. ASSUME NEW p \in Procs, PipelineStep(p) PROVE FALSE
    BY <1>2, <2>3
       DEF PipelineStep, Parse, AddDocument, ChunkEmpty, Chunk, InsertChunks, PipelineFail, queue
  <2>4. WorkerStop \/ WorkerBoot \/ WorkerReady \/ UNCHANGED vars => FALSE
    BY <1>2 DEF WorkerStop, WorkerBoot, WorkerReady, vars, queue
  <2> QED BY <1>0, <2>1, <2>2, <2>3, <2>4 DEF Next
<1> QED BY <1>1, <1>2

(***************************************************************************)
(* Uncommitted documents.                                                  *)
(***************************************************************************)
\* A pipeline keeps its one uncommitted document.
LEMMA NewDocumentStep ==
  ASSUME TypeOK, RequestShape, JobShape, OneNewDocument, [Next]_vars
  PROVE  OneNewDocument'
<1> USE ProcsAssumption DEF TypeOK, TablesTypeOK, Procs, Goto, OneNewDocument, NewDocs, Target
<1> DEFINE Held == {"chunk", "embed", "commit"}
           \* Nothing about q's new documents changes.
           Kept(q) == /\ pc'[q] \in Held => pc[q] \in Held /\ NewDocs(q)' = NewDocs(q)
                      /\ \A d \in Docs : docs'[d].state = "absent" /\ docLock'[d] = q =>
                           /\ docs[d].state = "absent" /\ docLock[d] = q
                           /\ docWork'[d] = docWork[d] /\ pc'[q] = pc[q]
                           /\ Target(q)' = Target(q)
<1>0. ASSUME \A q \in Procs : Kept(q), docLock' \in [Docs -> Procs \cup {None}]
      PROVE  OneNewDocument'
  <2>1. ASSUME NEW q \in Procs, pc'[q] \in Held PROVE \E d \in Docs : NewDocs(q)' = {d}
    <3>1. pc[q] \in Held /\ NewDocs(q)' = NewDocs(q)
      BY <1>0, <2>1
    <3>2. \E d \in Docs : NewDocs(q) = {d}
      BY <3>1
    <3> QED BY <3>1, <3>2
  <2>2. ASSUME NEW d \in Docs, docs'[d].state = "absent", docLock'[d] # None
        PROVE  (/\ pc[docLock[d]] \in Held
                /\ docWork[d].state = "live" /\ docWork[d].of = Target(docLock[d]))'
    <3>1. docLock'[d] \in Procs
      BY <1>0, <2>2
    <3>2. PICK q \in Procs : docLock'[d] = q
      BY <3>1
    <3>3. /\ docs[d].state = "absent" /\ docLock[d] = q
          /\ docWork'[d] = docWork[d] /\ pc'[q] = pc[q] /\ Target(q)' = Target(q)
      BY <1>0, <2>2, <3>2
    <3>4. q # None
      BY <2>2, <3>2
    <3>5. pc[q] \in Held /\ docWork[d].state = "live" /\ docWork[d].of = Target(q)
      BY <3>3, <3>4
    <3> QED BY <3>2, <3>3, <3>5
  <2> QED BY <2>1, <2>2
<1>1. docLock' \in [Docs -> Procs \cup {None}]
  BY TablesStep DEF vars, tables, documentRows
<1>a. ASSUME NEW p \in Procs, \A q \in Procs \ {p} : Kept(q), Kept(p) PROVE OneNewDocument'
  <2> HIDE DEF Kept
  <2>1. \A q \in Procs : Kept(q)
    BY <1>a
  <2> QED BY <1>0, <1>1, <2>1
<1>c. ASSUME NEW p \in Procs, \A q \in Procs \ {p} : Kept(q),
             pc'[p] \in Held => \E d \in Docs : NewDocs(p)' = {d},
             \A d \in Docs : docs'[d].state = "absent" /\ docLock'[d] = p =>
               pc'[p] \in Held /\ docWork'[d].state = "live" /\ docWork'[d].of = Target(p)'
      PROVE  OneNewDocument'
  <2>1. ASSUME NEW q \in Procs, pc'[q] \in Held PROVE \E d \in Docs : NewDocs(q)' = {d}
    BY <1>c, <2>1
  <2>2. ASSUME NEW d \in Docs, docs'[d].state = "absent", docLock'[d] # None
        PROVE  (/\ pc[docLock[d]] \in Held
                /\ docWork[d].state = "live" /\ docWork[d].of = Target(docLock[d]))'
    <3>1. docLock'[d] \in Procs
      BY <1>1, <2>2
    <3>2. PICK q \in Procs : docLock'[d] = q
      BY <3>1
    <3>3. CASE q = p
      BY <1>c, <2>2, <3>2, <3>3
    <3>4. CASE q # p
      <4>1. /\ docs[d].state = "absent" /\ docLock[d] = q
            /\ docWork'[d] = docWork[d] /\ pc'[q] = pc[q] /\ Target(q)' = Target(q)
        BY <1>c, <2>2, <3>2, <3>4
      <4>2. q # None
        BY <2>2, <3>2
      <4>3. pc[q] \in Held /\ docWork[d].state = "live" /\ docWork[d].of = Target(q)
        BY <4>1, <4>2
      <4> QED BY <3>2, <4>1, <4>3
    <3> QED BY <3>3, <3>4
  <2> QED BY <2>1, <2>2
<1>b. ASSUME NEW p \in Procs, Rollback({p}), pc'[p] \notin Held,
             \A q \in Procs \ {p} : pc'[q] = pc[q] /\ Target(q)' = Target(q)
      PROVE  OneNewDocument'
  <2>1. \A q \in Procs \ {p} : Kept(q)
    BY <1>1, <1>b DEF Rollback
  <2>2. Kept(p)
    BY <1>1, <1>b DEF Rollback
  <2> QED BY <1>a, <2>1, <2>2
<1>2. ASSUME NEW c \in Clients, ClientStep(c) PROVE OneNewDocument'
  <2>0. \A q \in Procs \ {c} : pc'[q] = pc[q] /\ Target(q)' = Target(q)
    BY <1>2
       DEF ClientStep, SyncFind, Insert, RowWritten, Claim, Purge, PurgeDelete, Reset, SyncCommit,
           StoreBytes, BatchBegin, BatchFind, BatchReject, SaveOne, SaveFail, BatchCommit,
           EnqueueOne, RedisDown, DeleteFind, DeleteCommit, DropCollection, Abort, Reject,
           Respond, request
  <2>1. ASSUME UNCHANGED documentRows, pc[c] \notin Held, pc'[c] \notin Held PROVE OneNewDocument'
    BY <1>0, <1>1, <2>0, <2>1 DEF documentRows
  <2>2. ASSUME Rollback({c}), pc'[c] \notin Held PROVE OneNewDocument'
    BY <1>b, <2>0, <2>2
  <2>3. ASSUME Commit(c), pc'[c] \notin Held PROVE OneNewDocument'
    <3>1. \A q \in Procs \ {c} : Kept(q)
      BY <1>1, <2>0, <2>3 DEF Commit
    <3>2. Kept(c)
      BY <1>1, <2>3 DEF Commit
    <3> HIDE DEF Kept
    <3> QED BY <1>a, <3>1, <3>2
  <2>4. CASE Insert(c) \/ Reset(c)
    <3>1. CASE Reject(c)
      BY <2>2, <3>1 DEF Reject, Respond
    <3>2. CASE ~Reject(c)
      <4>1. UNCHANGED documentRows /\ pc[c] \in {"insert", "reset"} /\ RowWritten(c)
        BY <2>4, <3>2 DEF Insert, Reset
      <4>2. pc'[c] \in {"parse", "save", "next"}
        BY <4>1 DEF RowWritten
      <4> QED BY <2>1, <4>1, <4>2
    <3> QED BY <3>1, <3>2
  <2>5. CASE PurgeDelete(c)
    <3>1. pc[c] = "purging" /\ pc'[c] = "reset" /\ docs' = docs
      BY <2>5 DEF PurgeDelete, WriteDocs
    <3>2. \A d \in Docs : docs[d].state = "absent" => docLock'[d] = docLock[d] /\ docWork'[d] = docWork[d]
      BY <2>5 DEF PurgeDelete, WriteDocs
    <3> QED BY <1>0, <1>1, <2>0, <3>1, <3>2
  <2>6. CASE SyncCommit(c) \/ BatchCommit(c)
    BY <2>3, <2>6 DEF SyncCommit, BatchCommit, Respond
  <2>7. CASE BatchReject(c) \/ SaveFail(c) \/ Abort(c)
    BY <2>2, <2>7 DEF BatchReject, SaveFail, Abort, Reject, Respond
  <2>8. CASE DeleteCommit(c)
    <3>0. pc[c] = "delete" /\ pc'[c] = "idle"
      BY <2>8 DEF DeleteCommit, Respond
    <3>1. CASE UNCHANGED tables
      BY <2>1, <3>0, <3>1 DEF tables
    <3>2. CASE ~UNCHANGED tables
      <4>1. SoftDelete(tgt[c]) /\ \A d \in tgt[c] : docLock[d] = None /\ docs[d].state # "absent"
        BY <2>8, <3>2 DEF DeleteCommit, DocsUnlocked
      <4>2. \A r \in Document : [r EXCEPT !.state = "deleted", !.chunks = FALSE].state = "deleted"
        BY DEF Document
      <4>3. /\ docLock' = docLock
            /\ \A d \in Docs : docs'[d].state = "absent" <=> docs[d].state = "absent"
            /\ \A d \in Docs : docLock[d] # None => docWork'[d] = docWork[d]
        BY <4>1, <4>2 DEF SoftDelete
      <4>4. \A q \in Procs : Kept(q)
        BY <2>0, <3>0, <4>3
      <4> HIDE DEF Kept
      <4> QED BY <1>0, <1>1, <4>4
    <3> QED BY <3>1, <3>2
  <2>9. CASE DropCollection(c)
    <3>1. docLock' = docLock /\ pc' = pc /\ \A d \in Docs : docLock[d] = None
      BY <2>9 DEF DropCollection, DocsUnlocked
    <3> QED BY <3>1
  <2>10. CASE SyncFind(c) \/ Purge(c) \/ StoreBytes(c) \/ BatchBegin(c) \/ BatchFind(c)
              \/ SaveOne(c) \/ EnqueueOne(c) \/ RedisDown(c) \/ DeleteFind(c)
    BY <2>1, <2>10
       DEF SyncFind, Claim, Purge, StoreBytes, BatchBegin, BatchFind, SaveOne, EnqueueOne,
           RedisDown, DeleteFind, Respond, tables
  <2> QED BY <1>2, <2>4, <2>5, <2>6, <2>7, <2>8, <2>9, <2>10 DEF ClientStep
<1>3. ASSUME NEW s \in Sources, JobStep(s) PROVE OneNewDocument'
  <2>0. UNCHANGED at /\ \A q \in Procs \ {s} : pc'[q] = pc[q]
    BY <1>3
       DEF JobStep, JobStart, JobFetch, JobFail, JobCommit, JobFinish, JobTimeout, JobRefused,
           ExpireResult, RecoverOne, request
  <2>1. CASE JobCommit(s)
    <3>1. \A q \in Procs \ {s} : Kept(q)
      BY <1>1, <2>0, <2>1 DEF JobCommit, Commit
    <3>2. Kept(s)
      BY <1>1, <2>1 DEF JobCommit, Commit
    <3> HIDE DEF Kept
    <3> QED BY <1>a, <3>1, <3>2
  <2>2. CASE JobTimeout(s)
    BY <1>b, <2>0, <2>2 DEF JobTimeout
  <2>3. CASE JobStart(s) \/ JobFetch(s) \/ JobFail(s) \/ JobFinish(s)
    <3>1. UNCHANGED documentRows
      BY <2>3 DEF JobStart, JobFetch, JobFail, JobFinish, tables
    <3>2. pc[s] \notin Held /\ pc'[s] \notin Held
      BY <2>3 DEF JobStart, JobFetch, JobFail, JobFinish, JobShape
    <3>3. \A q \in Procs : Kept(q)
      BY <2>0, <3>1, <3>2 DEF documentRows
    <3> HIDE DEF Kept
    <3> QED BY <1>0, <1>1, <3>3
  <2>4. CASE JobRefused(s) \/ ExpireResult(s) \/ RecoverOne(s)
    BY <1>0, <1>1, <2>0, <2>4 DEF JobRefused, ExpireResult, RecoverOne, tables, documentRows
  <2> QED BY <1>3, <2>1, <2>2, <2>3, <2>4 DEF JobStep
<1>4. ASSUME NEW p \in Procs, PipelineStep(p) PROVE OneNewDocument'
  <2>0. UNCHANGED at /\ \A q \in Procs \ {p} : pc'[q] = pc[q]
    BY <1>4
       DEF PipelineStep, Parse, AddDocument, ChunkEmpty, Chunk, InsertChunks, PipelineFail, request
  <2>1. CASE Parse(p)
    <3>1. UNCHANGED documentRows /\ pc[p] \notin Held /\ pc'[p] \notin Held
      BY <2>1 DEF Parse
    <3>2. \A q \in Procs : Kept(q)
      BY <2>0, <3>1 DEF documentRows
    <3> HIDE DEF Kept
    <3> QED BY <1>0, <1>1, <3>2
  <2>2. CASE AddDocument(p)
    <3> DEFINE v == [state |-> "live", of |-> Target(p), chunks |-> FALSE]
    <3>1. PICK d \in FreshDocs : WriteDocs(p, {d}, v)
      BY <2>2 DEF AddDocument
    <3>2. v.state = "live" /\ v.of = Target(p)
      OBVIOUS
    <3>3. d \in Docs /\ docs[d].state = "absent" /\ docLock[d] = None
      BY DEF FreshDocs
    <3>4. NewDocs(p) = {} /\ pc[p] = "document" /\ pc'[p] = "chunk"
      BY <2>2 DEF AddDocument
    <3> HIDE DEF v
    <3>5. docs' = docs /\ docLock' = [docLock EXCEPT ![d] = p] /\ docWork' = [docWork EXCEPT ![d] = v]
      BY <3>1, <3>3 DEF WriteDocs
    <3>6. \A q \in Procs \ {p} : Kept(q)
      BY <2>0, <3>3, <3>5
    <3>7. NewDocs(p)' = {d}
      BY <3>3, <3>4, <3>5
    <3>8. ASSUME NEW e \in Docs, docs'[e].state = "absent", docLock'[e] = p
          PROVE  pc'[p] \in Held /\ docWork'[e].state = "live" /\ docWork'[e].of = Target(p)'
      <4>1. e = d
        BY <3>7, <3>8
      <4> QED BY <2>0, <3>2, <3>4, <3>5, <4>1
    <3> HIDE DEF Kept, NewDocs, OneNewDocument, Target
    <3> QED BY <1>c, <3>3, <3>6, <3>7, <3>8
  <2>3. CASE ChunkEmpty(p) \/ Chunk(p)
    <3>1. pc[p] = "chunk" /\ pc'[p] \in {"embed", "commit"} /\ UNCHANGED documentRows
      BY <2>3 DEF ChunkEmpty, Chunk
    <3>2. \A q \in Procs \ {p} : Kept(q)
      BY <2>0, <3>1 DEF documentRows
    <3>3. NewDocs(p)' = NewDocs(p) /\ Target(p)' = Target(p)
      BY <2>0, <3>1 DEF documentRows
    <3>4. \E d \in Docs : NewDocs(p) = {d}
      BY <3>1
    <3>5. \A d \in Docs : docs'[d].state = "absent" /\ docLock'[d] = p =>
            docWork'[d].state = "live" /\ docWork'[d].of = Target(p)
      BY <3>1 DEF documentRows
    <3> HIDE DEF Kept, NewDocs, OneNewDocument, Target
    <3> QED BY <1>c, <3>1, <3>2, <3>3, <3>4, <3>5
  <2>4. CASE InsertChunks(p)
    <3> DEFINE v == [state |-> "live", of |-> Target(p), chunks |-> TRUE]
    <3>1. WriteDocs(p, NewDocs(p), v) /\ pc[p] = "embed" /\ pc'[p] = "commit"
      BY <2>4 DEF InsertChunks
    <3>2. v.state = "live" /\ v.of = Target(p)
      OBVIOUS
    <3> HIDE DEF v
    <3>3. /\ docs' = docs /\ docLock' = docLock
          /\ \A d \in Docs : docWork'[d] = IF docLock[d] = p /\ docs[d].state = "absent"
                                          THEN v ELSE docWork[d]
      BY <3>1 DEF WriteDocs
    <3> QED BY <2>0, <3>1, <3>2, <3>3
  <2>5. CASE PipelineFail(p)
    <3>1. pc'[p] \notin Held
      BY <2>5 DEF PipelineFail
    <3>2. CASE DropNewDocs(p)
      <4>1. \A q \in Procs \ {p} : Kept(q)
        BY <1>1, <2>0, <3>2 DEF DropNewDocs
      <4>2. Kept(p)
        BY <1>1, <3>1, <3>2 DEF DropNewDocs
      <4> QED BY <1>a, <4>1, <4>2
    <3>3. CASE Rollback({p})
      BY <1>b, <2>0, <3>1, <3>3
    <3> QED BY <2>5, <3>2, <3>3 DEF PipelineFail
  <2> QED BY <1>4, <2>1, <2>2, <2>3, <2>4, <2>5 DEF PipelineStep
<1>5. CASE WorkerStop
  <2>1. /\ UNCHANGED at /\ docs' = docs
        /\ pc' = [p \in Procs |-> IF p \in Sources THEN "idle" ELSE pc[p]]
        /\ \A d \in Docs : docLock'[d] = IF docLock[d] \in Sources THEN None ELSE docLock[d]
        /\ \A d \in Docs : docLock[d] \notin Sources => docWork'[d] = docWork[d]
    BY <1>5 DEF WorkerStop, Rollback, request
  <2>2. \A q \in Clients : Kept(q)
    BY <1>1, <2>1
  <2>3. \A q \in Sources : Kept(q)
    BY <1>1, <2>1
  <2>4. \A q \in Procs : Kept(q)
    BY <2>2, <2>3
  <2> QED BY <1>0, <1>1, <2>4
<1>6. CASE WorkerBoot \/ WorkerReady \/ UNCHANGED vars
  BY <1>0, <1>1, <1>6 DEF WorkerBoot, WorkerReady, vars, tables, documentRows, request
<1> QED BY <1>2, <1>3, <1>4, <1>5, <1>6 DEF Next

(***************************************************************************)
(* The theorems.                                                           *)
(***************************************************************************)
\* The invariant holds initially ...
LEMMA InitInv == Init => IInv
<1> SUFFICES ASSUME Init PROVE IInv
  OBVIOUS
<1> USE ProcsAssumption, RowShapes DEF Init, TablesInit, Procs
<1>1. TypeOK
  BY DEF TypeOK, TablesTypeOK, ClientSteps
<1>2. RequestShape /\ JobShape
  BY DEF RequestShape, JobShape, ClientSteps, JobSteps, HasTarget, Claiming
<1>3. OneVersion /\ RowLocks /\ WorkVersion
  BY DEF OneVersion, RowLocks, WorkVersion
<1>4. LocksKept
  BY DEF LocksKept, Uploading, Claiming, JobWriting
<1>5. SettledRows /\ PendingHasBytes
  BY DEF SettledRows, PendingHasBytes, NoSource, Settled
<1>6. BytesFirst /\ DurableFirst /\ JobsAreDurable
  BY DEF BytesFirst, DurableFirst, JobsAreDurable
<1>7. OneNewDocument
  BY DEF OneNewDocument
<1> QED BY <1>1, <1>2, <1>3, <1>4, <1>5, <1>6, <1>7 DEF IInv

\* ... and every step preserves it.
LEMMA StepInv == IInv /\ [Next]_vars => IInv'
BY ShapeStep, OneVersionStep, LocksStep, WorkStep, SettledStep, BytesStep, PendingBytesStep,
   DurableFirstStep, JobsDurableStep, NewDocumentStep
DEF IInv

\* Every reachable state satisfies the inductive invariant.
THEOREM Invariance == Spec => []IInv
BY InitInv, StepInv, PTL DEF Spec

\* Every variable keeps its type.
THEOREM Typing == Spec => []TypeOK
BY Invariance, PTL DEF IInv

\* No commit ever publishes an intermediate ingest_status.
THEOREM Settlement == Spec => []SettledRows
BY Invariance, PTL DEF IInv

\* A committed PENDING row has bytes in the upload storage.
THEOREM Storage == Spec => []PendingHasBytes
BY Invariance, PTL DEF IInv

\* A queued job belongs to a committed row.
THEOREM Durability == Spec => []JobsAreDurable
BY Invariance, PTL DEF IInv

\* Only an upload's commit brings a deleted source back.
THEOREM Deletion == Spec => DeletionSticks
<1> DEFINE Sticks == \A s \in Sources :
             row[s].deleted /\ Exists(s)' /\ ~row'[s].deleted => lock[s] \in Clients
<1>1. IInv /\ [Next]_vars => Sticks
  <2> SUFFICES ASSUME IInv, [Next]_vars, NEW s \in Sources,
                      row[s].deleted, Exists(s)', ~row'[s].deleted, lock[s] \notin Clients
               PROVE  FALSE
    OBVIOUS
  <2> USE DEF IInv, TypeOK, TablesTypeOK
  <2>1. \A p : Commit(p) /\ lock[s] # p => row'[s] = row[s]
    BY DEF Commit
  <2>2. ASSUME NEW r, NEW t \in Sources, r.deleted = row[t].deleted \/ r.deleted, WriteThrough(t, r)
        PROVE  FALSE
    BY <2>2 DEF WriteThrough
  <2>3. row' = row => FALSE
    OBVIOUS
  <2>4. ASSUME NEW c \in Clients, ClientStep(c) PROVE FALSE
    <3>1. CASE SyncCommit(c) \/ BatchCommit(c)
      BY <2>1, <3>1 DEF SyncCommit, BatchCommit
    <3>2. CASE DeleteCommit(c)
      <4>1. row' = row \/ WriteThrough(at[c], [row[at[c]] EXCEPT !.deleted = TRUE])
        BY <3>2 DEF DeleteCommit, tables, sourceRows
      <4>2. at[c] \in Sources /\ row[at[c]] \in Source
        BY <3>2 DEF DeleteCommit, RequestShape, HasTarget
      <4>3. [row[at[c]] EXCEPT !.deleted = TRUE].deleted
        BY <4>2 DEF Source
      <4> QED BY <2>2, <2>3, <4>1, <4>2, <4>3
    <3>3. CASE DropCollection(c)
      BY <3>3 DEF DropCollection, Exists, NoSource
    <3> QED BY <2>3, <2>4, <3>1, <3>2, <3>3
          DEF ClientStep, SyncFind, Insert, Purge, PurgeDelete, Reset, Write, Reject, Rollback,
              StoreBytes, BatchBegin, BatchFind, BatchReject, SaveOne, SaveFail, EnqueueOne,
              RedisDown, DeleteFind, Abort, tables, sourceRows
  <2>5. ASSUME NEW t \in Sources, JobStep(t) PROVE FALSE
    <3>1. CASE JobFail(t)
      <4>1. row' = row \/ WriteThrough(t, [row[t] EXCEPT !.status = "failed"])
        BY <3>1 DEF JobFail, sourceRows
      <4>2. [row[t] EXCEPT !.status = "failed"].deleted = row[t].deleted
        BY DEF Source
      <4> QED BY <2>2, <2>3, <4>1, <4>2
    <3>2. CASE JobCommit(t)
      <4>1. lock[s] = t => row'[s].deleted = row[s].deleted
        BY <3>2, ProcsAssumption DEF JobCommit, Commit, WorkVersion, Procs
      <4> QED BY <2>1, <3>2, <4>1 DEF JobCommit
    <3> QED BY <2>3, <2>5, <3>1, <3>2
          DEF JobStep, JobStart, JobFetch, JobFinish, JobTimeout, JobRefused, ExpireResult,
              RecoverOne, Rollback, tables, sourceRows
  <2>6. ASSUME NEW p \in Procs, PipelineStep(p) PROVE FALSE
    BY <2>3, <2>6
       DEF PipelineStep, Parse, AddDocument, ChunkEmpty, Chunk, InsertChunks, PipelineFail,
           SetStatus, Write, Rollback, sourceRows
  <2> QED BY <2>3, <2>4, <2>5, <2>6
        DEF Next, WorkerStop, WorkerBoot, WorkerReady, Rollback, vars, tables, sourceRows
<1>2. Sticks => [Sticks]_vars
  OBVIOUS
<1> QED BY <1>1, Invariance, PTL DEF Spec, DeletionSticks

\* The commit of process p publishes a document exactly when it completes its source.
LEMMA CommitIsAtomic ==
  ASSUME IInv, NEW p \in Procs, Commit(p),
         pc[p] \in {"commit", "record", "publish"}, NEW s \in Sources
  PROVE  /\ Appearing(s) # {} => row'[s].status = "completed"
         /\ row'[s].status = "completed" /\ row[s].status # "completed"
              => \E d \in Docs : Appearing(s) = {d}
<1> USE ProcsAssumption DEF IInv, TypeOK, TablesTypeOK, Procs
<1>1. p \in Sources => pc[p] = "commit"
  BY DEF JobShape, JobSteps, PipelineSteps
<1>2. Appearing(s) = {d \in NewDocs(p) : docWork[d].state = "live" /\ docWork[d].of = s}
  BY DEF Appearing, NewDocs, Commit
<1>3. row'[s] = IF lock[s] = p THEN work[s] ELSE row[s]
  BY DEF Commit
<1>4. CASE pc[p] = "commit"
  <2>1. PICK d \in Docs : NewDocs(p) = {d}
    BY <1>4 DEF OneNewDocument
  <2>2. d \in NewDocs(p)
    BY <2>1
  <2>3. docs[d].state = "absent" /\ docLock[d] = p
    BY <2>2 DEF NewDocs
  <2>4. docWork[d].state = "live" /\ docWork[d].of = Target(p)
    BY <2>3 DEF OneNewDocument
  <2>5. Appearing(s) = IF s = Target(p) THEN {d} ELSE {}
    BY <1>2, <2>1, <2>4
  <2>6. lock[s] = p => s = Target(p) /\ work[s].status = "completed"
    BY <1>4 DEF RowLocks, WorkVersion, Writing, Claiming, Target
  <2>7. s = Target(p) => lock[s] = p
    BY <1>4 DEF LocksKept, Uploading, JobWriting, Target
  <2> QED BY <1>3, <2>5, <2>6, <2>7
<1>5. CASE pc[p] \in {"record", "publish"}
  <2>1. Appearing(s) = {}
    BY <1>2, <1>5 DEF OneNewDocument, NewDocs
  <2>2. lock[s] = p => work[s].status \in {"failed", "pending", row[s].status}
    BY <1>1, <1>5 DEF WorkVersion, Writing
  <2> QED BY <1>3, <2>1, <2>2
<1> QED BY <1>4, <1>5

\* A document appears exactly when its source becomes COMPLETED.
THEOREM Atomicity == Spec => IngestIsAtomic
<1> DEFINE Atomic == \A s \in Sources :
       /\ Appearing(s) # {} => row'[s].status = "completed"
       /\ row'[s].status = "completed" /\ row[s].status # "completed"
            => \E d \in Docs : Appearing(s) = {d}
<1>1. IInv /\ [Next]_vars => Atomic
  <2> SUFFICES ASSUME IInv, [Next]_vars, NEW s \in Sources
               PROVE  /\ Appearing(s) # {} => row'[s].status = "completed"
                      /\ row'[s].status = "completed" /\ row[s].status # "completed"
                           => \E d \in Docs : Appearing(s) = {d}
    OBVIOUS
  <2> DEFINE Quiet == /\ Appearing(s) = {}
                      /\ row'[s].status = "completed" => row[s].status = "completed"
  <2> SUFFICES ASSUME ~\E p \in Procs : Commit(p) /\ pc[p] \in {"commit", "record", "publish"}
               PROVE  Quiet
    BY CommitIsAtomic
  <2> USE ProcsAssumption DEF IInv, TypeOK, TablesTypeOK, Procs
  <2>1. docs' = docs => Appearing(s) = {}
    BY DEF Appearing
  <2>2. row' = row /\ docs' = docs => Quiet
    BY <2>1
  <2> HIDE DEF Quiet
  <2>3. ASSUME NEW c \in Clients, ClientStep(c) PROVE Quiet
    <3>1. CASE SyncCommit(c) \/ BatchCommit(c)
      BY <3>1 DEF SyncCommit, BatchCommit
    <3>2. CASE DeleteCommit(c)
      <4>1. CASE UNCHANGED tables
        BY <2>2, <4>1 DEF tables, sourceRows, documentRows
      <4>2. CASE ~UNCHANGED tables
        <5>1. /\ row' = [row EXCEPT ![at[c]] = [row[at[c]] EXCEPT !.deleted = TRUE]]
              /\ SoftDelete(tgt[c])
              /\ \A d \in tgt[c] : docs[d].state # "absent"
          BY <3>2, <4>2 DEF DeleteCommit, WriteThrough
        <5>2. row'[s].status = row[s].status
          BY <5>1 DEF Source
        <5>3. \A d \in Docs : d \notin tgt[c] => docs'[d] = docs[d]
          BY <5>1 DEF SoftDelete
        <5>4. Appearing(s) = {}
          BY <5>1, <5>3 DEF Appearing
        <5> QED BY <5>2, <5>4 DEF Quiet
      <4> QED BY <4>1, <4>2
    <3>3. CASE DropCollection(c)
      BY <3>3 DEF DropCollection, NoSource, NoDocument, Appearing, Quiet
    <3> QED BY <2>2, <2>3, <3>1, <3>2, <3>3
          DEF ClientStep, SyncFind, Insert, Purge, PurgeDelete, Reset, Write, WriteDocs, Reject,
              Rollback, StoreBytes, BatchBegin, BatchFind, BatchReject, SaveOne, SaveFail,
              EnqueueOne, RedisDown, DeleteFind, Abort, tables, sourceRows, documentRows
  <2>4. ASSUME NEW t \in Sources, JobStep(t) PROVE Quiet
    <3>1. CASE JobFail(t)
      <4>1. docs' = docs
        BY <3>1 DEF JobFail, documentRows
      <4>2. row' = row \/ row' = [row EXCEPT ![t] = [row[t] EXCEPT !.status = "failed"]]
        BY <3>1 DEF JobFail, WriteThrough, sourceRows
      <4>3. [row[t] EXCEPT !.status = "failed"].status = "failed"
        BY DEF Source
      <4> QED BY <2>1, <4>1, <4>2, <4>3 DEF Quiet
    <3>2. CASE JobCommit(t)
      BY <3>2 DEF JobCommit
    <3> QED BY <2>2, <2>4, <3>1, <3>2
          DEF JobStep, JobStart, JobFetch, JobFinish, JobTimeout, JobRefused, ExpireResult,
              RecoverOne, Rollback, tables, sourceRows, documentRows
  <2>5. ASSUME NEW p \in Procs, PipelineStep(p) PROVE Quiet
    BY <2>2, <2>5
       DEF PipelineStep, Parse, AddDocument, ChunkEmpty, Chunk, InsertChunks, PipelineFail,
           SetStatus, Write, WriteDocs, DropNewDocs, Rollback, sourceRows, documentRows
  <2> QED BY <2>2, <2>3, <2>4, <2>5
        DEF Next, WorkerStop, WorkerBoot, WorkerReady, Rollback, vars, tables, sourceRows,
            documentRows
<1>2. Atomic => [Atomic]_vars
  OBVIOUS
<1> QED BY <1>1, Invariance, PTL DEF Spec, IngestIsAtomic

(***************************************************************************)
(* Which steps change what.                                                *)
(***************************************************************************)
\* The steps that change the committed version of row s.
RowChange(s) ==
  \/ \E c \in Clients : /\ SyncCommit(c) \/ BatchCommit(c)
                        /\ lock[s] = c /\ row'[s] = work[s]
  \/ JobCommit(s) /\ lock[s] = s /\ row'[s] = work[s]
  \/ /\ JobFail(s) /\ lock[s] = None /\ Exists(s)
     /\ row'[s] = [row[s] EXCEPT !.status = "failed"]
  \/ \E c \in Clients : /\ DeleteCommit(c) /\ at[c] = s /\ lock[s] = None /\ Exists(s)
                        /\ row'[s] = [row[s] EXCEPT !.deleted = TRUE]
  \/ \E c \in Clients : DropCollection(c)

LEMMA RowChanges ==
  ASSUME IInv, [Next]_vars, NEW s \in Sources
  PROVE  row'[s] = row[s] \/ RowChange(s)
<1> USE ProcsAssumption DEF IInv, TypeOK, TablesTypeOK, Procs
<1>1. ASSUME NEW c \in Clients, ClientStep(c) PROVE row'[s] = row[s] \/ RowChange(s)
  <2>1. CASE SyncCommit(c) \/ BatchCommit(c)
    BY <2>1 DEF SyncCommit, BatchCommit, Commit, RowChange
  <2>2. CASE DeleteCommit(c)
    <3>1. CASE UNCHANGED tables
      BY <3>1 DEF tables, sourceRows
    <3>2. CASE ~UNCHANGED tables
      <4>1. /\ row' = [row EXCEPT ![at[c]] = [row[at[c]] EXCEPT !.deleted = TRUE]]
            /\ Exists(at[c]) /\ lock[at[c]] = None
        BY <2>2, <3>2 DEF DeleteCommit, WriteThrough, Unlocked
      <4>2. CASE s = at[c]
        BY <2>2, <4>1, <4>2 DEF RowChange
      <4>3. CASE s # at[c]
        BY <4>1, <4>3
      <4> QED BY <4>2, <4>3
    <3> QED BY <3>1, <3>2
  <2>3. CASE DropCollection(c)
    BY <2>3 DEF RowChange
  <2> QED BY <1>1, <2>1, <2>2, <2>3
        DEF ClientStep, SyncFind, Insert, Purge, PurgeDelete, Reset, Write, Reject, Rollback,
            StoreBytes, BatchBegin, BatchFind, BatchReject, SaveOne, SaveFail, EnqueueOne,
            RedisDown, DeleteFind, Abort, tables, sourceRows
<1>2. ASSUME NEW t \in Sources, JobStep(t) PROVE row'[s] = row[s] \/ RowChange(s)
  <2>1. CASE JobFail(t)
    BY <2>1 DEF JobFail, WriteThrough, Unlocked, sourceRows, RowChange
  <2>2. CASE JobCommit(t)
    <3>1. row'[s] = row[s] \/ (lock[s] = t /\ row'[s] = work[s])
      BY <2>2 DEF JobCommit, Commit
    <3>2. lock[s] = t => s = t
      BY DEF RowLocks
    <3> QED BY <2>2, <3>1, <3>2 DEF RowChange
  <2> QED BY <1>2, <2>1, <2>2
        DEF JobStep, JobStart, JobFetch, JobFinish, JobTimeout, JobRefused, ExpireResult,
            RecoverOne, Rollback, tables, sourceRows
<1>3. ASSUME NEW p \in Procs, PipelineStep(p) PROVE row' = row
  BY <1>3 DEF PipelineStep, Parse, AddDocument, ChunkEmpty, Chunk, InsertChunks, PipelineFail,
              SetStatus, Write, Rollback, sourceRows
<1>4. WorkerStop \/ WorkerBoot \/ WorkerReady \/ UNCHANGED vars => row' = row
  BY DEF WorkerStop, WorkerBoot, WorkerReady, Rollback, vars, tables, sourceRows
<1> QED BY <1>1, <1>2, <1>3, <1>4 DEF Next

\* The steps that write an uncommitted version of row s, or take its lock.
WorkChange(s) ==
  \/ \E c \in Clients : /\ Insert(c) /\ at[c] = s /\ lock'[s] = c /\ ~Exists(s)
                        /\ work'[s] = NewSource(name[c])
  \/ \E c \in Clients : /\ Reset(c) /\ at[c] = s /\ lock'[s] = c /\ Exists(s)
                        /\ work'[s] = ResetRow(seen[c], name[c], row[s])
  \/ \E p \in Procs, st \in IngestStatus :
       /\ PipelineStep(p) /\ Target(p) = s /\ lock[s] \in {p, None} /\ lock'[s] = p
       /\ pc[p] # "parse" => lock[s] = p
       /\ work'[s] = [work[s] EXCEPT !.status = st]

LEMMA WorkChanges ==
  ASSUME IInv, [Next]_vars, NEW s \in Sources
  PROVE  \/ lock'[s] = lock[s] /\ work'[s] = work[s]
         \/ lock'[s] = None
         \/ WorkChange(s)
<1> USE ProcsAssumption DEF IInv, TypeOK, TablesTypeOK, Procs
<1> DEFINE Goal == \/ lock'[s] = lock[s] /\ work'[s] = work[s]
                   \/ lock'[s] = None
                   \/ WorkChange(s)
<1>1. \A P : Rollback(P) => Goal
  BY DEF Rollback
<1>2. \A p : Commit(p) => Goal
  BY DEF Commit
<1>3. UNCHANGED sourceRows => Goal
  BY DEF sourceRows
<1>4. ASSUME NEW c \in Clients, ClientStep(c) PROVE Goal
  <2>1. CASE Insert(c)
    <3>1. CASE Reject(c)
      BY <1>1, <3>1 DEF Reject
    <3>2. CASE ~Reject(c)
      <4>1. /\ ~Exists(at[c]) /\ Write(c, at[c], NewSource(name[c]))
        BY <2>1, <3>2 DEF Insert
      <4> QED BY <2>1, <4>1 DEF Write, WorkChange
    <3> QED BY <3>1, <3>2
  <2>2. CASE Reset(c)
    <3>1. CASE Reject(c)
      BY <1>1, <3>1 DEF Reject
    <3>2. CASE ~Reject(c)
      <4>1. /\ Exists(at[c]) /\ Write(c, at[c], ResetRow(seen[c], name[c], row[at[c]]))
        BY <2>2, <3>2 DEF Reset
      <4> QED BY <2>2, <4>1 DEF Write, WorkChange
    <3> QED BY <3>1, <3>2
  <2>3. CASE DeleteCommit(c)
    BY <1>3, <2>3 DEF DeleteCommit, WriteThrough, Unlocked, tables
  <2>4. CASE DropCollection(c)
    BY <2>4 DEF DropCollection, Unlocked
  <2> QED BY <1>1, <1>2, <1>3, <1>4, <2>1, <2>2, <2>3, <2>4
        DEF ClientStep, SyncFind, Purge, PurgeDelete, SyncCommit, BatchCommit, Reject,
            StoreBytes, BatchBegin, BatchFind, BatchReject, SaveOne, SaveFail, EnqueueOne,
            RedisDown, DeleteFind, Abort, tables
<1>5. ASSUME NEW t \in Sources, JobStep(t) PROVE Goal
  <2>1. CASE JobFail(t)
    BY <1>3, <2>1 DEF JobFail, WriteThrough, Unlocked
  <2> QED BY <1>1, <1>2, <1>3, <1>5, <2>1
        DEF JobStep, JobStart, JobFetch, JobCommit, JobFinish, JobTimeout, JobRefused, ExpireResult,
            RecoverOne, tables
<1>6. ASSUME NEW p \in Procs, PipelineStep(p) PROVE Goal
  <2>1. /\ pc[p] \in {"parse", "document", "chunk", "embed"}
        /\ \/ UNCHANGED sourceRows
           \/ Rollback({p})
           \/ lock[Target(p)] \in {p, None} /\ \E st \in IngestStatus : SetStatus(p, Target(p), st)
           \/ pc[p] # "parse" /\ \E st \in IngestStatus : SetStatus(p, Target(p), st)
    BY <1>6 DEF PipelineStep, Parse, AddDocument, ChunkEmpty, Chunk, InsertChunks, PipelineFail,
                IngestStatus, Settled
  <2>2. Target(p) \in Sources /\ (pc[p] # "parse" => lock[Target(p)] = p)
    BY <2>1 DEF Target, RequestShape, HasTarget, LocksKept, Uploading, JobWriting
  <2>3. ASSUME NEW st \in IngestStatus, SetStatus(p, Target(p), st), lock[Target(p)] \in {p, None}
        PROVE  Goal
    <3>1. CASE s = Target(p)
      BY <1>6, <2>2, <2>3, <3>1 DEF SetStatus, Write, WorkChange
    <3>2. CASE s # Target(p)
      BY <2>2, <2>3, <3>2 DEF SetStatus, Write
    <3> QED BY <3>1, <3>2
  <2> QED BY <1>1, <1>3, <2>1, <2>2, <2>3
<1>7. WorkerStop \/ WorkerBoot \/ WorkerReady \/ UNCHANGED vars => Goal
  BY <1>1, <1>3 DEF WorkerStop, WorkerBoot, WorkerReady, vars, tables
<1> QED BY <1>4, <1>5, <1>6, <1>7 DEF Next

\* Where a job's process and the boot scan can come from.
LEMMA JobMove ==
  ASSUME TypeOK, [Next]_vars, NEW s \in Sources
  PROVE  /\ pc'[s] \in {"fetch", "fail"} \cup PipelineSteps =>
              \/ pc[s] \in {"fetch", "fail"} \cup PipelineSteps /\ ~JobCommit(s) /\ ~JobFail(s)
              \/ row[s].status = "pending" /\ row' = row
         /\ s \in boot' => s \in boot \/ (row[s].status = "pending" /\ row' = row)
         /\ job[s] = "none" /\ job'[s] # "none" =>
              \/ s \in boot
              \/ \E c \in Clients : pc[c] = "enqueue" /\ s \in todo[c]
<1> USE ProcsAssumption DEF TypeOK, Procs, Goto, PipelineSteps
<1> DEFINE Goal ==
         /\ pc'[s] \in {"fetch", "fail"} \cup PipelineSteps =>
              \/ pc[s] \in {"fetch", "fail"} \cup PipelineSteps /\ ~JobCommit(s) /\ ~JobFail(s)
              \/ row[s].status = "pending" /\ row' = row
         /\ s \in boot' => s \in boot \/ (row[s].status = "pending" /\ row' = row)
         /\ job[s] = "none" /\ job'[s] # "none" =>
              \/ s \in boot
              \/ \E c \in Clients : pc[c] = "enqueue" /\ s \in todo[c]
<1>0. JobCommit(s) \/ JobFail(s) => pc'[s] = "done"
  BY DEF JobCommit, JobFail
<1>1. ASSUME NEW c \in Clients, ClientStep(c) PROVE Goal
  <2>1. /\ UNCHANGED worker /\ pc'[s] = pc[s]
        /\ job'[s] = job[s] \/ (pc[c] = "enqueue" /\ s \in todo[c])
    BY <1>1
       DEF ClientStep, SyncFind, Claim, Insert, Purge, PurgeDelete, Reset, SyncCommit, BatchCommit,
           Reject, StoreBytes, BatchBegin, BatchFind, BatchReject, SaveOne, SaveFail, EnqueueOne,
           RedisDown, DeleteFind, DeleteCommit, DropCollection, Abort, Respond, RowWritten, queue,
           Enqueue
  <2> QED BY <1>0, <2>1 DEF worker
<1>2. ASSUME NEW t \in Sources, JobStep(t) PROVE Goal
  <2>1. CASE JobStart(t)
    BY <1>0, <2>1 DEF JobStart, worker, tables, sourceRows
  <2>2. CASE JobFetch(t) \/ JobFail(t) \/ JobCommit(t)
    BY <1>0, <2>2 DEF JobFetch, JobFail, JobCommit, worker, queue
  <2>3. CASE JobFinish(t) \/ JobTimeout(t) \/ JobRefused(t)
    BY <1>0, <2>3 DEF JobFinish, JobTimeout, JobRefused, Finish, worker
  <2>4. CASE ExpireResult(t) \/ RecoverOne(t)
    BY <1>0, <2>4 DEF ExpireResult, RecoverOne, Enqueue, worker
  <2> QED BY <1>2, <2>1, <2>2, <2>3, <2>4 DEF JobStep
<1>3. ASSUME NEW p \in Procs, PipelineStep(p) PROVE Goal
  BY <1>0, <1>3
     DEF PipelineStep, Parse, AddDocument, ChunkEmpty, Chunk, InsertChunks, PipelineFail, worker, queue
<1>4. CASE WorkerStop
  BY <1>0, <1>4 DEF WorkerStop
<1>5. CASE WorkerBoot \/ WorkerReady \/ UNCHANGED vars
  BY <1>0, <1>5 DEF WorkerBoot, WorkerReady, vars, worker, queue, tables, sourceRows
<1> QED BY <1>1, <1>2, <1>3, <1>4, <1>5 DEF Next

\* Once the collection is gone every writer finds its row gone.
LEMMA DroppedStep ==
  ASSUME IInv, DroppedIsEmpty, [Next]_vars
  PROVE  DroppedIsEmpty'
<1> USE ProcsAssumption DEF DroppedIsEmpty, IInv, TypeOK, TablesTypeOK, Procs
<1> SUFFICES ASSUME ~collection', NEW s \in Sources
             PROVE  ~Exists(s)' /\ lock'[s] = None
  OBVIOUS
<1>1. CASE collection
  <2>1. PICK c \in Clients : DropCollection(c)
    BY <1>1 DEF Next, ClientStep, SyncFind, Insert, Purge, PurgeDelete, Reset, SyncCommit, Commit,
         StoreBytes, BatchBegin, BatchFind, BatchReject, SaveOne, SaveFail, BatchCommit, EnqueueOne,
         RedisDown, DeleteFind, DeleteCommit, Abort, Reject, Rollback, JobStep, JobStart,
         JobFetch, JobFail, JobCommit, JobFinish, JobTimeout, JobRefused, ExpireResult, RecoverOne,
         PipelineStep, Parse, AddDocument, ChunkEmpty, Chunk, InsertChunks, PipelineFail,
         WorkerStop, WorkerBoot, WorkerReady, vars, tables
  <2> QED BY <2>1 DEF DropCollection, Unlocked, Exists, NoSource
<1>2. CASE ~collection
  <2>0. /\ \A t \in Sources : ~Exists(t) /\ lock[t] = None
        /\ \A c \in Clients : pc[c] \notin Uploading
        /\ \A t \in Sources : pc[t] \notin JobWriting
    BY <1>2 DEF LocksKept, Uploading, RequestShape, HasTarget
  <2>1. UNCHANGED <<row, lock>> => ~Exists(s)' /\ lock'[s] = None
    BY <2>0 DEF Exists
  <2>2. \A P : Rollback(P) => UNCHANGED <<row, lock>>
    BY <2>0 DEF Rollback
  <2>3. \A p \in Procs : Commit(p) => UNCHANGED <<row, lock>>
    BY <2>0 DEF Commit
  <2>4. ASSUME NEW c \in Clients, ClientStep(c) PROVE UNCHANGED <<row, lock>>
    <3>1. CASE Insert(c) \/ Reset(c)
      <4>1. at[c] \in Sources
        BY <3>1 DEF Insert, Reset, RequestShape, HasTarget
      <4> QED BY <1>2, <2>0, <2>2, <3>1, <4>1 DEF Insert, Reset, Reject
    <3>2. CASE DeleteCommit(c)
      <4>1. at[c] \in Sources
        BY <3>2 DEF DeleteCommit, RequestShape, HasTarget
      <4> QED BY <2>0, <3>2, <4>1 DEF DeleteCommit, tables, sourceRows
    <3> QED BY <1>2, <2>2, <2>3, <2>4, <3>1, <3>2
          DEF ClientStep, SyncFind, Purge, PurgeDelete, SyncCommit, StoreBytes, BatchBegin,
              BatchFind, BatchReject, SaveOne, SaveFail, BatchCommit, EnqueueOne, RedisDown,
              DeleteFind, DropCollection, Abort, Reject, tables, sourceRows
  <2>5. ASSUME NEW t \in Sources, JobStep(t) PROVE UNCHANGED <<row, lock>>
    BY <2>0, <2>2, <2>3, <2>5
       DEF JobStep, JobStart, JobFetch, JobFail, JobCommit, JobFinish, JobTimeout, JobRefused,
           ExpireResult, RecoverOne, tables, sourceRows
  <2>6. ASSUME NEW p \in Procs, PipelineStep(p) PROVE UNCHANGED <<row, lock>>
    <3>1. pc[p] \in {"parse", "document", "chunk", "embed"} => p \in Sources /\ pc[p] = "parse"
      BY <2>0 DEF Uploading, JobWriting
    <3> QED BY <2>0, <2>6, <3>1
          DEF PipelineStep, Parse, AddDocument, ChunkEmpty, Chunk, InsertChunks, PipelineFail,
              Target, sourceRows
  <2>7. WorkerStop \/ WorkerBoot \/ WorkerReady \/ UNCHANGED vars => UNCHANGED <<row, lock>>
    BY <2>2 DEF WorkerStop, WorkerBoot, WorkerReady, vars, tables, sourceRows
  <2> QED BY <2>1, <2>4, <2>5, <2>6, <2>7 DEF Next
<1> QED BY <1>1, <1>2

\* A request changes by a step of its own only.
LEMMA RequestStays ==
  ASSUME TypeOK, [Next]_vars, NEW c \in Clients, ~ClientStep(c), ~PipelineStep(c)
  PROVE  /\ pc'[c] = pc[c] /\ seen'[c] = seen[c] /\ at'[c] = at[c] /\ name'[c] = name[c]
         /\ batch'[c] = batch[c] /\ todo'[c] = todo[c] /\ tgt'[c] = tgt[c]
<1> USE ProcsAssumption DEF TypeOK, Procs, request, Goto
<1> DEFINE Goal == /\ pc'[c] = pc[c] /\ seen'[c] = seen[c] /\ at'[c] = at[c] /\ name'[c] = name[c]
                   /\ batch'[c] = batch[c] /\ todo'[c] = todo[c] /\ tgt'[c] = tgt[c]
<1>1. ASSUME NEW b \in Clients \ {c}, ClientStep(b) PROVE Goal
  <2>1. CASE SyncFind(b) \/ Insert(b) \/ Purge(b) \/ PurgeDelete(b) \/ Reset(b)
    BY <2>1 DEF SyncFind, Claim, Insert, Purge, PurgeDelete, Reset, Reject, Respond, RowWritten
  <2>2. CASE SyncCommit(b) \/ StoreBytes(b) \/ BatchBegin(b) \/ BatchFind(b) \/ BatchReject(b)
    BY <2>2 DEF SyncCommit, StoreBytes, BatchBegin, BatchFind, Claim, BatchReject, Reject, Respond
  <2>3. CASE SaveOne(b) \/ SaveFail(b) \/ BatchCommit(b) \/ EnqueueOne(b) \/ RedisDown(b)
    BY <2>3 DEF SaveOne, SaveFail, BatchCommit, EnqueueOne, RedisDown, Reject, Respond
  <2>4. CASE DeleteFind(b) \/ DeleteCommit(b) \/ DropCollection(b) \/ Abort(b)
    BY <2>4 DEF DeleteFind, DeleteCommit, DropCollection, Abort, Reject, Respond
  <2> QED BY <1>1, <2>1, <2>2, <2>3, <2>4 DEF ClientStep
<1>2. ASSUME NEW s \in Sources, JobStep(s) PROVE Goal
  BY <1>2 DEF JobStep, JobStart, JobFetch, JobFail, JobCommit, JobFinish, JobTimeout, JobRefused,
              ExpireResult, RecoverOne
<1>3. ASSUME NEW p \in Procs \ {c}, PipelineStep(p) PROVE Goal
  BY <1>3 DEF PipelineStep, Parse, AddDocument, ChunkEmpty, Chunk, InsertChunks, PipelineFail
<1>4. CASE WorkerStop \/ WorkerBoot \/ WorkerReady \/ UNCHANGED vars
  BY <1>4 DEF WorkerStop, WorkerBoot, WorkerReady, vars
<1> QED BY <1>1, <1>2, <1>3, <1>4 DEF Next

\* A request keeps its files and their name until it is answered.
LEMMA BatchStays ==
  ASSUME IInv, [Next]_vars, NEW c \in Clients, pc[c] # "idle"
  PROVE  batch'[c] = {} \/ (batch'[c] = batch[c] /\ name'[c] = name[c])
<1> USE ProcsAssumption DEF IInv, TypeOK
<1>1. CASE ClientStep(c)
  BY <1>1
     DEF ClientStep, SyncFind, Insert, Purge, PurgeDelete, Reset, SyncCommit, BatchCommit, Reject,
         StoreBytes, BatchBegin, BatchFind, BatchReject, SaveOne, SaveFail, EnqueueOne,
         RedisDown, DeleteFind, DeleteCommit, DropCollection, Abort, Respond, RowWritten, request
<1>2. CASE PipelineStep(c)
  BY <1>2 DEF PipelineStep, Parse, AddDocument, ChunkEmpty, Chunk, InsertChunks, PipelineFail, request
<1> QED BY <1>1, <1>2, RequestStays DEF request

\* What the commit of a request makes of a row.
LEMMA RequestCommits ==
  ASSUME IInv, NEW c \in Clients, SyncCommit(c) \/ BatchCommit(c), NEW s \in Sources, lock[s] = c
  PROVE  \/ SyncCommit(c) /\ at[c] = s /\ batch[c] = {} /\ work[s].status \in {"completed", "failed"}
         \/ BatchCommit(c) /\ pc[c] = "publish" /\ s \in batch[c]
BY ProcsAssumption
   DEF IInv, SyncCommit, BatchCommit, RowLocks, WorkVersion, Uploading, Writing, Claiming, Procs

\* What a single upload's process works on is its only file.
LEMMA PipelineAlone ==
  ASSUME IInv, NEW p \in Clients, [Next]_vars, PipelineStep(p)
  PROVE  batch[p] = {} /\ batch'[p] = {}
<1>1. pc[p] \in Alone /\ UNCHANGED request
  BY DEF PipelineStep, Parse, AddDocument, ChunkEmpty, Chunk, InsertChunks, PipelineFail, Alone
<1> QED BY <1>1 DEF IInv, RequestShape, request

\* What a transaction has written is not committed over.
LEMMA LockedRowStays ==
  ASSUME IInv, [Next]_vars, NEW s \in Sources, lock'[s] # None
  PROVE  row'[s] = row[s]
<1>1. \A c \in Clients : SyncCommit(c) \/ BatchCommit(c) => lock[s] # c \/ lock'[s] = None
  BY DEF SyncCommit, BatchCommit, Commit
<1>2. JobCommit(s) => lock[s] # s \/ lock'[s] = None
  BY DEF JobCommit, Commit
<1>3. JobFail(s) /\ lock[s] = None => lock'[s] = None
  BY DEF JobFail, WriteThrough, sourceRows
<1>4. \A c \in Clients : DeleteCommit(c) \/ DropCollection(c) => lock' = lock
  BY DEF DeleteCommit, DropCollection, WriteThrough, tables, sourceRows
<1>5. \A c \in Clients : DropCollection(c) => lock[s] = None
  BY DEF DropCollection, Unlocked
<1>6. ~RowChange(s)
  BY <1>1, <1>2, <1>3, <1>4, <1>5 DEF RowChange
<1> QED BY <1>6, RowChanges
-----------------------------------------------------------------------------
(* Nothing accepted is forgotten, whatever the interleaving of any number  *)
(* of requests and jobs, as long as nothing fails and nothing is deleted:  *)
(* IngestInv!CalmInv is inductive, and a PENDING row always has its job or *)
(* a request about to enqueue it.                                          *)

\* The steps that a calm run does not take.
LEMMA CalmSteps ==
  ASSUME Calm, CalmInv, [Next]_vars
  PROVE  /\ \A c \in Clients : /\ ~Purge(c) /\ ~PurgeDelete(c) /\ ~Reset(c) /\ ~SaveFail(c)
                               /\ ~RedisDown(c) /\ ~DeleteFind(c) /\ ~DeleteCommit(c)
                               /\ Abort(c) => Deadlocked(c)
         /\ \A s \in Sources : /\ ~JobTimeout(s) /\ ~JobRefused(s) /\ ~RecoverOne(s)
                               /\ JobFail(s) => ~collection
         /\ \A p \in Procs : ~PipelineFail(p)
         /\ ~WorkerStop /\ ~WorkerBoot
BY DEF Calm, CalmInv, Undisturbed, Purge, PurgeDelete, Reset, SaveFail, RedisDown, DeleteFind,
       DeleteCommit, Abort, JobTimeout, JobRefused, RecoverOne, JobFail, PipelineFail, WorkerStop,
       WorkerBoot

\* A request that waits for nobody is on no cycle of waiting transactions.
LEMMA NoDeadlock ==
  ASSUME NEW c \in Clients, Deadlocked(c)
  PROVE  pc[c] \in {"insert", "purging", "reset", "parse", "delete", "fail"}
BY DEF Deadlocked, Blockers

\* What is locked is being written in a collection that is there.
LEMMA LockedIsNew ==
  ASSUME CalmInv, NEW c \in Clients, NEW s \in Sources, lock[s] = c
  PROVE  collection /\ ~Exists(s) /\ job[s] = "none" /\ s \notin result
<1> USE ProcsAssumption DEF CalmInv, Procs
<1>1. collection /\ ~Exists(s)
  BY DEF DroppedIsEmpty, NewRows
<1> QED BY <1>1 DEF IInv, JobsAreDurable, JobsComplete, Exists

\* A committed row changes only when its own job completes it.
LEMMA RowKept ==
  ASSUME Calm, CalmInv, [Next]_vars, NEW s \in Sources, Exists(s), collection'
  PROVE  row'[s] = row[s] \/ JobCommit(s)
<1>1. \A c \in Clients : lock[s] # c
  BY LockedIsNew
<1>2. collection /\ \A c \in Clients : ~DropCollection(c)
  BY DroppedStays DEF CalmInv, IInv, DropCollection
<1> QED BY <1>1, <1>2, RowChanges, CalmSteps DEF RowChange, CalmInv

\* What a batch is about to enqueue it has just committed, or it was about to before.
LEMMA EnqueueFrom ==
  ASSUME IInv, [Next]_vars, NEW c \in Clients, pc'[c] = "enqueue", NEW s \in todo'[c]
  PROVE  \/ BatchCommit(c) /\ s \in batch[c]
         \/ pc[c] = "enqueue" /\ s \in todo[c]
<1> USE ProcsAssumption DEF IInv, TypeOK, Procs, Goto
<1>1. CASE ClientStep(c)
  <2>1. CASE EnqueueOne(c)
    BY <2>1 DEF EnqueueOne, Respond
  <2>2. CASE Respond(c)
    BY <2>2 DEF Respond
  <2>3. CASE Insert(c) \/ Reset(c)
    BY <2>2, <2>3 DEF Insert, Reset, Reject, RowWritten
  <2>4. CASE SyncFind(c) \/ BatchFind(c) \/ BatchBegin(c) \/ SaveOne(c)
    BY <2>4 DEF SyncFind, BatchFind, Claim, BatchBegin, SaveOne
  <2>5. CASE Purge(c) \/ PurgeDelete(c) \/ DeleteFind(c) \/ DropCollection(c)
    BY <2>5 DEF Purge, PurgeDelete, DeleteFind, DropCollection, request
  <2>6. CASE BatchCommit(c)
    BY <2>6 DEF BatchCommit
  <2>7. CASE SyncCommit(c)
    BY <2>2, <2>7 DEF SyncCommit, request
  <2> QED BY <1>1, <2>1, <2>2, <2>3, <2>4, <2>5, <2>6, <2>7
        DEF ClientStep, StoreBytes, BatchReject, SaveFail, RedisDown, DeleteCommit, Abort, Reject
<1>2. CASE PipelineStep(c)
  BY <1>2 DEF PipelineStep, Parse, AddDocument, ChunkEmpty, Chunk, InsertChunks, PipelineFail, request
<1> QED BY <1>1, <1>2, RequestStays

\* A batch leaves no source of its own without a job.
LEMMA EnqueueTo ==
  ASSUME Calm, CalmInv, [Next]_vars, NEW c \in Clients, pc[c] = "enqueue", NEW s \in todo[c]
  PROVE  \/ pc'[c] = "enqueue" /\ s \in todo'[c]
         \/ job'[s] = "queued"
<1> USE ProcsAssumption DEF CalmInv, IInv, TypeOK, Procs, Goto
<1>1. s \in Sources /\ job[s] = "none" /\ s \notin result
  BY DEF FirstJob
<1>2. CASE ClientStep(c)
  <2>1. CASE EnqueueOne(c)
    <3>1. PICK t \in todo[c] :
            /\ Enqueue(t)
            /\ todo[c] = {t} \/ (todo' = [todo EXCEPT ![c] = @ \ {t}] /\ UNCHANGED pc)
      BY <2>1 DEF EnqueueOne
    <3>2. CASE s = t
      BY <1>1, <3>1, <3>2 DEF Enqueue
    <3>3. CASE s # t
      BY <3>1, <3>3
    <3> QED BY <3>2, <3>3
  <2>2. CASE DropCollection(c)
    BY <2>2 DEF DropCollection, request
  <2>3. ~Abort(c) /\ ~RedisDown(c)
    BY CalmSteps, NoDeadlock
  <2> QED BY <1>2, <2>1, <2>2, <2>3
        DEF ClientStep, SyncFind, Insert, Purge, PurgeDelete, Reset, SyncCommit, BatchCommit,
            StoreBytes, BatchBegin, BatchFind, BatchReject, SaveOne, SaveFail, DeleteFind, DeleteCommit
<1>3. CASE PipelineStep(c)
  BY <1>3 DEF PipelineStep, Parse, AddDocument, ChunkEmpty, Chunk, InsertChunks, PipelineFail
<1> QED BY <1>2, <1>3, RequestStays

\* The queue of source s in a calm run.
LEMMA QueueChanges ==
  ASSUME Calm, CalmInv, [Next]_vars, NEW s \in Sources
  PROVE  \/ job'[s] = job[s] /\ (s \in result' => s \in result)
         \/ /\ \E c \in Clients : EnqueueOne(c) /\ s \in todo[c]
            /\ job'[s] = "queued" /\ (s \in result' => s \in result)
         \/ JobStart(s) /\ job'[s] = "running" /\ (s \in result' => s \in result)
         \/ JobFinish(s)
<1> USE ProcsAssumption DEF CalmInv, IInv, TypeOK
<1> DEFINE Goal ==
         \/ job'[s] = job[s] /\ (s \in result' => s \in result)
         \/ /\ \E c \in Clients : EnqueueOne(c) /\ s \in todo[c]
            /\ job'[s] = "queued" /\ (s \in result' => s \in result)
         \/ JobStart(s) /\ job'[s] = "running" /\ (s \in result' => s \in result)
         \/ JobFinish(s)
<1>1. ASSUME NEW c \in Clients, ClientStep(c) PROVE Goal
  <2>1. CASE EnqueueOne(c)
    <3>1. PICK t \in todo[c] : Enqueue(t)
      BY <2>1 DEF EnqueueOne
    <3>2. result' = result /\ \/ job' = job
                              \/ job' = [job EXCEPT ![t] = "queued"]
      BY <3>1 DEF Enqueue
    <3>3. t \in Sources
      OBVIOUS
    <3> QED BY <2>1, <3>2, <3>3
  <2> QED BY <1>1, <2>1
        DEF ClientStep, SyncFind, Insert, Purge, PurgeDelete, Reset, SyncCommit, StoreBytes,
            BatchBegin, BatchFind, BatchReject, SaveOne, SaveFail, BatchCommit,
            RedisDown, DeleteFind, DeleteCommit, DropCollection, Abort, queue
<1>2. ASSUME NEW t \in Sources, JobStep(t) PROVE Goal
  <2>1. CASE JobStart(t)
    BY <2>1 DEF JobStart
  <2>2. CASE JobFinish(t)
    BY <2>2 DEF JobFinish, Finish
  <2>3. CASE JobFetch(t) \/ JobFail(t) \/ JobCommit(t)
    BY <2>3 DEF JobFetch, JobFail, JobCommit, queue
  <2>4. CASE ExpireResult(t)
    BY <2>4 DEF ExpireResult
  <2> QED BY <1>2, <2>1, <2>2, <2>3, <2>4, CalmSteps DEF JobStep
<1>3. ASSUME NEW p \in Procs, PipelineStep(p) PROVE Goal
  BY <1>3 DEF PipelineStep, Parse, AddDocument, ChunkEmpty, Chunk, InsertChunks, PipelineFail, queue
<1>4. CASE WorkerReady \/ UNCHANGED vars
  BY <1>4 DEF WorkerReady, vars, queue
<1> QED BY <1>1, <1>2, <1>3, <1>4, CalmSteps DEF Next

\* The process of job s in a calm run.
LEMMA JobProcess ==
  ASSUME Calm, CalmInv, [Next]_vars, NEW s \in Sources
  PROVE  \/ pc'[s] = pc[s] /\ seen'[s] = seen[s]
         \/ JobStart(s) \/ JobFetch(s) \/ PipelineStep(s)
         \/ JobFail(s) \/ JobCommit(s) \/ JobFinish(s)
<1> USE ProcsAssumption DEF CalmInv, IInv, TypeOK, Procs, Goto
<1> DEFINE Same == pc'[s] = pc[s] /\ seen'[s] = seen[s]
<1>1. ASSUME NEW c \in Clients, ClientStep(c) PROVE Same
  <2>1. CASE SyncFind(c) \/ Insert(c) \/ Purge(c) \/ PurgeDelete(c) \/ Reset(c)
    BY <2>1 DEF SyncFind, Claim, Insert, Purge, PurgeDelete, Reset, Reject, Respond, RowWritten
  <2>2. CASE SyncCommit(c) \/ StoreBytes(c) \/ BatchBegin(c) \/ BatchFind(c) \/ BatchReject(c)
    BY <2>2 DEF SyncCommit, StoreBytes, BatchBegin, BatchFind, Claim, BatchReject, Reject, Respond
  <2>3. CASE SaveOne(c) \/ SaveFail(c) \/ BatchCommit(c) \/ EnqueueOne(c) \/ RedisDown(c)
    BY <2>3 DEF SaveOne, SaveFail, BatchCommit, EnqueueOne, RedisDown, Reject, Respond
  <2>4. CASE DeleteFind(c) \/ DeleteCommit(c) \/ DropCollection(c) \/ Abort(c)
    BY <2>4 DEF DeleteFind, DeleteCommit, DropCollection, Abort, Reject, Respond
  <2> QED BY <1>1, <2>1, <2>2, <2>3, <2>4 DEF ClientStep
<1>2. ASSUME NEW t \in Sources, JobStep(t), ~JobStart(s), ~JobFetch(s), ~JobFail(s), ~JobCommit(s),
             ~JobFinish(s)
      PROVE  Same
  BY <1>2, CalmSteps DEF JobStep, JobStart, JobFetch, JobFail, JobCommit, JobFinish, ExpireResult
<1>3. ASSUME NEW p \in Procs \ {s}, PipelineStep(p) PROVE Same
  BY <1>3 DEF PipelineStep, Parse, AddDocument, ChunkEmpty, Chunk, InsertChunks, PipelineFail
<1>4. CASE WorkerReady \/ UNCHANGED vars
  BY <1>4 DEF WorkerReady, vars
<1> QED BY <1>1, <1>2, <1>3, <1>4, CalmSteps DEF Next

(***************************************************************************)
(* CalmInv is inductive.                                                   *)
(***************************************************************************)
\* No row is found that could be retried, and no job finds its row or file missing.
LEMMA UndisturbedStep ==
  ASSUME Calm, CalmInv, [Next]_vars
  PROVE  Undisturbed'
<1> USE ProcsAssumption DEF CalmInv, IInv, TypeOK, Procs
<1>1. ASSUME NEW c \in Clients
      PROVE  pc'[c] \notin {"purge", "purging", "reset", "record", "delete"}
  <2>1. CASE ClientStep(c)
    <3>1. \A s \in Sources : ~Duplicate(s) => ~Exists(s)
      BY DEF Duplicate, IsReingestable, NewRows
    <3>2. CASE SyncFind(c) \/ BatchFind(c)
      BY <3>1, <3>2 DEF SyncFind, BatchFind, Claim, Goto
    <3>3. CASE Respond(c)
      BY <3>3 DEF Respond, Goto
    <3>4. CASE Insert(c)
      BY <3>3, <3>4 DEF Insert, Reject, RowWritten, Goto
    <3>5. CASE SyncCommit(c)
      BY <3>3, <3>5 DEF SyncCommit, Goto
    <3>6. CASE BatchBegin(c) \/ SaveOne(c) \/ BatchCommit(c)
      BY <3>6 DEF BatchBegin, SaveOne, BatchCommit, Goto
    <3>7. CASE EnqueueOne(c) \/ DropCollection(c)
      BY <3>3, <3>7 DEF EnqueueOne, DropCollection, Undisturbed
    <3>8. CASE StoreBytes(c) \/ BatchReject(c) \/ Abort(c)
      BY <3>3, <3>8 DEF StoreBytes, BatchReject, Abort, Reject
    <3> QED BY <2>1, <3>2, <3>4, <3>5, <3>6, <3>7, <3>8, CalmSteps DEF ClientStep
  <2>2. CASE PipelineStep(c)
    BY <2>2, CalmSteps DEF PipelineStep, Parse, AddDocument, ChunkEmpty, Chunk, InsertChunks, Goto
  <2> QED BY <2>1, <2>2, RequestStays DEF Undisturbed
<1>2. ASSUME NEW s \in Sources PROVE job'[s] # "interrupted"
  BY QueueChanges DEF Undisturbed, JobFinish, Finish
<1>3. ASSUME NEW s \in Sources, pc'[s] = "fail" PROVE ~collection'
  <2>1. CASE pc[s] = "fail"
    BY <2>1, DroppedStays DEF Undisturbed
  <2>2. CASE JobStart(s) \/ JobFail(s) \/ JobCommit(s) \/ JobFinish(s)
    BY <1>3, <2>2 DEF JobStart, JobFail, JobCommit, JobFinish, Goto
  <2>3. CASE JobFetch(s)
    <3>1. collection => <<s, seen[s].name>> \in files
      BY <2>3 DEF JobFetch, JobsComplete
    <3> QED BY <1>3, <2>3, <3>1 DEF JobFetch, Goto, Calm, tables
  <2>4. CASE PipelineStep(s)
    <3>1. ~Exists(s) /\ pc[s] = "parse" /\ collection' = collection
      BY <1>3, <2>4, CalmSteps
         DEF PipelineStep, Parse, AddDocument, ChunkEmpty, Chunk, InsertChunks, Goto, Target
    <3> QED BY <3>1 DEF JobsComplete, Exists, PipelineSteps
  <2> QED BY <1>3, <2>1, <2>2, <2>3, <2>4, JobProcess
<1>4. up' = "up" /\ boot' = {}
  <2>1. ASSUME NEW c \in Clients, ClientStep(c) PROVE UNCHANGED worker
    BY <2>1
       DEF ClientStep, SyncFind, Insert, Purge, PurgeDelete, Reset, SyncCommit, StoreBytes,
           BatchBegin, BatchFind, BatchReject, SaveOne, SaveFail, BatchCommit, EnqueueOne,
           RedisDown, DeleteFind, DeleteCommit, DropCollection, Abort
  <2>2. ASSUME NEW t \in Sources, JobStep(t) PROVE UNCHANGED worker
    BY <2>2, CalmSteps
       DEF JobStep, JobStart, JobFetch, JobFail, JobCommit, JobFinish, ExpireResult
  <2>3. ASSUME NEW p \in Procs, PipelineStep(p) PROVE UNCHANGED worker
    BY <2>3
       DEF PipelineStep, Parse, AddDocument, ChunkEmpty, Chunk, InsertChunks, PipelineFail
  <2> QED BY <2>1, <2>2, <2>3, CalmSteps DEF Next, WorkerReady, vars, worker, Undisturbed
<1> QED BY <1>1, <1>2, <1>3, <1>4 DEF Undisturbed

\* A request finds no row to write but those it inserts.
LEMMA NewRowsStep ==
  ASSUME Calm, CalmInv, [Next]_vars
  PROVE  NewRows'
<1> USE ProcsAssumption DEF CalmInv
<1> SUFFICES ASSUME NEW s \in Sources
             PROVE  /\ row'[s].status # "failed" /\ ~row'[s].deleted
                    /\ lock'[s] \in Clients =>
                         /\ ~Exists(s)' /\ ~work'[s].deleted
                         /\ batch'[lock'[s]] # {} => work'[s].name = name'[lock'[s]]
                    /\ lock'[s] \in Sources => work'[s].name = row'[s].name
  BY DEF NewRows
<1>1. row'[s].status # "failed" /\ ~row'[s].deleted
  <2>1. CASE row'[s] = row[s]
    BY <2>1 DEF NewRows
  <2>2. ASSUME NEW c \in Clients, SyncCommit(c) \/ BatchCommit(c), lock[s] = c, row'[s] = work[s]
        PROVE  row'[s].status # "failed" /\ ~row'[s].deleted
    <3>1. pc[c] \in {"commit", "publish"} /\ ~Exists(s)
      BY <2>2, LockedIsNew DEF SyncCommit, BatchCommit, Undisturbed
    <3> QED BY <2>2, <3>1 DEF IInv, WorkVersion, Writing, NewRows, Exists, Procs
  <2>3. CASE JobCommit(s) /\ lock[s] = s /\ row'[s] = work[s]
    BY <2>3 DEF JobCommit, IInv, WorkVersion, NewRows, Procs
  <2>4. CASE \E c \in Clients : DropCollection(c)
    BY <2>4 DEF DropCollection, NoSource
  <2>5. ~(JobFail(s) /\ Exists(s))
    BY CalmSteps DEF DroppedIsEmpty
  <2> QED BY <2>1, <2>2, <2>3, <2>4, <2>5, RowChanges, CalmSteps DEF RowChange
<1> SUFFICES ASSUME lock'[s] \in Procs
             PROVE  /\ lock'[s] \in Clients =>
                         /\ ~Exists(s)' /\ ~work'[s].deleted
                         /\ batch'[lock'[s]] # {} => work'[s].name = name'[lock'[s]]
                    /\ lock'[s] \in Sources => work'[s].name = row'[s].name
  BY <1>1 DEF Procs
<1>2. row'[s] = row[s] /\ (Exists(s)' <=> Exists(s))
  BY LockedRowStays DEF Procs, Exists
<1>3. CASE lock'[s] = lock[s] /\ work'[s] = work[s]
  <2>1. CASE lock[s] \in Clients
    <3>1. pc[lock[s]] # "idle"
      BY <2>1 DEF IInv, RowLocks, Uploading, Writing, Claiming
    <3> QED BY <1>2, <1>3, <2>1, <3>1, BatchStays DEF NewRows, Procs
  <2>2. CASE lock[s] \in Sources
    BY <1>2, <1>3, <2>2 DEF NewRows, Procs
  <2> QED BY <1>3, <2>1, <2>2 DEF Procs
<1>4. ASSUME NEW c \in Clients, Insert(c), at[c] = s, lock'[s] = c, ~Exists(s),
             work'[s] = NewSource(name[c])
      PROVE  ~work'[s].deleted /\ (batch'[c] # {} => work'[s].name = name'[c])
  <2>1. batch'[c] = {} \/ name'[c] = name[c]
    BY <1>4, BatchStays DEF Insert
  <2> QED BY <1>4, <2>1 DEF NewSource
<1>5. ASSUME NEW p \in Procs, NEW st \in IngestStatus, PipelineStep(p), Target(p) = s,
             lock[s] \in {p, None}, lock'[s] = p, pc[p] # "parse" => lock[s] = p,
             work'[s] = [work[s] EXCEPT !.status = st]
      PROVE  /\ p \in Clients => batch'[p] = {} /\ ~Exists(s) /\ ~work'[s].deleted
             /\ p \in Sources => work'[s].name = row'[s].name
  <2>1. work[s] \in Source
    BY DEF IInv, TypeOK, TablesTypeOK
  <2>2. work'[s].name = work[s].name /\ work'[s].deleted = work[s].deleted
    BY <1>5, <2>1 DEF Source
  <2>3. CASE p \in Clients
    <3>1. lock[s] = p
      BY <1>5, <2>3
         DEF IInv, LocksKept, Uploading, Target, PipelineStep, Parse, AddDocument, ChunkEmpty,
             Chunk, InsertChunks, PipelineFail
    <3> QED BY <1>5, <2>2, <2>3, <3>1, PipelineAlone DEF NewRows, Procs
  <2>4. CASE p \in Sources
    <3>1. p = s /\ (lock[s] = None => work[s] = row[s])
      BY <1>5, <2>4 DEF Target, Procs, IInv, OneVersion
    <3> QED BY <1>2, <1>5, <2>2, <2>4, <3>1 DEF NewRows, Procs
  <2> QED BY <2>3, <2>4 DEF Procs
<1>6. lock'[s] # None /\ (lock'[s] \in Clients => lock'[s] \notin Sources)
  BY DEF Procs
<1>7. CASE WorkChange(s)
  BY <1>2, <1>4, <1>5, <1>6, <1>7, CalmSteps DEF WorkChange
<1> QED BY <1>3, <1>6, <1>7, WorkChanges DEF IInv

\* Two batches never come to enqueue the same source.
LEMMA FirstJobStep ==
  ASSUME Calm, CalmInv, [Next]_vars
  PROVE  FirstJob'
<1> USE ProcsAssumption DEF CalmInv
<1>1. ASSUME NEW c \in Clients, BatchCommit(c), NEW s \in batch[c]
      PROVE  /\ lock[s] = c /\ collection /\ ~Exists(s) /\ job[s] = "none" /\ s \notin result
             /\ row'[s].status = "pending"
  <2>1. lock[s] = c /\ pc[c] = "publish" /\ s \in Sources
    BY <1>1 DEF BatchCommit, IInv, LocksKept, TypeOK
  <2>2. row'[s] = work[s]
    BY <1>1, <2>1 DEF BatchCommit, Commit
  <2>3. work[s].status = "pending"
    BY <2>1, LockedIsNew DEF IInv, WorkVersion, Writing, Exists, Procs
  <2> QED BY <2>1, <2>2, <2>3, LockedIsNew
<1>2. ASSUME NEW c \in Clients, NEW s \in todo[c], pc[c] = "enqueue"
      PROVE  /\ s \in Sources /\ job[s] = "none" /\ s \notin result
             /\ collection => row[s].status = "pending"
             /\ \A b \in Clients \ {c} : pc[b] = "enqueue" => s \notin todo[b]
             /\ \A b \in Clients : BatchCommit(b) => s \notin batch[b]
  BY <1>1, <1>2 DEF FirstJob, IInv, TypeOK, Exists
<1>3. ASSUME NEW c \in Clients, NEW s \in todo'[c], pc'[c] = "enqueue"
      PROVE  /\ job'[s] = "none" /\ s \notin result'
             /\ collection' => row'[s].status = "pending"
             /\ \A b \in Clients \ {c} : pc'[b] = "enqueue" => s \notin todo'[b]
  <2>1. \A b \in Clients : pc'[b] = "enqueue" /\ s \in todo'[b] =>
          \/ BatchCommit(b) /\ s \in batch[b]
          \/ pc[b] = "enqueue" /\ s \in todo[b]
    BY EnqueueFrom
  <2>2. CASE BatchCommit(c) /\ s \in batch[c]
    <3>1. \A b \in Clients \ {c} : ~(BatchCommit(b) /\ s \in batch[b]) /\ ~(pc[b] = "enqueue" /\ s \in todo[b])
      BY <1>1, <1>2, <2>2
    <3>2. job'[s] = job[s] /\ result' = result
      BY <2>2 DEF BatchCommit, queue
    <3> QED BY <1>1, <2>1, <2>2, <3>1, <3>2
  <2>3. CASE pc[c] = "enqueue" /\ s \in todo[c]
    <3>1. /\ s \in Sources /\ job[s] = "none" /\ s \notin result
          /\ collection => row[s].status = "pending"
          /\ \A b \in Clients \ {c} : ~(pc'[b] = "enqueue" /\ s \in todo'[b])
      BY <1>2, <2>1, <2>3
    <3>2. ~JobStart(s) /\ ~JobFinish(s) /\ ~JobCommit(s)
      BY <3>1 DEF JobStart, JobFinish, JobCommit, IInv, JobShape
    <3>3. ASSUME NEW b \in Clients, EnqueueOne(b), s \in todo[b], job'[s] # "none" PROVE FALSE
      <4>1. b = c /\ pc[c] = "enqueue"
        BY <1>2, <2>3, <3>3 DEF EnqueueOne
      <4>2. PICK t \in todo[c] :
              /\ Enqueue(t)
              /\ (todo[c] = {t} /\ Respond(c)) \/ todo' = [todo EXCEPT ![c] = @ \ {t}]
        BY <3>3, <4>1 DEF EnqueueOne
      <4>3. CASE s = t
        BY <1>3, <4>2, <4>3 DEF Respond, Goto, IInv, TypeOK, Procs
      <4>4. CASE s # t
        BY <3>1, <3>3, <4>2, <4>4 DEF Enqueue
      <4> QED BY <4>3, <4>4
    <3>4. job'[s] = "none" /\ s \notin result'
      BY <3>1, <3>2, <3>3, QueueChanges
    <3>5. collection' => row'[s].status = "pending"
      BY <3>1, <3>2, RowKept, DroppedStays DEF IInv, Exists
    <3> QED BY <3>1, <3>4, <3>5
  <2> QED BY <1>3, <2>1, <2>2, <2>3
<1> QED BY <1>3 DEF FirstJob

\* A job that was started for a pending row completes it.
LEMMA JobsCompleteStep ==
  ASSUME Calm, CalmInv, [Next]_vars
  PROVE  JobsComplete'
<1> USE ProcsAssumption DEF CalmInv
<1> SUFFICES ASSUME collection', NEW s \in Sources
             PROVE  /\ job'[s] = "queued" \/ pc'[s] \in {"fetch"} \cup PipelineSteps =>
                         row'[s].status = "pending"
                    /\ pc'[s] = "done" \/ s \in result' => row'[s].status = "completed"
                    /\ pc'[s] = "fetch" => seen'[s] = row'[s]
                    /\ row'[s].status = "pending" => <<s, row'[s].name>> \in files'
  BY DEF JobsComplete
<1>0. collection /\ pc[s] # "fail"
  BY DroppedStays DEF IInv, Undisturbed
<1>1. /\ job[s] = "queued" \/ pc[s] \in {"fetch"} \cup PipelineSteps => row[s].status = "pending"
      /\ pc[s] = "done" \/ s \in result => row[s].status = "completed"
      /\ pc[s] = "fetch" => seen[s] = row[s]
      /\ row[s].status = "pending" => <<s, row[s].name>> \in files
      /\ pc[s] # "idle" => job[s] = "running"
  BY <1>0 DEF JobsComplete, IInv, JobShape
<1>2. row[s].status \in {"pending", "completed"} => row'[s] = row[s] \/ JobCommit(s)
  BY RowKept DEF Exists
<1>3. JobCommit(s) => /\ pc[s] = "commit" /\ pc'[s] = "done" /\ UNCHANGED <<seen, queue>>
                      /\ row'[s].status = "completed"
  <2> SUFFICES ASSUME JobCommit(s) PROVE pc'[s] = "done" /\ row'[s].status = "completed"
    BY DEF JobCommit
  <2>1. pc[s] = "commit" /\ lock[s] = s /\ row'[s] = work[s]
    BY DEF JobCommit, Commit, IInv, LocksKept, JobWriting
  <2> QED BY <2>1 DEF JobCommit, Goto, IInv, WorkVersion, TypeOK, Procs
<1>4. job'[s] = "queued" => row'[s].status = "pending"
  <2>1. CASE job[s] = "queued"
    BY <1>1, <1>2, <1>3, <2>1
  <2>2. ASSUME NEW c \in Clients, EnqueueOne(c), s \in todo[c] PROVE row'[s].status = "pending"
    <3>1. row[s].status = "pending" /\ job[s] = "none"
      BY <1>0, <2>2 DEF EnqueueOne, FirstJob
    <3> QED BY <1>1, <1>2, <1>3, <3>1
  <2>3. JobFinish(s) => job'[s] = "none"
    BY DEF JobFinish, Finish, IInv, TypeOK
  <2> QED BY <2>1, <2>2, <2>3, QueueChanges
<1>5. pc'[s] \in {"fetch"} \cup PipelineSteps => row'[s].status = "pending"
  BY <1>0, <1>1, <1>2, <1>3, JobMove DEF IInv, PipelineSteps
<1>6. pc'[s] = "done" => row'[s].status = "completed"
  <2> SUFFICES ASSUME pc'[s] = "done" PROVE row'[s].status = "completed"
    OBVIOUS
  <2>1. CASE pc[s] = "done"
    BY <1>1, <1>2, <1>3, <2>1
  <2>2. ~JobFetch(s) /\ ~JobStart(s) /\ ~JobFail(s)
    BY <1>0, <1>1 DEF JobFetch, JobStart, JobFail, Goto, IInv, TypeOK, Procs
  <2>3. ~JobFinish(s)
    BY DEF JobFinish, Goto, IInv, TypeOK, Procs
  <2>4. ~PipelineStep(s)
    BY CalmSteps DEF PipelineStep, Parse, AddDocument, ChunkEmpty, Chunk, InsertChunks, Goto,
                     IInv, TypeOK, Procs
  <2> QED BY <1>3, <2>1, <2>2, <2>3, <2>4, JobProcess
<1>7. s \in result' => row'[s].status = "completed"
  <2>1. CASE s \in result
    BY <1>1, <1>2, <1>3, <2>1
  <2>2. CASE JobFinish(s)
    BY <1>1, <1>2, <2>2 DEF JobFinish, tables, sourceRows
  <2> QED BY <2>1, <2>2, QueueChanges
<1>8. pc'[s] = "fetch" => seen'[s] = row'[s]
  <2> SUFFICES ASSUME pc'[s] = "fetch" PROVE seen'[s] = row'[s]
    OBVIOUS
  <2>1. CASE pc'[s] = pc[s] /\ seen'[s] = seen[s]
    BY <1>1, <1>2, <1>3, <2>1
  <2>2. CASE JobStart(s)
    BY <2>2 DEF JobStart, Goto, IInv, TypeOK, Procs, tables, sourceRows
  <2>3. ~JobFetch(s) /\ ~JobFail(s) /\ ~JobFinish(s)
    BY DEF JobFetch, JobFail, JobFinish, Goto, IInv, TypeOK, Procs
  <2>4. ~PipelineStep(s)
    BY CalmSteps DEF PipelineStep, Parse, AddDocument, ChunkEmpty, Chunk, InsertChunks, Goto,
                     IInv, TypeOK, Procs
  <2> QED BY <1>3, <2>1, <2>2, <2>3, <2>4, JobProcess
<1>9. row'[s].status = "pending" => <<s, row'[s].name>> \in files'
  <2> SUFFICES ASSUME row'[s].status = "pending" PROVE <<s, row'[s].name>> \in files'
    OBVIOUS
  <2>1. CASE row'[s] = row[s]
    BY <1>1, <2>1, FilesGrow
  <2>2. ASSUME NEW c \in Clients, SyncCommit(c) \/ BatchCommit(c), lock[s] = c, row'[s] = work[s]
        PROVE  <<s, row'[s].name>> \in files'
    <3>1. BatchCommit(c) /\ pc[c] = "publish" /\ s \in batch[c]
      BY <2>2, RequestCommits
    <3>2. work[s].name = name[c] /\ <<s, name[c]>> \in files
      BY <2>2, <3>1 DEF NewRows, IInv, BytesFirst
    <3> QED BY <2>2, <3>2, FilesGrow
  <2>3. \A c \in Clients : ~DropCollection(c)
    BY DEF DropCollection
  <2>4. ~(JobFail(s) /\ Exists(s))
    BY <1>0 DEF JobFail
  <2> QED BY <1>3, <2>1, <2>2, <2>3, <2>4, RowChanges, CalmSteps DEF RowChange
<1> QED BY <1>4, <1>5, <1>6, <1>7, <1>8, <1>9

\* A request goes from its commit to the queue with its whole batch.
LEMMA BatchPublishes ==
  ASSUME IInv, [Next]_vars, NEW c \in Clients, pc[c] = "publish", pc'[c] = "enqueue"
  PROVE  todo'[c] = batch[c]
<1>1. ~PipelineStep(c)
  BY DEF PipelineStep, Parse, AddDocument, ChunkEmpty, Chunk, InsertChunks, PipelineFail
<1>2. ClientStep(c)
  BY <1>1, RequestStays DEF IInv
<1>3. BatchCommit(c)
  BY <1>2, ProcsAssumption
     DEF ClientStep, SyncFind, Insert, Purge, PurgeDelete, Reset, SyncCommit, StoreBytes, BatchBegin,
         BatchFind, BatchReject, SaveOne, SaveFail, EnqueueOne, RedisDown, DeleteFind, DeleteCommit,
         DropCollection, Abort, Reject, Respond, Goto, IInv, TypeOK, Procs
<1> QED BY <1>3 DEF BatchCommit, IInv, TypeOK

\* A pending row keeps what will settle it.
LEMMA ScheduledStep ==
  ASSUME Calm, CalmInv, [Next]_vars
  PROVE  PendingIsScheduled'
<1> USE ProcsAssumption DEF CalmInv
<1> SUFFICES ASSUME NEW s \in Sources, row'[s].status = "pending"
             PROVE  \/ job'[s] \in {"queued", "running"}
                    \/ \E c \in Clients : pc'[c] = "enqueue" /\ s \in todo'[c]
  BY DEF PendingIsScheduled
<1>1. CASE row[s].status = "pending"
  <2>1. CASE job[s] \in {"queued", "running"}
    <3>1. ~JobFinish(s)
      BY <1>1 DEF JobFinish, JobsComplete, DroppedIsEmpty, Exists
    <3> QED BY <2>1, <3>1, QueueChanges
  <2>2. ASSUME NEW c \in Clients, pc[c] = "enqueue", s \in todo[c]
        PROVE  \/ job'[s] \in {"queued", "running"}
               \/ pc'[c] = "enqueue" /\ s \in todo'[c]
    BY <2>2, EnqueueTo
  <2> QED BY <1>1, <2>1, <2>2 DEF PendingIsScheduled
<1>2. CASE row[s].status # "pending"
  <2>1. PICK c \in Clients : s \in batch[c] /\ pc[c] = "publish" /\ pc'[c] = "enqueue"
    BY <1>2, RowStatusStep DEF IInv
  <2>2. todo'[c] = batch[c]
    BY <2>1, BatchPublishes
  <2> QED BY <2>1, <2>2
<1> QED BY <1>1, <1>2

LEMMA CalmInit == Init => CalmInv
<1> SUFFICES ASSUME Init PROVE CalmInv
  OBVIOUS
<1>1. IInv
  BY InitInv
<1> QED BY <1>1, ProcsAssumption
     DEF Init, TablesInit, NoSource, Procs, CalmInv, DroppedIsEmpty, Undisturbed, NewRows, FirstJob,
         JobsComplete, PendingIsScheduled, PipelineSteps

LEMMA CalmStep ==
  ASSUME Calm PROVE CalmInv /\ [Next]_vars => CalmInv'
BY StepInv, DroppedStep, UndisturbedStep, NewRowsStep, FirstJobStep, JobsCompleteStep, ScheduledStep
   DEF CalmInv

\* When nothing fails and nothing is deleted, requests write new rows only, each accepted source
\* has one turn in the queue, and its job finds the row and its file as they were accepted.
THEOREM CalmInvariance ==
  ASSUME Calm PROVE Spec => []CalmInv
BY CalmInit, CalmStep, PTL DEF Spec

\* Then no accepted file is forgotten: a committed PENDING row has a job, or the batch request
\* that committed it is still about to enqueue one.
THEOREM Scheduled ==
  ASSUME Calm PROVE Spec => []PendingIsScheduled
BY CalmInvariance, PTL DEF CalmInv
=============================================================================
