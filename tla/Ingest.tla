------------------------------- MODULE Ingest -------------------------------
(***************************************************************************)
(* Ingestion into one private collection: the upload, batch-upload and     *)
(* delete requests of app/api/kb.py, the pipeline of ingest_service.py,    *)
(* the background job of ingest_tasks.py, and the ARQ queue and worker     *)
(* that run it.                                                            *)
(*                                                                         *)
(* A step of this module is one statement that another transaction can     *)
(* observe or block.  A process is a client (one API request at a time) or *)
(* a source (the ARQ job of that source).                                  *)
(***************************************************************************)
EXTENDS KbTables, FiniteSets, Integers

CONSTANTS
  Searchable, \* the collection's kind is embedded (not a whole-document kind)
  Routes,     \* the requests clients make
  Faults,     \* what may go wrong
  MaxJobs     \* WorkerSettings.max_jobs

ASSUME ConfigAssumption ==
  /\ Searchable \in BOOLEAN
  /\ Routes \subseteq {"sync", "batch", "delete", "drop"}
  /\ Faults \subseteq {"pipeline", "disk", "redis", "abort", "timeout", "stop"}
  /\ MaxJobs \in Nat \ {0}

VARIABLES
  pc,     \* where each process is
  seen,   \* the ORM's copy of the source row, as the process loaded it
  at,     \* the source a client is working on
  name,   \* the filename of a client's upload
  batch,  \* the sources of a client's batch ({} outside the batch route)
  todo,   \* the sources still to do in this phase of the batch
  tgt,    \* the documents a client's statement has selected
  files,  \* upload storage: (source, filename) pairs present on disk
  job,    \* ARQ: the job of a source
  result, \* ARQ: the sources whose last job result is still cached
  up,     \* the worker process
  boot    \* the pending sources recover_pending_sources has yet to enqueue

request == <<at, name, batch, todo, tgt>>
queue == <<job, result>>
worker == <<up, boot>>
vars == <<tables, pc, seen, request, files, queue, worker>>

ClientSteps == {"idle", "next", "insert", "purge", "purging", "reset", "save",
                "publish", "enqueue", "record", "store", "delete"}
JobSteps == {"idle", "fetch", "fail", "done"}
PipelineSteps == {"parse", "document", "chunk", "embed", "commit"}

TypeOK ==
  /\ TablesTypeOK
  /\ pc \in [Procs -> ClientSteps \cup JobSteps \cup PipelineSteps]
  /\ seen \in [Procs -> Source]
  /\ at \in [Clients -> Sources \cup {None}]
  /\ name \in [Clients -> Names \cup {None}]
  /\ batch \in [Clients -> SUBSET Sources]
  /\ todo \in [Clients -> SUBSET Sources]
  /\ tgt \in [Clients -> SUBSET Docs]
  /\ files \subseteq Sources \X Names
  /\ job \in [Sources -> {"none", "queued", "running", "interrupted"}]
  /\ result \subseteq Sources
  /\ up \in {"down", "boot", "up"}
  /\ boot \subseteq Sources

Init ==
  /\ TablesInit
  /\ pc = [p \in Procs |-> "idle"]
  /\ seen = [p \in Procs |-> NoSource]
  /\ at = [c \in Clients |-> None]
  /\ name = [c \in Clients |-> None]
  /\ batch = [c \in Clients |-> {}]
  /\ todo = [c \in Clients |-> {}]
  /\ tgt = [c \in Clients |-> {}]
  /\ files = {}
  /\ job = [s \in Sources |-> "none"]
  /\ result = {}
  /\ up = "up"
  /\ boot = {}

-----------------------------------------------------------------------------
(* Vocabulary of the handlers.                                             *)

Goto(p, step) == pc' = [pc EXCEPT ![p] = step]

\* Client c's response is sent and its session closed.
Respond(c) ==
  /\ Goto(c, "idle")
  /\ seen' = [seen EXCEPT ![c] = NoSource]
  /\ at' = [at EXCEPT ![c] = None]
  /\ name' = [name EXCEPT ![c] = None]
  /\ batch' = [batch EXCEPT ![c] = {}]
  /\ todo' = [todo EXCEPT ![c] = {}]
  /\ tgt' = [tgt EXCEPT ![c] = {}]

\* MUTANT of Reject: the session of a failed request is not closed.
RejectKeepsLocks(c) == Respond(c) /\ UNCHANGED tables

\* Client c's transaction is rolled back and the request fails.
Reject(c) == Rollback({c}) /\ Respond(c)

\* MUTANT of IsReingestable: a pending row may be retried too.
AcceptsPending(r) == r.deleted \/ r.status \in {"failed", "pending"}

IsReingestable(r) == r.deleted \/ r.status = "failed"

\* The row these bytes already have makes the upload a duplicate.
Duplicate(s) == Exists(s) /\ ~IsReingestable(row[s])

\* find_existing_source has answered for s and it is no duplicate: c goes on to
\* insert the row, or to reset the one it loaded.
Claim(c, s) ==
  /\ Goto(c, IF Exists(s) THEN "purge" ELSE "insert")
  /\ seen' = [seen EXCEPT ![c] = row[s]]
  /\ at' = [at EXCEPT ![c] = s]

\* MUTANT of ResetRow: a retry keeps the filename of the first upload.
ResetRowKeepingName(was, n, cur) ==
  [status |-> IF was.status # "pending" THEN "pending" ELSE cur.status,
   deleted |-> IF was.deleted THEN FALSE ELSE cur.deleted,
   name |-> cur.name]

\* The row UPDATE of reset_source_for_reingest.  The ORM emits the columns whose
\* new value differs from the loaded one; the others keep what is in the table.
ResetRow(was, n, cur) ==
  [status |-> IF was.status # "pending" THEN "pending" ELSE cur.status,
   deleted |-> IF was.deleted THEN FALSE ELSE cur.deleted,
   name |-> IF was.name # n THEN n ELSE cur.name]

\* MUTANT of RowWritten: a batch commits its rows before it saves bytes.
RowWrittenUnsaved(c) ==
  IF batch[c] = {}
  THEN Goto(c, "parse") /\ UNCHANGED <<todo, at, seen>>
  ELSE LET rest == todo[c] \ {at[c]} IN
       /\ Goto(c, IF rest = {} THEN "publish" ELSE "next")
       /\ todo' = [todo EXCEPT ![c] = IF rest = {} THEN batch[c] ELSE rest]
       /\ at' = [at EXCEPT ![c] = None]
       /\ seen' = [seen EXCEPT ![c] = NoSource]

\* The row of c's upload is written: the single upload runs the pipeline, a
\* batch takes the next file or starts saving bytes.
RowWritten(c) ==
  IF batch[c] = {}
  THEN Goto(c, "parse") /\ UNCHANGED <<todo, at, seen>>
  ELSE LET rest == todo[c] \ {at[c]} IN
       /\ Goto(c, IF rest = {} THEN "save" ELSE "next")
       /\ todo' = [todo EXCEPT ![c] = IF rest = {} THEN batch[c] ELSE rest]
       /\ at' = [at EXCEPT ![c] = None]
       /\ seen' = [seen EXCEPT ![c] = NoSource]

\* enqueue_job with a fixed _job_id does nothing while the job, or the cached
\* result of an earlier one, exists.
Enqueue(s) ==
  /\ job' = IF job[s] = "none" /\ s \notin result
            THEN [job EXCEPT ![s] = "queued"] ELSE job
  /\ UNCHANGED result

\* The source whose row the pipeline of p works on.
Target(p) == IF p \in Clients THEN at[p] ELSE p

Unlocked(s) == lock[s] = None
DocsUnlocked(D) == \A d \in D : docLock[d] = None

\* A document identity no statement in progress refers to.
FreshDocs == {d \in Docs : /\ docs[d].state = "absent"
                           /\ docWork[d].state = "absent"
                           /\ docLock[d] = None
                           /\ \A c \in Clients : d \notin tgt[c]}

-----------------------------------------------------------------------------
(* POST /upload and the row writes it shares with the batch route.         *)

\* The collection is there and the bytes are new, or a retry.  (A duplicate is
\* answered with skipped = True and changes nothing.)
SyncFind(c) ==
  /\ pc[c] = "idle" /\ "sync" \in Routes
  /\ collection
  /\ \E s \in Sources, n \in Names :
       /\ ~Duplicate(s)
       /\ Claim(c, s)
       /\ name' = [name EXCEPT ![c] = n]
  /\ UNCHANGED <<tables, batch, todo, tgt, files, queue, worker>>

\* INSERT: waits for an uncommitted row with the same key, and fails on the
\* unique index or on the foreign key.
Insert(c) ==
  LET s == at[c] IN
  /\ pc[c] = "insert"
  /\ Unlocked(s) \/ Exists(s)
  /\ IF Exists(s) \/ ~collection
     THEN Reject(c)
     ELSE /\ Write(c, s, NewSource(name[c]))
          /\ RowWritten(c)
          /\ UNCHANGED <<collection, documentRows, name, batch, tgt>>
  /\ UNCHANGED <<files, queue, worker>>

\* MUTANT of Purge: the deletion filters deleted documents like every query does.
PurgeLive(c) ==
  /\ pc[c] = "purge"
  /\ tgt' = [tgt EXCEPT ![c] = LiveDocs(at[c])]
  /\ Goto(c, "purging")
  /\ UNCHANGED <<tables, seen, at, name, batch, todo, files, queue, worker>>

\* The snapshot of DELETE FROM documents WHERE source_id = ...
Purge(c) ==
  /\ pc[c] = "purge"
  /\ tgt' = [tgt EXCEPT ![c] = DocsOf(at[c])]
  /\ Goto(c, "purging")
  /\ UNCHANGED <<tables, seen, at, name, batch, todo, files, queue, worker>>

\* ... and its effect, once no other transaction holds one of those rows.
\* Their chunks go with them (ON DELETE CASCADE).
PurgeDelete(c) ==
  /\ pc[c] = "purging"
  /\ DocsUnlocked(tgt[c])
  /\ WriteDocs(c, {d \in tgt[c] : docs[d].state # "absent"}, NoDocument)
  /\ tgt' = [tgt EXCEPT ![c] = {}]
  /\ Goto(c, "reset")
  /\ UNCHANGED <<collection, sourceRows, seen, at, name, batch, todo, files,
                 queue, worker>>

\* The row UPDATE; no row left to update is a StaleDataError.
Reset(c) ==
  LET s == at[c] IN
  /\ pc[c] = "reset"
  /\ Unlocked(s)
  /\ IF ~Exists(s)
     THEN Reject(c)
     ELSE /\ Write(c, s, ResetRow(seen[c], name[c], row[s]))
          /\ RowWritten(c)
          /\ UNCHANGED <<collection, documentRows, name, batch, tgt>>
  /\ UNCHANGED <<files, queue, worker>>

\* The transaction of ingest_private_upload ends: with the document, or with
\* the failed row that ingest_document recorded.
SyncCommit(c) ==
  /\ pc[c] \in {"commit", "record"}
  /\ Commit(c)
  /\ IF pc[c] = "commit"
     THEN Goto(c, "store") /\ UNCHANGED <<seen, request>>
     ELSE Respond(c)
  /\ UNCHANGED <<files, queue, worker>>

\* The original is kept for preview, after the commit; an OSError is only logged.
StoreBytes(c) ==
  /\ pc[c] = "store"
  /\ \/ files' = files \cup {<<at[c], name[c]>>}
     \/ "disk" \in Faults /\ UNCHANGED files
  /\ Respond(c)
  /\ UNCHANGED <<tables, queue, worker>>

-----------------------------------------------------------------------------
(* The pipeline, inside the savepoint of its caller.                       *)

\* status = PARSING.  For a job this is the first write: it waits for the row
\* and fails when the row is gone.
Parse(p) ==
  LET s == Target(p) IN
  /\ pc[p] = "parse"
  /\ lock[s] \in {p, None}
  /\ IF p \in Sources /\ ~Exists(s)
     THEN Goto(p, "fail") /\ UNCHANGED sourceRows
     ELSE Goto(p, "document") /\ SetStatus(p, s, "parsing")
  /\ UNCHANGED <<collection, documentRows, seen, request, files, queue, worker>>

AddDocument(p) ==
  /\ pc[p] = "document"
  /\ \E d \in FreshDocs :
       WriteDocs(p, {d}, [state |-> "live", of |-> Target(p), chunks |-> FALSE])
  /\ SetStatus(p, Target(p), "chunking")
  /\ Goto(p, "chunk")
  /\ UNCHANGED <<collection, seen, request, files, queue, worker>>

\* Nothing to split: the document is complete without chunks.
ChunkEmpty(p) ==
  /\ pc[p] = "chunk"
  /\ SetStatus(p, Target(p), "completed")
  /\ Goto(p, "commit")
  /\ UNCHANGED <<collection, documentRows, seen, request, files, queue, worker>>

\* Chunks to insert; those of a searchable collection are embedded first.
Chunk(p) ==
  /\ pc[p] = "chunk"
  /\ SetStatus(p, Target(p), IF Searchable THEN "embedding" ELSE "chunking")
  /\ Goto(p, "embed")
  /\ UNCHANGED <<collection, documentRows, seen, request, files, queue, worker>>

InsertChunks(p) ==
  /\ pc[p] = "embed"
  /\ WriteDocs(p, NewDocs(p), [state |-> "live", of |-> Target(p), chunks |-> TRUE])
  /\ SetStatus(p, Target(p), "completed")
  /\ Goto(p, "commit")
  /\ UNCHANGED <<collection, seen, request, files, queue, worker>>

\* A stage raises.  The upload took its savepoint after writing the row and
\* keeps it, now FAILED; the job took its savepoint first and loses everything.
PipelineFail(p) ==
  /\ "pipeline" \in Faults
  /\ pc[p] \in {"document", "chunk", "embed"}
  /\ IF p \in Clients
     THEN /\ DropNewDocs(p)
          /\ SetStatus(p, Target(p), "failed")
          /\ Goto(p, "record")
          /\ UNCHANGED collection
     ELSE Rollback({p}) /\ Goto(p, "fail")
  /\ UNCHANGED <<seen, request, files, queue, worker>>

-----------------------------------------------------------------------------
(* POST /batch-upload.                                                     *)

BatchBegin(c) ==
  /\ pc[c] = "idle" /\ "batch" \in Routes
  /\ collection
  /\ \E S \in (SUBSET Sources) \ {{}}, n \in Names :
       /\ batch' = [batch EXCEPT ![c] = S]
       /\ todo' = [todo EXCEPT ![c] = S]
       /\ name' = [name EXCEPT ![c] = n]
  /\ Goto(c, "next")
  /\ UNCHANGED <<tables, seen, at, tgt, files, queue, worker>>

BatchFind(c) ==
  /\ pc[c] = "next"
  /\ \E s \in todo[c] : ~Duplicate(s) /\ Claim(c, s)
  /\ UNCHANGED <<tables, name, batch, todo, tgt, files, queue, worker>>

\* 422: a duplicate of a row, or of an earlier file of the same batch.
BatchReject(c) ==
  /\ pc[c] = "next"
  /\ \/ \E s \in todo[c] : Duplicate(s)
     \/ todo[c] # batch[c]
  /\ Reject(c)
  /\ UNCHANGED <<files, queue, worker>>

\* Bytes reach the disk before the rows are committed.  A failing write rolls
\* the rows back and leaves the files already saved.
SaveOne(c) ==
  /\ pc[c] = "save"
  /\ \E s \in todo[c] :
       /\ files' = files \cup {<<s, name[c]>>}
       /\ todo' = [todo EXCEPT ![c] = @ \ {s}]
       /\ Goto(c, IF todo[c] = {s} THEN "publish" ELSE "save")
  /\ UNCHANGED <<tables, seen, at, name, batch, tgt, queue, worker>>

\* MUTANT of SaveFail: a failing write is only logged, as the single upload does.
SaveFailLogged(c) ==
  /\ pc[c] = "save" /\ "disk" \in Faults
  /\ Goto(c, "publish")
  /\ UNCHANGED <<tables, seen, request, files, queue, worker>>

SaveFail(c) ==
  /\ pc[c] = "save" /\ "disk" \in Faults
  /\ Reject(c)
  /\ UNCHANGED <<files, queue, worker>>

\* MUTANT of BatchCommit: jobs are enqueued before the rows are committed.
BatchUncommitted(c) ==
  /\ pc[c] = "publish"
  /\ Rollback({c})
  /\ todo' = [todo EXCEPT ![c] = batch[c]]
  /\ Goto(c, "enqueue")
  /\ UNCHANGED <<seen, at, name, batch, tgt, files, queue, worker>>

BatchCommit(c) ==
  /\ pc[c] = "publish"
  /\ Commit(c)
  /\ todo' = [todo EXCEPT ![c] = batch[c]]
  /\ Goto(c, "enqueue")
  /\ UNCHANGED <<seen, at, name, batch, tgt, files, queue, worker>>

\* MUTANT of EnqueueOne: the loop returns after its first job.
EnqueueFirst(c) ==
  /\ pc[c] = "enqueue"
  /\ \E s \in todo[c] : Enqueue(s)
  /\ Respond(c)
  /\ UNCHANGED <<tables, files, worker>>

EnqueueOne(c) ==
  /\ pc[c] = "enqueue"
  /\ \E s \in todo[c] :
       /\ Enqueue(s)
       /\ IF todo[c] = {s}
          THEN Respond(c)
          ELSE /\ todo' = [todo EXCEPT ![c] = @ \ {s}]
               /\ UNCHANGED <<pc, seen, at, name, batch, tgt>>
  /\ UNCHANGED <<tables, files, worker>>

\* 503: the rows stay pending without a job.
RedisDown(c) ==
  /\ pc[c] = "enqueue" /\ "redis" \in Faults
  /\ Respond(c)
  /\ UNCHANGED <<tables, files, queue, worker>>

-----------------------------------------------------------------------------
(* DELETE /sources/{id} and DELETE /collections/{id}.                      *)

\* The row and its documents are loaded.
DeleteFind(c) ==
  /\ pc[c] = "idle" /\ "delete" \in Routes
  /\ \E s \in Sources :
       /\ Exists(s)
       /\ at' = [at EXCEPT ![c] = s]
       /\ seen' = [seen EXCEPT ![c] = row[s]]
       /\ tgt' = [tgt EXCEPT ![c] = DocsOf(s)]
  /\ Goto(c, "delete")
  /\ UNCHANGED <<tables, name, batch, todo, files, queue, worker>>

\* Chunks deleted, documents and row stamped, and committed.  An object that
\* was loaded and is gone is a StaleDataError.
DeleteCommit(c) ==
  LET s == at[c] IN
  /\ pc[c] = "delete"
  /\ Unlocked(s) /\ DocsUnlocked(tgt[c])
  /\ IF Exists(s) /\ \A d \in tgt[c] : docs[d].state # "absent"
     THEN /\ WriteThrough(s, [row[s] EXCEPT !.deleted = TRUE])
          /\ SoftDelete(tgt[c])
          /\ UNCHANGED collection
     ELSE UNCHANGED tables
  /\ Respond(c)
  /\ UNCHANGED <<files, queue, worker>>

\* The cascade waits for every transaction that holds or references its rows.
DropCollection(c) ==
  /\ pc[c] = "idle" /\ "drop" \in Routes
  /\ collection
  /\ \A s \in Sources : Unlocked(s)
  /\ DocsUnlocked(Docs)
  /\ \A b \in Clients : batch[b] = {} \/ pc[b] = "enqueue"
  /\ collection' = FALSE
  /\ row' = [s \in Sources |-> NoSource] /\ work' = row'
  /\ docs' = [d \in Docs |-> NoDocument] /\ docWork' = docs'
  /\ UNCHANGED <<lock, docLock, pc, seen, request, files, queue, worker>>

-----------------------------------------------------------------------------
(* The ARQ queue and the worker process.                                   *)

\* A worker slot takes a queued job, and ingest_source loads the row.
JobStart(s) ==
  /\ up = "up" /\ job[s] = "queued"
  /\ Cardinality({t \in Sources : job[t] = "running"}) < MaxJobs
  /\ job' = [job EXCEPT ![s] = "running"]
  /\ IF row[s].status = "pending"
     THEN Goto(s, "fetch") /\ seen' = [seen EXCEPT ![s] = row[s]]
     ELSE Goto(s, "done") /\ UNCHANGED seen
  /\ UNCHANGED <<tables, request, files, result, worker>>

\* The batch and collection are loaded (when they are gone, so is the row that
\* would be marked FAILED), then the stored bytes are read.
JobFetch(s) ==
  /\ pc[s] = "fetch"
  /\ \/ ~collection /\ Goto(s, "done")
     \/ collection /\ <<s, seen[s].name>> \in files /\ Goto(s, "parse")
     \/ /\ collection
        /\ <<s, seen[s].name>> \notin files \/ "disk" \in Faults
        /\ Goto(s, "fail")
  /\ UNCHANGED <<tables, seen, request, files, queue, worker>>

\* MUTANT of JobFail: the row is written back as the job loaded it.
JobFailStale(s) ==
  /\ pc[s] = "fail"
  /\ Unlocked(s)
  /\ IF Exists(s) THEN WriteThrough(s, [seen[s] EXCEPT !.status = "failed"])
                  ELSE UNCHANGED sourceRows
  /\ Goto(s, "done")
  /\ UNCHANGED <<collection, documentRows, seen, request, files, queue, worker>>

\* MUTANT of JobFail: loading the expired row raises before the status is set.
JobFailUnrecorded(s) ==
  /\ pc[s] = "fail"
  /\ Goto(s, "done")
  /\ UNCHANGED <<tables, seen, request, files, queue, worker>>

\* The failure is recorded by an UPDATE of whatever the row is by now.
JobFail(s) ==
  /\ pc[s] = "fail"
  /\ Unlocked(s)
  /\ IF Exists(s) THEN WriteThrough(s, [row[s] EXCEPT !.status = "failed"])
                  ELSE UNCHANGED sourceRows
  /\ Goto(s, "done")
  /\ UNCHANGED <<collection, documentRows, seen, request, files, queue, worker>>

\* MUTANT of JobCommit: the job's last commit is forgotten.
JobUncommitted(s) ==
  /\ pc[s] = "commit"
  /\ Rollback({s})
  /\ Goto(s, "done")
  /\ UNCHANGED <<seen, request, files, queue, worker>>

JobCommit(s) ==
  /\ pc[s] = "commit"
  /\ Commit(s)
  /\ Goto(s, "done")
  /\ UNCHANGED <<seen, request, files, queue, worker>>

\* ARQ takes job s off the queue and caches its result.
Finish(s) ==
  /\ job' = [job EXCEPT ![s] = "none"]
  /\ result' = result \cup {s}

JobFinish(s) ==
  /\ pc[s] = "done"
  /\ Finish(s)
  /\ Goto(s, "idle")
  /\ seen' = [seen EXCEPT ![s] = NoSource]
  /\ UNCHANGED <<tables, request, files, worker>>

\* job_timeout cancels the coroutine: CancelledError passes the job's except
\* clauses and closing the session rolls its transaction back.
JobTimeout(s) ==
  /\ "timeout" \in Faults
  /\ pc[s] # "idle"
  /\ Rollback({s})
  /\ Finish(s)
  /\ Goto(s, "idle")
  /\ seen' = [seen EXCEPT ![s] = NoSource]
  /\ UNCHANGED <<request, files, worker>>

\* A job that was cut short is a second try, and max_tries = 1 refuses it.
JobRefused(s) ==
  /\ up = "up" /\ job[s] = "interrupted"
  /\ Finish(s)
  /\ UNCHANGED <<tables, pc, seen, request, files, worker>>

\* keep_result elapses.
ExpireResult(s) ==
  /\ s \in result
  /\ result' = result \ {s}
  /\ UNCHANGED <<tables, pc, seen, request, files, job, worker>>

\* The worker process stops or dies with its jobs.
WorkerStop ==
  /\ "stop" \in Faults /\ up # "down"
  /\ up' = "down" /\ boot' = {}
  /\ Rollback(Sources)
  /\ pc' = [p \in Procs |-> IF p \in Sources THEN "idle" ELSE pc[p]]
  /\ seen' = [p \in Procs |-> IF p \in Sources THEN NoSource ELSE seen[p]]
  /\ job' = [s \in Sources |-> IF job[s] = "running" THEN "interrupted" ELSE job[s]]
  /\ UNCHANGED <<request, files, result>>

\* on_startup: recover_pending_sources selects the pending rows ...
WorkerBoot ==
  /\ up = "down"
  /\ up' = "boot"
  /\ boot' = {s \in Sources : row[s].status = "pending"}
  /\ UNCHANGED <<tables, pc, seen, request, files, queue>>

\* ... and enqueues them, before the worker polls for jobs.
RecoverOne(s) ==
  /\ up = "boot" /\ s \in boot
  /\ Enqueue(s)
  /\ boot' = boot \ {s}
  /\ UNCHANGED <<tables, pc, seen, request, files, up>>

WorkerReady ==
  /\ up = "boot" /\ boot = {}
  /\ up' = "up"
  /\ UNCHANGED <<tables, pc, seen, request, files, queue, boot>>

-----------------------------------------------------------------------------
(* Requests that end early.                                                *)

\* The transactions p waits for.
Blockers(p) ==
  LET rows == IF \/ pc[p] \in {"reset", "parse", "delete", "fail"}
                 \/ pc[p] = "insert" /\ ~Exists(at[p])
              THEN {lock[Target(p)]} ELSE {}
      documents == IF pc[p] \in {"purging", "delete"}
                   THEN {docLock[d] : d \in tgt[p]} ELSE {}
  IN (rows \cup documents) \ {p, None}

\* c is on a cycle of waiting transactions: PostgreSQL aborts one of them.
Deadlocked(c) ==
  \E P \in SUBSET Procs : c \in P /\ \A p \in P : Blockers(p) \cap P # {}

\* The request is a deadlock's victim, or its process or connection dies.
Abort(c) ==
  /\ pc[c] # "idle"
  /\ "abort" \in Faults \/ Deadlocked(c)
  /\ Reject(c)
  /\ UNCHANGED <<files, queue, worker>>

-----------------------------------------------------------------------------
ClientStep(c) ==
  \/ SyncFind(c) \/ Insert(c) \/ Purge(c) \/ PurgeDelete(c) \/ Reset(c)
  \/ SyncCommit(c) \/ StoreBytes(c)
  \/ BatchBegin(c) \/ BatchFind(c) \/ BatchReject(c)
  \/ SaveOne(c) \/ SaveFail(c) \/ BatchCommit(c) \/ EnqueueOne(c) \/ RedisDown(c)
  \/ DeleteFind(c) \/ DeleteCommit(c) \/ DropCollection(c) \/ Abort(c)

JobStep(s) ==
  \/ JobStart(s) \/ JobFetch(s) \/ JobFail(s) \/ JobCommit(s) \/ JobFinish(s)
  \/ JobTimeout(s) \/ JobRefused(s) \/ ExpireResult(s) \/ RecoverOne(s)

PipelineStep(p) ==
  \/ Parse(p) \/ AddDocument(p) \/ ChunkEmpty(p) \/ Chunk(p) \/ InsertChunks(p)
  \/ PipelineFail(p)

Next ==
  \/ \E c \in Clients : ClientStep(c)
  \/ \E s \in Sources : JobStep(s)
  \/ \E p \in Procs : PipelineStep(p)
  \/ WorkerStop \/ WorkerBoot \/ WorkerReady

Spec == Init /\ [][Next]_vars

-----------------------------------------------------------------------------
(* Fairness.  A request or job that can go on does: nothing in the handlers  *)
(* waits but for row locks, which PostgreSQL grants in arrival order, and a   *)
(* worker slot, which ARQ gives in queue order; hence strong fairness.  No   *)
(* request is obliged to start, nothing is obliged to fail, and no cached    *)
(* result is obliged to expire.                                             *)

Advance(p) ==
  \/ /\ p \in Clients
     /\ \/ Insert(p) \/ Purge(p) \/ PurgeDelete(p) \/ Reset(p)
        \/ SyncCommit(p) \/ StoreBytes(p)
        \/ BatchFind(p) \/ BatchReject(p) \/ SaveOne(p) \/ BatchCommit(p) \/ EnqueueOne(p)
        \/ DeleteCommit(p) \/ (Deadlocked(p) /\ Abort(p))
  \/ /\ p \in Sources
     /\ \/ JobStart(p) \/ JobFetch(p) \/ JobFail(p) \/ JobCommit(p) \/ JobFinish(p)
        \/ JobRefused(p)
  \/ Parse(p) \/ AddDocument(p) \/ ChunkEmpty(p) \/ Chunk(p) \/ InsertChunks(p)

Booting == WorkerBoot \/ WorkerReady \/ \E s \in Sources : RecoverOne(s)

Fairness ==
  /\ \A p \in Procs : SF_vars(Advance(p))
  /\ WF_vars(Booting)

FairSpec == Spec /\ Fairness

-----------------------------------------------------------------------------
(* Properties.                                                              *)

\* The statuses in between (parsing, chunking, embedding) are only ever seen by
\* the transaction that writes them, whatever fails and wherever the worker is
\* killed.  recover_pending_sources, which selects PENDING alone, misses no
\* interrupted source because of this.
SettledRows == \A s \in Sources : row[s].status \in Settled

\* A committed PENDING row has bytes in the upload storage: the batch route
\* saves before it commits, and no retry, failure or rollback of another request
\* leaves a pending row that no file backs.
PendingHasBytes ==
  \A s \in Sources : row[s].status = "pending" => \E n \in Names : <<s, n>> \in files

\* A job in the queue belongs to a committed row; only dropping the collection
\* takes the row away.
JobsAreDurable ==
  \A s \in Sources : job[s] # "none" => Exists(s) \/ ~collection

\* A document becomes visible exactly when its source becomes COMPLETED: no
\* commit publishes a half-ingested document, or completes a source without one.
Appearing(s) == {d \in Docs : docs[d].state = "absent" /\ docs'[d].state = "live"
                             /\ docs'[d].of = s}
IngestIsAtomic ==
  [][\A s \in Sources :
       /\ Appearing(s) # {} => row'[s].status = "completed"
       /\ row'[s].status = "completed" /\ row[s].status # "completed"
            => \E d \in Docs : Appearing(s) = {d}]_vars

\* A deleted source comes back only when an upload of its bytes commits: a job
\* in flight during the deletion finishes or fails without undoing it.
DeletionSticks ==
  [][\A s \in Sources :
       row[s].deleted /\ Exists(s)' /\ ~row'[s].deleted => lock[s] \in Clients]_vars

\* Deduplication: the same bytes are searchable once.
OneSearchableCopy == \A s \in Sources : Cardinality(LiveDocs(s)) <= 1

\* A FAILED row never produced a usable document.
FailedHasNoDocument ==
  \A s \in Sources : row[s].status = "failed" => LiveDocs(s) = {}

\* A PENDING row has a job, or its request is about to enqueue one.
PendingIsScheduled ==
  \A s \in Sources : row[s].status = "pending" =>
    \/ job[s] \in {"queued", "running"}
    \/ \E c \in Clients : pc[c] = "enqueue" /\ s \in todo[c]

\* An accepted file is eventually ingested.
AcceptedCompletes ==
  \A s \in Sources : row[s].status = "pending" ~> row[s].status = "completed"

\* A pending source whose job is queued is eventually settled, whatever the
\* pipeline, the disk and Redis do.
QueuedSettles ==
  \A s \in Sources :
    job[s] = "queued" /\ row[s].status = "pending" ~> row[s].status # "pending"

\* A pending source whose job was cut short is run again.
InterruptedSettles ==
  \A s \in Sources :
    job[s] = "interrupted" /\ row[s].status = "pending" ~> row[s].status # "pending"

\* Every request is eventually answered: row locks never leave requests waiting
\* for each other.
RequestsEnd == \A c \in Clients : pc[c] # "idle" ~> pc[c] = "idle"
=============================================================================
