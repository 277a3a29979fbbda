# YC-Studio: a verification project

YC-Studio is a content studio over a knowledge base: a FastAPI backend (PostgreSQL with
pgvector, Redis, ARQ), a background worker and a Vue frontend. Users upload files into
collections; the files are parsed, chunked, embedded and made searchable; retrieval quality is
measured by evaluation runs. A command seeds two public libraries from files in the repository.
This directory holds TLA+ models of the parts where something
hard happens, the TLC runs that check them and the TLAPS proofs about them.

Paths below are relative to `src/`.

## Inventory

| Component | State | Operations | Interacts with | Hard behaviour | Correct when |
|---|---|---|---|---|---|
| Ingestion pipeline (`backend/app/services/ingest_service.py`) | `sources`, `documents`, `chunks` rows | `ingest_document`, `ingest_pending_source`, `reset_source_for_reingest`, the stages of `_run_pipeline` | called by the routes and the job, inside their transactions | failing stages, savepoints, retries racing each other and the job | documents appear exactly with a COMPLETED source; one live document per content |
| Upload routes (`backend/app/api/kb.py`, `services/kb_service.py`) | a request's transaction, files on disk, jobs in Redis | `upload_file`, `upload_batch` | database, disk and queue, in a fixed order, none of them atomic together | a failure between any two of the three | rows have bytes, jobs have rows, accepted files get jobs |
| Background job and worker (`backend/app/tasks/`) | ARQ queue, cached results, running jobs | `ingest_source`, `recover_pending_sources`, ARQ's own steps | reads what the routes committed | stop, crash, `job_timeout`, `max_tries`, id-based deduplication | a queued job settles its source; interrupted work is done later |
| Deletion (`kb_service.py`) | `deleted_at`, chunks, cascades | `delete_source`, `delete_collection` | rows of in-flight uploads and jobs | a job or a retry in flight | a deletion stays until an upload undoes it |
| Upload storage (`adapters/storage.py`) | files by (source id, filename) | `save`, `read`, `find`, `remove` | routes write, job reads | a failing disk, a changed filename | the job finds what the batch saved |
| Batch progress (`kb_service.py`) | `sources.batch_id` | `get_batch_progress` | retries move sources to newer batches | earlier batches lose sources | counts add up |
| Collections (`kb_service.py`, `api/kb.py`) | `kb_collections` | create, delete; the public ones by seeding | users' requests and seeders insert into one table | unique key with a NULL owner, two constraints on one insert | one library per owner, kind and name; a refusal tells the truth |
| Browsing and search (`kb_service.py`) | none of its own | list, count, search, preview, download | reads committed rows while uploads and jobs change them | a list and a preview are several statements | what is listed is so, and the readers agree with each other |
| Upload intake (`api/kb.py`, `rag/parsers/base.py`) | none | validate suffix and type, read up to a limit, serve | before and after the pipeline | the limit between two reads | what is accepted can be parsed and served |
| Evaluation runs and datasets (`evaluation/service.py`, `api/evaluation.py`, `tasks/eval_tasks.py`) | `eval_runs`, `eval_results`, `eval_datasets`, `eval_cases` | create, enqueue, execute, fail, compare, add, generate, review | queue and worker as above | ambiguous enqueue failures, aborted transactions, stopped workers | a run ends COMPLETED with all its results, or FAILED |
| Metrics and generation (`evaluation/metrics.py`, `generation.py`) | none | hit rate, reciprocal rank, attribution, validation | used by runs | boundaries | agree with their definitions |
| Chunker and cleaner (`rag/chunker.py`, `cleaner.py`) | none | split, overlap | used by the pipeline | limits at their boundaries | every chunk fits, nothing is lost |
| Public seeds (`services/public_seed.py`, `scripts/seed_public_libraries.py`) | public collections and their sources | `seed_public_libraries`, in one transaction | the pipeline, the collections table, another seeder | two seeders at once; repeated, interrupted seeding; moved contents | the libraries mirror the files; no deadlock |
| Knowledge-base page (`frontend/src/pages/KnowledgeBase.vue`) | selection, lists, dialogs | select, reload, upload, delete, preview | asynchronous requests | responses out of order | what is shown belongs to what is selected |
| Parsers, embeddings, middleware, logging, health, migrations, scripts, mock-backed pages | caches, configuration, fixtures | pure functions, probes, one-shot commands | | | not modelled: see PROJECT.json |

## Modules

| Module | What it is |
|---|---|
| `KbTables` | the rows of one collection as concurrent READ COMMITTED transactions see them |
| `Ingest` | the processes: upload, batch and delete requests, the job, ARQ and its worker; the properties and the fairness |
| `IngestInv` | the inductive invariants `IInv` and, for runs in which nothing fails, `CalmInv` |
| `MCIngest` | the TLC instance (symmetry) |
| `IngestProofs` | its theorems, and that no accepted file is forgotten |
| `Browse` | what readers see while `Ingest` works: counts, search, preview, download, batch progress |
| `Listing` | the list of sources, statement by statement, over `Browse` |
| `Library` | the abstract specification: what the library promises its only user |
| `BrowseInv` | the inductive invariants `ReaderInv`, for any number of users, and `LoneInv`, for one |
| `MCListing` | the TLC instance of both |
| `LibraryProofs` | their theorems, that `Browse` with one user implements `Library`, and what its list tells |
| `Collections` | the rows of `kb_collections`, and the requests that create and delete them |
| `PublicSeed` | the seeding command, over `Collections` |
| `MCSeed` | the TLC instance of both |
| `SeedProofs` | the inductive invariants and theorems of both |
| `EvalDataset` | an evaluation dataset: its cases, its cached count, and the requests that change them |
| `EvalRuns` | evaluation runs over it: the request that queues one, its job, the worker; the properties and the fairness |
| `RunLife` | the abstract specification: what a run promises its reader |
| `EvalInv` | the inductive invariants `IInv`, `Followed` and `CountFollows` |
| `MCEval` | the TLC instance (symmetry) |
| `EvalProofs` | their theorems, and that `EvalRuns` implements `RunLife` |
| `Chunker` | splitting texts, counting tokens, fitting the budget to the encoder's window |
| `Cleaner` | normalizing and removing characters, removing page numbers, repeated margins and blank lines |
| `EvalMetrics` | the order of retrieval, the metrics, attribution, the summary of a run, comparing two |
| `Intake` | the checks on an upload, the byte limit, how a file is served |
| `Algorithms` | the four of them as one specification: a state is an input, and the invariants are what they promise of it |
| `MCAlgorithms` | the TLC instance: every bounded input |
| `Induction` | lemmas for proofs: induction over finite sets and numbers, sums, folds |
| `ChunkerProofs`, `CleanerProofs` | lemmas about texts and about lines of any length |
| `AlgorithmProofs` | the theorems of `Algorithms` |

`Browse` extends `Ingest` and instantiates `Library`, `Listing` extends `Browse`, and `PublicSeed` extends `Collections`. `EvalRuns` extends `EvalDataset` and instantiates `RunLife`; it shares no state with `Ingest`. What
an evaluation reads of the library is the outcome of its retrievals, which can be anything.

### KbTables: what a transaction sees

A source row has a committed version `row[s]` and the version `work[s]` of the transaction that
holds `lock[s]`; documents likewise (`docs`, `docWork`, `docLock`). SELECTs read committed
versions, and every write first takes the row lock. This is PostgreSQL at READ COMMITTED, which
`db/session.py` uses by leaving the default. `Commit`, `Rollback`, `DropNewDocs` (ROLLBACK TO
SAVEPOINT) and `WriteThrough` (a single-statement transaction) are the database's operations;
they are marked external where no line of this repository is behind them.

* One value stands for `sources.id`, `sources.content_hash` and the ARQ job id. Inside a collection
  the unique constraint makes the hash identify the row, and no row is destroyed without its
  collection.
* A document keeps its state (absent, live, soft-deleted), its source, and whether it has chunks.
  Texts, vectors, ordinals and error messages are abstracted away.
* `Docs` bounds the number of documents alive at once; `FreshDocs` recycles identities that nothing
  refers to.

### Ingest: who does what

A process is a client, which makes one request at a time, or a source, which stands for its job
(ARQ runs one job per source, its id being derived from the source). A step is one statement that
another transaction could observe or block.

| Code | Actions |
|---|---|
| `POST /upload` → `ingest_private_upload` → `ingest_document` | `SyncFind`, `Insert` or `Purge`, `PurgeDelete`, `Reset`, the pipeline, `SyncCommit`, `StoreBytes` |
| `POST /batch-upload` → `create_pending_batch` | `BatchBegin`, per file `BatchFind` and `Insert` or `Purge`, `PurgeDelete`, `Reset`; `BatchReject`; `SaveOne`, `SaveFail`; `BatchCommit`; `EnqueueOne`, `RedisDown` |
| `_run_pipeline`, for both | `Parse`, `AddDocument`, `ChunkEmpty` or `Chunk` and `InsertChunks`, `PipelineFail` |
| `DELETE /sources/{id}`, `DELETE /collections/{id}` | `DeleteFind`, `DeleteCommit`, `DropCollection` |
| `ingest_source` | `JobStart`, `JobFetch`, the pipeline, `JobFail` or `JobCommit` |
| ARQ and `WorkerSettings` | `JobFinish`, `JobTimeout`, `JobRefused`, `ExpireResult`, `WorkerStop`, `WorkerBoot`, `RecoverOne`, `WorkerReady` |
| the request's end by other means | `Abort` (a deadlock's victim, a lost connection or process) |

Details that decide what can happen, and where they come from:

* **Net-change updates.** `reset_source_for_reingest` assigns to an ORM object; the UPDATE carries
  only columns whose value differs from the loaded one. `ResetRow` keeps the others from the table.
* **DELETE and its snapshot.** `DELETE FROM documents WHERE source_id = ...` chooses its rows when it
  starts (`Purge`) and removes them when their locks are free (`PurgeDelete`).
* **Savepoints.** The upload writes its row before its savepoint, so a failing pipeline keeps the row
  and records FAILED; the job takes its savepoint first, so it rolls back to nothing and records
  FAILED in a statement of its own (`JobFail`), by id, whatever the row is by then.
* **Errors.** Inserting a row that has appeared meanwhile, or into a dropped collection, fails; an
  update of a vanished row is a `StaleDataError`. Both reject the request with a rollback.
* **ARQ.** `enqueue_job` with a fixed `_job_id` does nothing while that job or its cached result (one
  hour) exists. `max_tries = 1` refuses the second try of a job that was cut short. A timeout's
  `CancelledError` passes `except Exception`, so nothing is recorded.
* **Deletion.** Nothing observable happens between the flush and the commit of `delete_source`, so
  they are one step; dropping the collection waits for every transaction that holds or references
  its rows.

Left out: authorization (no state), metadata, directory paths, batch ids (`Browse` has them), and
different filenames within one batch. A duplicate answered with
`skipped` changes nothing and is not a step. Only one private collection is modelled: nothing in
these operations relates two.

### Browse: what readers see

At READ COMMITTED every statement has a snapshot of its own. A search and a batch's progress are one
SELECT each, so each is an operator on the committed tables (`Found`, `Progress`). `list_collections`
counts sources, documents and chunks in one SELECT each; `Counted` and `CountedByChunk` are what the
latter two count in *a* snapshot, and no property relates the counts of one answer, which may be of three.
`get_source_preview` is four SELECTs, so it is a process (`PreviewSource`, `PreviewDocument`,
`PreviewCount`, `PreviewChunks`).

`list_sources` is a process too, in `Listing`: `ListSources` selects the rows that are not deleted,
`ListDocuments` the documents of those rows, *without* asking whether they are deleted, `ListChunks` counts
their chunks, and anything of `Ingest` may commit in between. The rows are loaded objects and keep the
status that the first statement found. `gone` is a history variable of the model: the sources deleted
since the list was begun. Of those the list may show a document that is deleted, or none; of all others
`ListingHolds` says what it shows is so.

`IngestStep` is any step of `Ingest` with what `Ingest` leaves out:
the commit of a batch gives its sources the new `batch_id` (`AssignBatch`).

Three things here are the model's own. `raced` records the sources whose deletion *began* while they
were pending or had a job: for them nothing is promised, because a job goes on after a deletion
(`IngestIsAtomic` and `DeletionSticks` say what holds then). `KeepsIdentity` and `ListKeepsIdentity` are
bounds: while a preview or a list refers to a document that has been removed, its identity is not given to
a new one. `AssignBatch` uses a batch identity again once no source refers to it.

`Library` is all of this as its only user sees it: a content is absent, pending, completed, failed or
deleted, and is found by documents exactly while it is completed. Its operations are an upload that
ingests at once, a batch accepted as a whole, the settling of one pending content, a deletion and the
dropping of the collection; transactions, locks, savepoints, bytes, jobs, retries of the pipeline's
stages and worker restarts are gone. The refinement mapping reads the committed tables: `shelfNow`
is a row's status, or that it is deleted or raced; `indexNow` its live documents. The commit of a
request or job is the step of `Library`, every other step of `Ingest` or the reader a stutter.

### Collections and PublicSeed: who does what

| Code | Actions |
|---|---|
| `POST /collections` → `create_private_collection` | `CreateBegin`, `CreateFlush`, `CreateCommit` or `CreateRefused` |
| `DELETE /collections/{id}` → `delete_collection` | `DeleteFind`, `DeleteCommit` |
| `run` of `seed_public_libraries.py` | `SeedBegin`, `SeedCommit`, `SeedFail` |
| `seed_public_libraries`, for each library | `ReadLibraryFiles`, `FindCollection`, `CreateCollection`, `LoadSources`, per file `TakeFile` and, unless it is unchanged, `WriteRow`, `SelectDocuments`, `DeleteDocuments`, `AddDocument`; `NextLibrary` |
| a request's end by other means; a change of the checked-in files | `CallAborted`; `Edit` |

* **Unique keys.** An INSERT waits while an open transaction holds its key (`InsertBlockers`) and then
  fails if the key is taken. `NULLS NOT DISTINCT` makes the public rows, which have no owner, collide
  as well (`SameKey`). The unique index is checked before the foreign key, so an unknown principal may
  meet either error; `Classify` is what the code makes of it.
* **One transaction.** A seeder holds every row and key it has written until it ends: `inserting` and
  `work` are its uncommitted versions (the row's content, the documents deleted and added), `WriteBlockers`
  and `PurgeBlockers` whom it waits for.
* **One changed file** is four statements: the row's UPDATE (`WriteRow`), the DELETE, which finds the
  committed documents (`SelectDocuments`) and then deletes those that are still there (`DeleteDocuments`),
  and the new document (`AddDocument`). `Following` is their order: the session flushes the UPDATE before it
  sends the DELETE, so the DELETE looks for documents under the row lock and finds what the other seeder
  has committed (unlike `reset_source_for_reingest`; see `dup`). With the DELETE first, `OneDocument`
  fails: that is its mutant. A document is known by its content and its seeder.
* **Contents.** One content is in a library once (`Holding`, and the unique index behind it), so a file
  whose content another row still has makes the command fail, even when that row's file is gone.
* **The pipeline** of one file is one step (`AddDocument`): it runs inside the command's transaction,
  `Ingest` models its stages, and a failure rolls back the whole command (`SeedFail`).
* **Bounds.** `Edit` changes the tree only while no seeder runs; a seeder reads the files of a library
  at once. Two seeders from two different checkouts are outside the model.

### The algorithms

`Chunker` keeps of a character its class (letters of two kinds, a line break, a full stop, a
heading mark), which is what `DEFAULT_SEPARATORS` and the tokenizer tell apart; `Tokens` stands for
the WordPiece tokenizer (external), and keeps that it does not add up over pieces: that is what makes
the limits hard. `Cleaner` keeps of a line whether it is blank, a page number or one of a few
`Sayings`; `Nfkc` and `Visible`, which are constants, give what a saying becomes when its characters are
normalized and when zero-width and control characters are removed. `Clean` applies them where the code
does: the first before margins are compared, the second after, so that lines may become equal, blank
or page numbers at either place. `CharactersAssumption` is what they are known to do. `EvalMetrics` computes in thousandths (and NDCG with a table for `1 / log2`), with ranks
instead of chunk ids. `Intake` keeps sizes, suffixes and content types. `_fit_chunk_budget` divides
floats; the model divides integers exactly, so a scaled overlap may be one token more than the
code's where the quotient rounds down.

The pure functions are operators without state, so `Algorithms` makes a state of each input. `input`
is a text, the lines of a document, a ranking, the outcomes of a run, an upload or the results of two
runs, with its items so far; a step (`GrowText`, `GrowPages`, `GrowRanking`, `GrowOutcomes`,
`GrowReads`, `GrowRuns`) appends one. So an invariant of `Algorithms` is a claim about every input, and
`MaxLength` bounds the inputs for TLC only. The code's loops are folds whose step has a name of its own
(`CutAt`, `CutPrefix`, `AddPiece`, `AddLine`, ...), one turn of the loop each; a binary search is a
fold of as many turns as there are places, of which those after the end change nothing.

### EvalDataset and EvalRuns: who does what

A client is a request at work (the generation job counts as one: it makes the same transaction as a
request that adds cases). A run stands for its `eval_runs` row and for its job, whose id
`eval-run:<run id>` makes them one to one.

| Code | Actions |
|---|---|
| `add_manual_eval_cases`, `generate_eval_dataset` | `BeginAdd`, `LoadDataset`, `WriteCases`, `CountCases`, `CommitCases` |
| `review_eval_case` → `review_case` | `BeginReview`, then the same |
| `enqueue_eval_run` → `create_eval_run` | `RequestRun`, `LoadDataset`, `CountCases`, `CreateRun`, `Enqueue` or `EnqueueError` and `FailQueued` |
| `evaluate_run` → `run_evaluation` | `JobStart`, `MarkRunning`, `ListCases`, `EvaluateCase` once per case, `CompleteRun`; `RaiseError`, `FailRun`; `JobFinish` |
| ARQ | `JobStart`, `JobFinish`, `WorkerStop`, `WorkerStart`, `JobRefused` |
| a request's end by other means | `Abort` |

* **Transactions.** `cases` and `caseCount` are committed; `draft[c]` is what request `c` has flushed.
  A count sees both (`Seen`). A review whose row another review has flushed waits for its lock.
* **The count.** `refresh_dataset_case_count` counts, then assigns to the ORM's dataset; the UPDATE at
  the commit happens only if the count differs from the one *loaded*, which `CommitDataset` keeps.
* **Two transactions per run.** The first commits RUNNING. The second spans all cases, so its rows,
  summary and status appear in one commit (`CompleteRun`), and a statement that fails inside it
  (`broken`) dooms it: the cases that follow fail too, and then the commit.
* **Overwriting.** `run_evaluation` and `fail_evaluation_run` assign a status whatever it was. The
  former leaves an earlier `error_message`, the latter an earlier summary.
* **Lost replies.** `except Exception` around `enqueue_job` and around the whole of `run_evaluation`
  cannot tell an operation that failed from one whose reply was lost (`"reply"`): the first records
  FAILED for a run that is queued, the second for a run that is COMPLETED.
* **Bounds.** `Cases` and `Runs` are finite identities: a request for a run is made while an identity is
  left for it. The faults are named by the constant `Faults`.

Left out: queries, expected chunks, notes and metric values (an outcome is a hit, a miss or an
error), per-source statistics, ownership checks, the two GET routes that recompute the count and
never commit it, and worker slots (`max_jobs`), which delay a job and change nothing else.

## Runs

Every bound is in the `.cfg` files. Two clients are what a race needs; one content makes every
request meet the others; two documents allow an old one and a new one, three a job's besides. `Routes`
and `Faults` select which requests are made and what may go wrong.

| Run | Instance | Shows |
|---|---|---|
| `race` | 2 clients, 1 content, all routes and faults | `TypeOK`, `SettledRows`, `PendingHasBytes`, `JobsAreDurable`, `IngestIsAtomic`, `DeletionSticks` |
| `single_user` | 1 client, 1 content, 2 filenames, 3 documents, 2 batches, all routes, the worker with its faults, 1 reader | `UnracedMatchesIndex`, `ReadersAgree`, `PreviewAddsUp`, `PendingHasOwnFile`, `ListingHolds`, `ProgressAdvances`, `LibrarySpec` |
| `seed` | 2 seeders, 3 files in 2 libraries, 3 contents, 2 requests at once, 1 user, 1 stranger | `SeedTypeOK`, `OneLibraryPerName`, `OneDocument`, `SeedMirrorsTree`, `SeedersNeverDeadlock`, `ConflictIsReal` |
| `algorithms` | texts of 5 glyphs, 5 lines or page breaks, 4 chunks, 3 outcomes, 2 runs of 2 cases, 3 reads | `EveryChunkFits`, `EveryTextIsCovered`, `CleaningSettles`, `BodySurvives`, `MetricsTellOneStory`, `LabelFitsMetrics`, `SummariesAddUp`, `VerdictsFitSummaries`, `UploadsAreBounded` |
| `live` | 2 clients, 2 contents, batches of both, no failures, fair | `IInv`, `PendingIsScheduled`, `AcceptedCompletes`, `RequestsEnd` |
| `live_faults` | 1 client, 2 contents, batches and deletions, failing pipeline, disk and Redis, fair | `QueuedSettles` |
| `eval_runs` | 1 editor, 2 cases, 1 run, all faults | `IInv` (with `TypeOK`), `ReportMatchesResults`, `CountIsActive`, `OneRowPerCase`, `ResultsAreKept` |
| `eval_live` | 2 clients, 1 case, 1 run, failing queue and statements, fair | `RunsEnd`, `LifeSpec` |

`single_user` is one user at a time: the violations below show what concurrency does to the parts of
`UnracedMatchesIndex` and `Library`. One content with two filenames is what it takes for a job to look for its bytes
under a wrong name, two batches for a source to move from one to another; three documents let one be
listed, deleted and replaced. The reader makes one request at a time. `ListsBounded` keeps lists to the states
with one filename in use, since a list asks nothing of filenames, and drops a list once every source of it
is in `raced` or `gone`, when `ListingHolds` claims nothing more of it.

`seed` has three files because a deadlock or a moved content needs two in one library, and the order
of the libraries needs a second one; three contents let files be edited, swapped and made equal while a
third version is in the table. There are two requests, for one of a user's to lose to the other or to be told
the truth when the other is rolled back, and a stranger's; four identities are two public and two private
rows. `RequestsApart` keeps the requests to the states without files: what they share with the seeders is the
table of collections.

`algorithms` takes every budget that sizes of 3 to 6 tokens, overlaps of 0, 3 and 4 and encoder windows
of 3 to 5 give, every cutoff around the number of chunks, every set of expected chunks, weights that
are absent, uneven, zero and negative, and files around a limit of four bytes in reads of up to three. Five
glyphs hold a separator, an overlap and a hard split at once; five lines hold two pages, the least
for a repeated margin, with two lines of body between. The lines' sayings hold characters that compose, the same
with a zero-width space between, a line of nothing else, and page numbers that show only once they are
normalized or freed of one.

Four runs expect a violation, each of a sentence of the code itself:

| Run | Sentence | What happens |
|---|---|---|
| `dup` | "Deduplication exists to avoid ingesting the same bytes twice" (`ingest_service.py:485`) | two concurrent retries of a failed source leave two live documents |
| `failed_doc` | "A failed row never produced a usable document" (`ingest_service.py:486`) | a job that fails late marks a re-uploaded, completed source FAILED |
| `unscheduled` | "then enqueue one ARQ job per Source" (`api/kb.py:224`) | a batch retry within the result's hour gets no job |
| `interrupted` | "ARQ can safely run the same pending source again" (`ingest_service.py:268`) | `max_tries = 1` refuses it, and recovery's enqueue is deduplicated |

In `dup` and `interrupted` deadlock is not checked, because a client that has used up the document
identities, or a worker with nothing to do, leaves nothing to happen. In `single_user` and `seed` it is
not checked because identities of documents and collections may be used up; in `algorithms` an input
ends at its bound.

In the evaluation runs, two cases are what a run needs to fail between them, and one run is enough for its own life: runs
meet only in the dataset's editors and in the worker's stop. That two requests never share a run
(`OneRequest` in `IInv`) needs two of each, and is proved for any number.

Behaviours met while modelling that no run is spent on:

* A batch retry of a deleted PENDING source whose job completes in between is accepted with a
  COMPLETED row (`ingest_service.py:515` writes only changed columns).
* With two editors at work, the last commit's `case_count` leaves the other's change out until the
  next change or run (`evaluation/service.py:114`).
* A retrieval that fails in the database costs the whole run, not one row
  (`evaluation/service.py:491`: the exception is caught, its aborted transaction is not).
* A timed-out or stopped job leaves its run RUNNING, an API process that dies between the commit
  and the enqueue leaves it QUEUED, and `recover_pending_sources` looks at sources only.
* A run recorded FAILED because the reply to its enqueue was lost is executed all the same, and its
  job overwrites FAILED (`RunLife` allows it; `db/models/evaluation.py:1` speaks of "immutable run
  history").
* `compare_runs` promises to compare "every case that exists in both runs" (`evaluation/service.py:570`). It
  goes over the cases of *either* run (`:601`) and scores a missing one as zero (`:636`), so a case added or
  deactivated between two runs is listed among the improved or regressed ones. `CompareRuns` does what the
  code does; `VerdictsFitSummaries` claims something of runs over the same cases only.
* Cleaning is not idempotent in its characters: NFKC (`rag/cleaner.py:19`) comes before zero-width characters
  are removed (`:21`), so `clean("e\u200b\u0301")` is `"e\u0301"`, and cleaning that again composes the letter.
  Nothing promises otherwise; `CleaningSettles` says that this is all that a second cleaning does.
* The list's second statement (`kb_service.py:558`) does not ask whether a document is deleted, so a source
  that is deleted after the first one is listed with a deleted document. `_count_documents_by_collection`
  (`:790`) does not ask either, but asks its sources in the same statement (`ReadersAgree`).
* `weighted_mean` is "bounded" by its docstring; `source_weights` comes from a request, and negative
  weights leave the bounds or cancel out, which divides by zero and costs the run.
* Every ingestion names its batch size and so loads an encoder of its own
  (`embeddings.py:233`), against "prevents repeated expensive model loads" (`embeddings.py:92`).
* A seed file that is renamed, or that takes over another one's content, makes every further seeding
  fail, because the old path's row keeps the content; the source of a removed file stays. The docstring
  speaks of synchronizing (`public_seed.py:82`).

### Fairness

`Advance(p)` is strongly fair for every process: what a handler waits for is a row lock, which
PostgreSQL grants in order of arrival, or a worker slot, which ARQ gives in queue order, so a step
that is possible again and again is eventually taken. Booting the worker is weakly fair. No request
is obliged to start, nothing is obliged to fail, and no cached result is obliged to expire. A
deadlock's victim is aborted, as `deadlock_timeout` does.

In `EvalRuns`, `AdvanceRequest(c)` is strongly fair, because a review may wait for a row lock;
`AdvanceJob(r)` and the start of the worker are weakly fair, because a job waits for nothing. A
transaction that is aborted must raise in the end, so that much of `RaiseError` is fair too.

## Proofs

`IngestProofs` proves, for all sets of clients, contents, documents and filenames, all routes and
faults and every `MaxJobs`:

| Theorem | Statement |
|---|---|
| `Invariance` | `Spec => []IInv` |
| `Typing`, `Settlement`, `Storage`, `Durability` | `[]TypeOK`, `[]SettledRows`, `[]PendingHasBytes`, `[]JobsAreDurable` |
| `Deletion` | `DeletionSticks` |
| `Atomicity` | `IngestIsAtomic` |

The assumptions are `ProcsAssumption` (clients and sources are different things and `None` is
neither) and `ConfigAssumption` (the range of the configuration constants).

None of the safety properties is inductive: each speaks of committed rows, and what a commit
publishes is decided steps earlier. `IInv` adds what ties them together:

1. `RequestShape`, `JobShape`: what a request or job knows at each step.
2. `OneVersion`: an unlocked row has no second version.
3. `RowLocks`, `LocksKept`: who may hold a row lock, and that a writer keeps it until its transaction
   ends. So nobody else changes what it has written.
4. `WorkVersion`: what the uncommitted version is at each point where it may be committed: completed
   at "commit", failed at "record", pending or unchanged at a batch's commit. With 3 this gives
   `SettledRows` and half of `IngestIsAtomic`.
5. `BytesFirst`: a batch at its commit has saved its bytes. With 4, `PendingHasBytes`.
6. `DurableFirst`: what is about to be enqueued is committed, giving `JobsAreDurable`.
7. `OneNewDocument`: a pipeline past its document step has exactly one uncommitted document, and
   nobody else has any: the other half of `IngestIsAtomic`.

The proof has a lemma per conjunct and step; `InitInv` and `StepInv` combine them. What a step can
change (`RowChanges`, `WorkChanges`, `JobMove`, `RequestStays`) is stated once, also for `LibraryProofs`.

It goes on to prove, under the same assumptions:

| Theorem | Statement |
|---|---|
| `CalmInvariance`, `Scheduled` | `Spec => []CalmInv`, `[]PendingIsScheduled`, if `Calm`: `Faults` is empty and `"delete"` is no route |

Each fault, and a deletion, really breaks it: `unscheduled` is a failing pipeline and a retry, Redis
may be down, a stop interrupts the job, an abort cuts the enqueuing short. What is left is any number
of uploads, batches and deadlocks between them, jobs and the dropping of the collection. The queue is
the difficulty: `enqueue_job` silently does nothing for an id it knows. `CalmInv` says why it never has
to: a request only writes rows that are new (`NewRows`), no two batches come to enqueue the same
source, and no source that has had a job (`FirstJob`); a job finds its row pending and its file where
the row says, so it ends by completing it, and a cached result means COMPLETED (`JobsComplete`). A
deadlock's victim is never about to enqueue, since it must be waiting for a lock (`NoDeadlock`).

`LibraryProofs` proves, for all sets of contents, documents, filenames and batches,
all chunk numbers and limits, all routes and faults and every `MaxJobs`:

| Theorem | Statement |
|---|---|
| `ReaderInvariance`, `BrowseTyping`, `PreviewCounts` | `BrowseSpec => []ReaderInv`, `[]BrowseTypeOK`, `[]PreviewAddsUp` |
| `ProgressHolds` | `ProgressAdvances` |
| `LoneInvariance` | `BrowseSpec => []LoneInv`, if there is one client (`OneUser`) |
| `OwnFile`, `IndexMatches`, `ReadersMeet` | `[]PendingHasOwnFile`, `[]UnracedMatchesIndex`, `[]ReadersAgree`, likewise |
| `LibraryHolds` | `BrowseSpec => LibrarySpec`, likewise |
| `ListTellsTruth` | `ListSpec => []ListingHolds`, likewise |

Besides the assumptions of `IngestProofs`, `BrowseAssumption` says that the number of chunks and the
limits are positive, that `None` is neither a batch nor a document, and that there are finitely many
contents, for a batch's progress to be numbers.

The first four hold for any number of users. `ReaderInv` adds to `IInv` that chunks belong to live
documents in both versions of a row, that a document no transaction holds is only ever removed by one
that does, and what a preview knows: the document it counted in never gains chunks, because chunks are
written before the document is visible (`PreviewKnows`).

The others need one user, as the runs that expect a violation show. With one, what a request has read
of a source stays true until it is answered, except for what a job does. `LoneInv` says what that is:

1. `JobsOfPending`, `BootFirst`: a job that may still write finds its row PENDING and not deleted, and
   the worker starts none before it has read the pending rows. So a row that may be retried has no job at
   work, and `LoadedIsCurrent`: what a request has loaded is what it updates.
2. `Rewritten`: the uncommitted version of a row has the name its request stores the bytes by, and is not
   deleted; with `BytesFirst` this gives `PendingHasOwnFile`.
3. `Purged`, `PurgedIsOwn`: a retry holds every committed document of its source and of no other.
4. `DeletionKnows`: a deletion stamps all documents there are.
5. `Shelved`, `ListedIsLive`: what the tables then say of a source.

Every conjunct exempts `raced` sources where their leftover job could break it, and is proved
together with the rest. For the refinement, each commit is matched with a step of `Library`
(`RequestCommitStep`, `JobEndStep`, `DeletionEndStep`, `BeginDeletion`), every other step with a stutter.

For the list, `ListInv` says of a source that was not deleted since the list was begun that what the statements
so far have found of it is still so (`StillHolds`): a row stays listed, a COMPLETED one stays COMPLETED
(`CompletedStays`), a live document of it stays live and keeps its chunks (`FoundStays`). This holds because
what `Ingest` may do to a settled source of a lone user is to delete it, and then it is in `gone`.

`EvalProofs` proves, for all sets of clients, cases and runs and all faults:

| Theorem | Statement |
|---|---|
| `Invariance`, `Typing`, `Reports` | `Spec => []IInv`, `[]TypeOK`, `[]ReportMatchesResults` |
| `Rows`, `Kept` | `OneRowPerCase`, `ResultsAreKept` |
| `Counted` | `[]CountIsActive`, if there is one client at a time |
| `RunsAreHistory` | `Spec => LifeSpec`, if `"reply"` is not among the faults |

The assumptions are `CasesAssumption` (a dataset has finitely many cases, for its count to be a
number), `FaultsAssumption` and `NoneAssumption` (`None` is neither a run nor a summary).

That results are never overwritten rests on each run being executed at most once, which no line of
`run_evaluation` checks. It follows from the way a run reaches its job: `OneRequest` and
`RequestKnows` (only its creator knows a run, and queues it at most once), `AbsentIsBlank`, and
`JobFindsNoReport` (a job that may still complete has found no report). `RowsAreListed` adds that a
job's rows are for cases it selected. For the refinement, `Followed` says that without lost replies
the status is the one the run's request or job has last written; for the count, `CountFollows`
says that what a lone request has loaded is still there when it commits.

`SeedProofs` proves every property of the run `seed`, for all sets of users, strangers, requests,
seeders, files and contents:

| Theorem | Statement |
|---|---|
| `Typing`, `OneLibrary` | `SeedSpec => []SeedTypeOK`, `[]OneLibraryPerName` |
| `RealConflicts` | `ConflictIsReal` |
| `Documents`, `Mirror` | `[]OneDocument`, `[]SeedMirrorsTree` |
| `NoDeadlock` | `[]SeedersNeverDeadlock` |

The assumptions are `CollectionsAssumption` (users and strangers, requests and seeders are different
things, and `None` is none of them) and `SeedAssumption` (files are in the two libraries, at numbered
places; `None` is no content). The invariants say what open transactions hold:

1. `TableInv`: committed and inserted keys are apart (`KeysApart`), and a process has not inserted what
   it may still insert (`OwnInserts`). Without the second, a seeder might insert one library twice:
   `InsertBlockers` speaks of others only.
2. `ContentInv`: what a seeder has written is what the tree says (`WrittenIsTree`), and it sees the
   tree's contents in all files it has got through (`Progress`). Another seeder's commit cannot undo
   that, since what it writes is what the tree says too. This is where `Edit` must wait.
3. `LockInv`: no row is held by two seeders, what a seeder has written is behind it in the order of
   libraries and files (`OwnWrites`), and the content it is about to write is nobody else's
   (`Distinct`, `NoHolder`). So who makes a seeder wait is ahead of it (`WhoWaits`), which two seeders
   cannot be of each other. That includes the waits for the unique index on contents, which follow no
   order of their own: they never happen without a wait for the row itself.
4. `DocumentInv`: a seeder between its DELETE and its new document holds the row and has deleted what is
   committed of it, or knows what it will find (`Replaced`, `InHand`); so a commit leaves the one document
   it has added. `StatementOrder` is the only place where `Following` is used.

`AlgorithmProofs` proves every property of the run `algorithms`, for inputs of any length and for all
sizes, windows, distances, cutoffs, outcomes, weights, cases, scores and byte limits:

| Theorem | Statement: `Spec =>` | Why it holds |
|---|---|---|
| `Shape` | `[]InputShape` | an input is of one of the kinds, and of what that kind is made of |
| `ChunksAlwaysFit` | `[]EveryChunkFits` | `ChunksAreShort`: every text that `AddPiece` keeps has been measured, or is a piece that was |
| `TextsAlwaysCovered` | `[]EveryTextIsCovered` | `ChunksAreCovering`, see below |
| `CleaningAlwaysSettles` | `[]CleaningSettles` | `CleaningSettlesDown`: what is left is tidy (one page, no page number, no blank line next to another), a tidy text stays (`TidyStays`) but for its characters (`TidyIsNormalized`), and normalized ones stay too (`NormalStays`) |
| `BodyAlwaysSurvives` | `[]BodySurvives` | `CleaningKeepsBody`: each pass drops lines and keeps their order; what is dropped and still shows (`LinesShown`) is a number or a repeated margin |
| `MetricsTellTruth`, `LabelsTellTruth` | `[]MetricsTellOneStory`, `[]LabelFitsMetrics` | `RankedIsOrder`: the ranks are an order of what is visible; `IdealGainIsMost`: no ranking gains more than the ideal one |
| `SummariesTellTruth` | `[]SummariesAddUp` | `CountsAddUp`, `MeanIsBetween`, `PercentileIsNearest` |
| `VerdictsAlwaysFit` | `[]VerdictsFitSummaries` | a difference of weighted sums has the sign of a difference of some case (`SumsCompare`, `MeansMove`); the dataset's id overwrites what a request configures |
| `UploadsBounded` | `[]UploadsAreBounded` | `ReadCounts`: the buffer is the sum of the reads, cut off after the first that passes the limit |

The assumptions, all named, are on the configuration: `BudgetAssumption` (a size exceeds its overlap;
sizes and windows leave room for a token beside `[CLS]` and `[SEP]`), `RankingAssumption` (distances and
chunks are numbers, finitely many chunks may be expected, and `Gain` reaches as far as the cutoffs),
`GainAssumption` (gain falls with the rank), `OutcomesAssumption` (weights are whole numbers, of any sign; the
property claims the mean's bounds for weights that are not negative only), `ScoresAssumption` and
`BytesAssumption`. `CharactersAssumption` is a fact about Unicode: what zero-width and control characters
kept apart may compose, but a text that shows is not made empty or a page number by normalizing it again, and
that is stable and brings no invisible character back.

The algorithms are loops, so the proofs are inductions. The provers cannot instantiate the library's
induction theorems, which take an operator; `Induction` derives from the well-foundedness of the subsets
of a finite set a rule stated of *sets* (`SubsetInduction`): the set of the cases for which a claim
holds contains all of them. From it come least and greatest elements, that a sum does not depend on the
order of its summands (`SumIsFold`, `SumAdds`, `SumMoves`), and that a fold goes through a sequence of
states, each one step after the one before (`FoldPath`). For each loop of `Chunker` and `Cleaner` a lemma
(`CutsPath`, `HardPath`, `ChunksPath`, `PagesPath`, ...) says so, and a loop invariant is then proved along
that sequence (`Along`).

That a text is covered takes the longest argument. A glyph has a place, and what matters of a text is
where it has ink (`InkAt`): whitespace at the edges comes and goes with every `strip`.

1. `PiecesCut`: `SplitToLimit` leaves stripped, non-empty pieces in the text's order with exactly its ink.
   Splitting at a separator does (`PartsCut`), so does the hard split, because a glyph always fits
   (`GlyphHasFewTokens`) and the binary search finds it (`PrefixAdvances`); so do all of them together
   (`PiecesOfParts`). This is where the limit must exceed the special tokens.
2. `PiecesTile`: each piece is then a *stretch* of the text (`Spans`), from where the one before ended.
3. `JoinSpans`, `TailSpans`: joining two neighbouring stretches gives a stretch, and an overlap is a stretch
   up to the end of its chunk and within its tokens.
4. `Chained` is the loop's invariant: the first chunk begins with the text, and each next one is
   `Linked` to the one before: it begins at the latest where that ended, goes further, and what the two
   share is at its beginning and within the overlap (`Echoes`). `PieceHolds` is a turn of the loop. The
   last conjunct must be kept while more pieces are joined to a chunk (`LinkGrows`), so it speaks of the
   chunk before as it was when it was closed.
5. `ChainCovers`: a chain up to the text's end leaves nothing out, since what lies beyond a chunk is
   in the next one that reaches as far.

Model-checked only: the liveness properties `AcceptedCompletes`, `QueuedSettles`, `RequestsEnd` and
`RunsEnd` (fairness and ENABLED are outside the prover's reach). Every other property of a passing run
is stated by a theorem.

## Plan

1. **Done**: the knowledge base's ingestion core and its proofs.
2. **Done**: evaluation runs and datasets, the abstract run they implement, and the proofs.
3. **Done**: readers of the library and batch progress (`Browse`); collections and seeding, with proofs
   (`Collections`, `PublicSeed`, `SeedProofs`); the algorithms (`Chunker`, `Cleaner`, `EvalMetrics`, `Intake`).
4. **Done**: the abstract `Library`, that `Browse` with one user implements it, and proofs of every
   property of `Browse` and of `PendingIsScheduled`.
5. **Done**: `Algorithms` as a specification, and proofs of all its properties.
6. Left: seeders from two different checkouts.

## What is not modelled

* **The knowledge-base page.** It shows what the last response brought, and nothing in its code or
  the docs speaks of their order, so there is no promise to check.
* **Parsers and the encoder.** Third-party code behind small adapters; that they fail at any point is in
  `Ingest` (`PipelineFail`). Which suffix has a parser is in `Intake`, counting tokens in `Chunker`; the
  cache of encoders and the choice of a device are not modelled.
* **The wording of generated cases** and its validation, authorization, and titles, texts and metadata
  wherever no property is about them.
* **Middleware, logging, health probes, migrations, `build_indexes.py` and the mock-backed pages**:
  reads, one-shot commands, or views over fixtures.
