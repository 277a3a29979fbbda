------------------------------- MODULE Browse -------------------------------
(***************************************************************************)
(* What the knowledge-base page reads while Ingest works: the library's    *)
(* counts, the search, a batch's progress and a source's preview.          *)
(*                                                                         *)
(* A count, a search and a batch's progress are one SELECT each, so each   *)
(* is an operator on the committed tables; a response that holds several   *)
(* counts takes each from a snapshot of its own.  A preview is four        *)
(* statements, so it is a process: the reader.  (The list of sources is    *)
(* another, in Listing.)  Ingest is extended by sources.batch_id, which    *)
(* the batch route writes.                                                 *)
(***************************************************************************)
EXTENDS Ingest

CONSTANTS
  Batches,     \* identities for ingest_batches rows
  ChunkTotal,  \* the chunks of a document that has any
  ChunkLimits  \* the chunk_limit values of preview requests

ASSUME BrowseAssumption ==
  /\ ChunkTotal \in Nat \ {0} /\ ChunkLimits \subseteq Nat \ {0}
  /\ None \notin Batches \cup Docs
  /\ IsFiniteSet(Sources)

VARIABLES
  batchOf, \* sources.batch_id, the committed version
  preview, \* the preview request in flight
  raced    \* history: sources whose deletion began before they were settled

browseVars == <<vars, batchOf, preview, raced>>

NoPreview == [step |-> "idle", of |-> None, document |-> None, count |-> 0, shown |-> 0]

\* The type of what the reads add to the ingest's state (LibraryProofs,
\* BrowseTyping).
BrowseTypeOK ==
  /\ batchOf \in [Sources -> Batches \cup {None}]
  /\ preview \in [step : {"idle", "document", "count", "chunks", "answer"},
                  of : Sources \cup {None}, document : Docs \cup {None},
                  count : {0, ChunkTotal}, shown : 0..ChunkTotal]
  /\ raced \subseteq Sources

BrowseInit ==
  /\ Init
  /\ batchOf = [s \in Sources |-> None]
  /\ preview = NoPreview
  /\ raced = {}

-----------------------------------------------------------------------------
(* One-statement reads.                                                    *)

\* The sources that are not deleted: the filter of every query about sources.
Listed == {s \in Sources : Exists(s) /\ ~row[s].deleted}

\* The count statements of list_collections join documents and their chunks to
\* those sources and do not ask whether the document is deleted: the documents
\* counted, and those of them whose chunks are.
Counted == UNION {DocsOf(s) : s \in Listed}
CountedByChunk == {d \in Counted : docs[d].chunks}

\* search_chunks: chunks of live documents of sources that are not deleted.
Found == {d \in Docs : docs[d].chunks /\ docs[d].state = "live" /\ docs[d].of \in Listed}

\* LocalUploadStorage.find for the row's own filename; nothing removes a file.
Downloadable(s) == <<s, row[s].name>> \in files

\* get_batch_progress: the batch's sources by status, deleted ones included.
InBatch(b, statuses) == Cardinality({s \in Sources : batchOf[s] = b /\ row[s].status \in statuses})
Progress(b) ==
  [total |-> InBatch(b, IngestStatus),
   settled |-> InBatch(b, {"completed", "failed"}),
   inProgress |-> InBatch(b, {"parsing", "chunking", "embedding"})]

-----------------------------------------------------------------------------
(* GET /sources/{id}/preview.                                              *)

\* The answer, of which only the numbers matter.
Answer(count, shown) == [NoPreview EXCEPT !.step = "answer", !.count = count, !.shown = shown]

\* _visible_source.
PreviewSource ==
  /\ preview.step = "idle"
  /\ \E s \in Listed : preview' = [NoPreview EXCEPT !.step = "document", !.of = s]

\* The newest live document; without one the answer has no text and no chunks.
PreviewDocument ==
  /\ preview.step = "document"
  /\ \/ /\ LiveDocs(preview.of) = {}
        /\ preview' = Answer(0, 0)
     \/ \E d \in LiveDocs(preview.of) :
          preview' = [preview EXCEPT !.step = "count", !.document = d]

\* How many chunks document d has at this instant.
ChunksOf(d) == IF docs[d].chunks THEN ChunkTotal ELSE 0

PreviewCount ==
  /\ preview.step = "count"
  /\ preview' = [preview EXCEPT !.step = "chunks", !.count = ChunksOf(preview.document)]

\* MUTANT of PreviewChunks: the rows are selected by source, not by document.
PreviewChunksOfSource ==
  /\ preview.step = "chunks"
  /\ \E d \in DocsOf(preview.of) :
       preview' = Answer(preview.count, ChunksOf(d))

\* The rows are fewer than the limit when there are no more.
PreviewChunks ==
  /\ preview.step = "chunks"
  /\ \E limit \in ChunkLimits :
       preview' = Answer(preview.count, IF ChunksOf(preview.document) < limit
                                        THEN ChunksOf(preview.document) ELSE limit)

PreviewAnswer == preview.step = "answer" /\ preview' = NoPreview

PreviewStep ==
  \/ PreviewSource \/ PreviewDocument \/ PreviewCount \/ PreviewChunks \/ PreviewAnswer

-----------------------------------------------------------------------------
(* Ingest with the columns and the reader it does not know.                *)

\* Client c's batch is being committed.
Committing(c) == pc[c] = "publish" /\ pc'[c] = "enqueue"

\* MUTANT of AssignBatch: a retried source stays in its first batch.
AssignFirstBatch ==
  \E b \in Batches \ {batchOf[s] : s \in Sources} :
    batchOf' = [s \in Sources |->
      IF ~Exists(s)' THEN None
      ELSE IF batchOf[s] = None /\ \E c \in Clients : Committing(c) /\ s \in batch[c] THEN b
      ELSE batchOf[s]]

\* create_pending_batch gives every source of the batch its new id; an id no
\* source refers to any more stands for the next request's.
AssignBatch ==
  \E b \in Batches \ {batchOf[s] : s \in Sources} :
    batchOf' = [s \in Sources |->
      IF ~Exists(s)' THEN None
      ELSE IF \E c \in Clients : Committing(c) /\ s \in batch[c] THEN b
      ELSE batchOf[s]]

\* A bound of the model: the identity of a document a preview refers to is not
\* given to a new document.
KeepsIdentity ==
  LET d == preview.document IN
  d # None /\ docWork[d].state = "absent" => docWork'[d].state = "absent"

\* Source s has a job, or will have one when the worker starts.
Unsettled(s) == job[s] # "none" \/ row[s].status = "pending"

\* Client c begins to delete source s.
Deleting(c, s) == pc[c] = "idle" /\ pc'[c] = "delete" /\ at'[c] = s

IngestStep ==
  /\ Next
  /\ IF \E c \in Clients : Committing(c) THEN AssignBatch
     ELSE batchOf' = [s \in Sources |-> IF Exists(s)' THEN batchOf[s] ELSE None]
  /\ KeepsIdentity
  /\ raced' = raced \cup {s \in Sources : Unsettled(s) /\ \E c \in Clients : Deleting(c, s)}
  /\ UNCHANGED preview

BrowseNext ==
  \/ IngestStep
  \/ PreviewStep /\ UNCHANGED <<vars, batchOf, raced>>

BrowseSpec == BrowseInit /\ [][BrowseNext]_browseVars

-----------------------------------------------------------------------------
(* Properties of one user's library.                                       *)

\* What the rows say and what search can reach agree: a visible COMPLETED
\* source has its one live document, any other row has none, and chunks belong to
\* live documents only.  A source deleted before it was settled is exempt: its
\* job goes on to add a document, or to fail a row that was uploaded again.
UnracedMatchesIndex ==
  /\ \A s \in Sources \ raced :
       Cardinality(LiveDocs(s)) =
         IF row[s].status = "completed" /\ ~row[s].deleted THEN 1 ELSE 0
  /\ \A d \in Docs : docs[d].chunks => docs[d].state = "live"

\* What the library promises its only user, whatever fails: see Library.
shelfNow == [s \in Sources |->
  IF s \in raced THEN "raced" ELSE IF row[s].deleted THEN "deleted" ELSE row[s].status]
indexNow == [s \in Sources |-> IF s \in raced THEN {} ELSE LiveDocs(s)]
Shelves == INSTANCE Library WITH open <- collection, shelf <- shelfNow, index <- indexNow
LibrarySpec == Shelves!LibrarySpec

\* The count statements find documents through their sources alone, and
\* _count_documents_by_collection says that it counts the "non-deleted" ones: in
\* every snapshot a statement can have, those are the live ones, and the chunks
\* counted are the ones a search can reach, whatever was deleted or retried.
ReadersAgree ==
  /\ \A d \in Counted : docs[d].state = "live"
  /\ CountedByChunk = Found

\* A preview never shows a chunk it did not count, whatever is deleted, purged or
\* ingested between the two statements.
PreviewAddsUp == preview.step = "answer" => preview.shown <= preview.count

\* A PENDING row's own filename leads to its bytes: a user who sends one request
\* at a time never leaves a job looking for a file stored under another name.
PendingHasOwnFile == \A s \in Sources : row[s].status = "pending" => Downloadable(s)

\* A batch's progress only ever goes back by losing a source to a later batch or
\* to the deletion of the collection, and never shows a source half-way.
ProgressAdvances ==
  [][\A b \in Batches :
       /\ Progress(b).inProgress = 0
       /\ Progress(b)'.settled < Progress(b).settled
            => Progress(b)'.total < Progress(b).total]_browseVars
=============================================================================
