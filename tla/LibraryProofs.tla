--------------------------- MODULE LibraryProofs ---------------------------
(***************************************************************************)
(* What readers are promised while Ingest works: for any number of users   *)
(* from ReaderInv, and for one user from LoneInv.  And what the library    *)
(* promises its only user: Browse implements Library.                      *)
(***************************************************************************)
EXTENDS BrowseInv, Listing, IngestProofs, FiniteSetTheorems

(***************************************************************************)
(* Browse takes the steps of Ingest.                                       *)
(***************************************************************************)
\* Every step of Browse is a step of Ingest or leaves its variables alone.
LEMMA IngestUnderneath ==
  ASSUME [BrowseNext]_browseVars
  PROVE  [Next]_vars
BY DEF BrowseNext, IngestStep, browseVars

\* So what holds of Ingest holds here.
LEMMA IngestHolds ==
  ASSUME IInv, [BrowseNext]_browseVars
  PROVE  IInv'
BY IngestUnderneath, StepInv

(***************************************************************************)
(* What a step can do to a document.                                       *)
(***************************************************************************)
\* What a soft deletion makes of a document.
Stamped(r) == [r EXCEPT !.state = "deleted", !.chunks = FALSE]

\* The versions of document d before and after a step: nothing happens to it, its
\* transaction rolls back, or commits, a retry removes it, a pipeline writes it, a
\* deletion stamps it, or the collection is dropped.
DocumentMove(d) ==
  \/ docs'[d] = docs[d] /\ docWork'[d] = docWork[d]
  \/ docs'[d] = docs[d] /\ docWork'[d] = docs[d]
  \/ docs'[d] = docWork[d] /\ docWork'[d] = docWork[d]
  \/ docs'[d] = docs[d] /\ docs[d].state # "absent" /\ docWork'[d] = NoDocument
  \/ docs'[d] = docs[d] /\ docs[d].state = "absent" /\ docWork'[d].state = "live"
  \/ docs[d].state # "absent" /\ docs'[d] = Stamped(docs[d]) /\ docWork'[d] = Stamped(docs[d])
  \/ docs'[d] = NoDocument /\ docWork'[d] = NoDocument

\* Every step makes one of these moves with each document.
LEMMA DocumentMoves ==
  ASSUME IInv, [Next]_vars, NEW d \in Docs
  PROVE  DocumentMove(d)
<1> USE DEF IInv, TypeOK, TablesTypeOK, DocumentMove
<1>0. ASSUME UNCHANGED documentRows PROVE DocumentMove(d)
  BY <1>0 DEF documentRows
<1>1. ASSUME NEW P, Rollback(P) PROVE DocumentMove(d)
  BY <1>1 DEF Rollback
<1>2. ASSUME NEW p, Commit(p) PROVE DocumentMove(d)
  BY <1>2 DEF Commit
<1> HIDE DEF DocumentMove
<1>3. ASSUME NEW c \in Clients, ClientStep(c) PROVE DocumentMove(d)
  <2>1. CASE PurgeDelete(c)
    BY <2>1 DEF PurgeDelete, WriteDocs, DocumentMove
  <2>2. CASE DeleteCommit(c)
    <3>1. CASE UNCHANGED tables
      BY <1>0, <3>1 DEF tables
    <3>2. CASE ~UNCHANGED tables
      <4>1. /\ SoftDelete(tgt[c])
            /\ \A e \in tgt[c] : docLock[e] = None /\ docs[e].state # "absent"
        BY <2>2, <3>2 DEF DeleteCommit, DocsUnlocked
      <4>2. /\ docs'[d] = IF d \in tgt[c] THEN Stamped(docs[d]) ELSE docs[d]
            /\ docWork'[d] = IF d \in tgt[c] THEN Stamped(docWork[d]) ELSE docWork[d]
        BY <4>1 DEF SoftDelete, Stamped
      <4>3. d \in tgt[c] => docWork[d] = docs[d]
        BY <4>1 DEF OneVersion
      <4> QED BY <4>1, <4>2, <4>3 DEF DocumentMove
    <3> QED BY <3>1, <3>2
  <2>3. CASE DropCollection(c)
    BY <2>3 DEF DropCollection, DocumentMove
  <2>4. (UNCHANGED documentRows \/ (\E P : Rollback(P)) \/ \E p : Commit(p)) => DocumentMove(d)
    BY <1>0, <1>1, <1>2
  <2> QED BY <1>3, <2>1, <2>2, <2>3, <2>4
        DEF ClientStep, SyncFind, Insert, Purge, Reset, SyncCommit, StoreBytes, BatchBegin,
            BatchFind, BatchReject, SaveOne, SaveFail, BatchCommit, EnqueueOne, RedisDown,
            DeleteFind, Abort, Reject, tables
<1>4. ASSUME NEW s \in Sources, JobStep(s) PROVE DocumentMove(d)
  <2>1. (UNCHANGED documentRows \/ (\E P : Rollback(P)) \/ \E p : Commit(p)) => DocumentMove(d)
    BY <1>0, <1>1, <1>2
  <2> QED BY <1>4, <2>1
        DEF JobStep, JobStart, JobFetch, JobFail, JobCommit, JobFinish, JobTimeout, JobRefused,
            ExpireResult, RecoverOne, tables
<1>5. ASSUME NEW p \in Procs, PipelineStep(p) PROVE DocumentMove(d)
  <2>1. CASE AddDocument(p)
    BY <2>1 DEF AddDocument, WriteDocs, FreshDocs, DocumentMove
  <2>2. CASE InsertChunks(p)
    BY <2>2 DEF InsertChunks, WriteDocs, NewDocs, DocumentMove
  <2>3. CASE PipelineFail(p)
    <3>1. CASE DropNewDocs(p)
      BY <3>1 DEF DropNewDocs, DocumentMove
    <3>2. CASE Rollback({p})
      BY <1>1, <3>2
    <3> QED BY <2>3, <3>1, <3>2 DEF PipelineFail
  <2>4. CASE Parse(p) \/ ChunkEmpty(p) \/ Chunk(p)
    BY <1>0, <2>4 DEF Parse, ChunkEmpty, Chunk
  <2> QED BY <1>5, <2>1, <2>2, <2>3, <2>4 DEF PipelineStep
<1>6. CASE WorkerStop \/ WorkerBoot \/ WorkerReady \/ UNCHANGED vars
  BY <1>0, <1>1, <1>6 DEF WorkerStop, WorkerBoot, WorkerReady, vars, tables
<1> QED BY <1>3, <1>4, <1>5, <1>6 DEF Next

\* A document that a pipeline is writing is live.
LEMMA NewIsLive ==
  ASSUME IInv, ChunksAreLive, RemovedAtMost, [Next]_vars
  PROVE  ChunksAreLive' /\ RemovedAtMost'
<1> SUFFICES ASSUME NEW d \in Docs
             PROVE  /\ docs'[d].chunks => docs'[d].state = "live"
                    /\ docWork'[d].chunks => docWork'[d].state = "live"
                    /\ docs'[d].state # "absent" => docWork'[d] \in {docs'[d], NoDocument}
  BY DEF ChunksAreLive, RemovedAtMost
<1>1. DocumentMove(d)
  BY DocumentMoves
<1>2. docs[d] \in Document /\ docWork[d] \in Document
  BY DEF IInv, TypeOK, TablesTypeOK
<1>3. \A r \in Document : Stamped(r).state = "deleted" /\ ~Stamped(r).chunks
  BY DEF Stamped, Document
<1> QED BY <1>1, <1>2, <1>3 DEF DocumentMove, ChunksAreLive, RemovedAtMost, NoDocument

(***************************************************************************)
(* Any number of users.                                                    *)
(***************************************************************************)
\* The columns and the reader that Browse adds keep their types.
LEMMA BrowseTyped ==
  ASSUME BrowseTypeOK, PreviewKnows, TypeOK, [BrowseNext]_browseVars
  PROVE  BrowseTypeOK'
<1> USE BrowseAssumption DEF BrowseTypeOK
<1>1. CASE IngestStep
  <2>1. batchOf' \in [Sources -> Batches \cup {None}]
    BY <1>1 DEF IngestStep, AssignBatch
  <2>2. raced' \subseteq Sources /\ preview' = preview
    BY <1>1 DEF IngestStep
  <2> QED BY <2>1, <2>2
<1>2. CASE PreviewStep /\ UNCHANGED <<vars, batchOf, raced>>
  <2> DEFINE Counts == {0, ChunkTotal}
             Shown == 0..ChunkTotal
             Steps == {"idle", "document", "count", "chunks", "answer"}
             Shapes == [step : Steps, of : Sources \cup {None}, document : Docs \cup {None},
                        count : Counts, shown : Shown]
  <2>1. 0 \in Counts /\ 0 \in Shown /\ \A d : ChunksOf(d) \in Counts /\ ChunksOf(d) \in Shown
    BY DEF ChunksOf
  <2>2. preview \in Shapes
    OBVIOUS
  <2>3. \A d : \A limit \in ChunkLimits :
          (IF ChunksOf(d) < limit THEN ChunksOf(d) ELSE limit) \in Shown
    BY <2>1
  <2> HIDE DEF Counts, Shown
  <2>4. \A count \in Counts, shown \in Shown : Answer(count, shown) \in Shapes
    BY <2>1 DEF Answer, NoPreview
  <2> SUFFICES preview' \in Shapes
    BY <1>2 DEF Counts, Shown
  <2>5. CASE PreviewSource
    <3>1. PICK s \in Sources : preview' = [NoPreview EXCEPT !.step = "document", !.of = s]
      BY <2>5 DEF PreviewSource, Listed
    <3> QED BY <2>1, <3>1 DEF NoPreview
  <2>6. CASE PreviewDocument
    <3>1. CASE preview' = Answer(0, 0)
      BY <2>1, <2>4, <3>1
    <3>2. CASE \E d \in Docs : preview' = [preview EXCEPT !.step = "count", !.document = d]
      BY <2>2, <3>2
    <3> QED BY <2>6, <3>1, <3>2 DEF PreviewDocument, LiveDocs, DocsOf
  <2>7. CASE PreviewCount
    BY <2>1, <2>2, <2>7 DEF PreviewCount
  <2>8. CASE PreviewChunks
    <3>1. PICK limit \in ChunkLimits :
            preview' = Answer(preview.count, IF ChunksOf(preview.document) < limit
                                             THEN ChunksOf(preview.document) ELSE limit)
      BY <2>8 DEF PreviewChunks
    <3>2. preview.count \in Counts
      BY <2>2
    <3> QED BY <2>3, <2>4, <3>1, <3>2
  <2>9. CASE PreviewAnswer
    BY <2>1, <2>9 DEF PreviewAnswer, NoPreview
  <2> QED BY <1>2, <2>5, <2>6, <2>7, <2>8, <2>9 DEF PreviewStep
<1>3. CASE UNCHANGED browseVars
  BY <1>3 DEF browseVars
<1> QED BY <1>1, <1>2, <1>3 DEF BrowseNext

\* A document that a preview refers to never gains chunks: a pipeline only gives chunks
\* to the document it is adding, and KeepsIdentity keeps that one apart.
LEMMA PreviewStays ==
  ASSUME IInv, BrowseTypeOK, ChunksAreLive, RemovedAtMost, PreviewKnows, [BrowseNext]_browseVars
  PROVE  PreviewKnows'
<1> USE BrowseAssumption DEF PreviewKnows
<1>1. CASE IngestStep
  <2>1. preview' = preview /\ KeepsIdentity
    BY <1>1 DEF IngestStep
  <2>2. ASSUME preview.step \in {"count", "chunks"}
        PROVE  LET d == preview.document IN
               /\ docs'[d].state = "absent" => docWork'[d].state = "absent"
               /\ docs'[d].chunks => docs[d].chunks
    <3> DEFINE d == preview.document
    <3>0. d \in Docs /\ d # None => DocumentMove(d)
      BY <1>1, DocumentMoves DEF IngestStep
    <3>1. d \in Docs /\ (docs[d].state = "absent" => docWork[d].state = "absent")
      BY <2>2
    <3>2. d # None => (docWork[d].state = "absent" => docWork'[d].state = "absent")
      BY <2>1 DEF KeepsIdentity
    <3>3. docs[d] \in Document /\ docWork[d] \in Document
      BY <3>1 DEF IInv, TypeOK, TablesTypeOK
    <3>4. \A r \in Document : Stamped(r).state = "deleted" /\ ~Stamped(r).chunks
      BY DEF Stamped, Document
    <3>5. d # None /\ docs[d].state # "absent" => docWork[d] \in {docs[d], NoDocument}
      BY <3>1 DEF RemovedAtMost
    <3> HIDE DEF d
    <3> QED BY <3>0, <3>1, <3>2, <3>3, <3>4, <3>5
          DEF DocumentMove, d, ChunksAreLive, NoDocument
  <2> QED BY <2>1, <2>2
<1>2. CASE PreviewStep /\ UNCHANGED <<vars, batchOf, raced>>
  <2>0. UNCHANGED <<docs, docWork>>
    BY <1>2 DEF vars, tables, documentRows
  <2>1. CASE PreviewSource
    BY <2>0, <2>1 DEF PreviewSource, NoPreview, Listed
  <2>2. CASE PreviewDocument
    <3>1. CASE preview' = Answer(0, 0)
      BY <3>1 DEF Answer, NoPreview
    <3>2. CASE \E d \in LiveDocs(preview.of) :
                 preview' = [preview EXCEPT !.step = "count", !.document = d]
      <4>1. PICK d \in LiveDocs(preview.of) :
                 preview' = [preview EXCEPT !.step = "count", !.document = d]
        BY <3>2
      <4>2. d \in Docs /\ docs[d].state = "live"
        BY <4>1 DEF LiveDocs, DocsOf
      <4>3. preview'.step = "count" /\ preview'.of = preview.of /\ preview'.document = d
        BY <4>1 DEF BrowseTypeOK
      <4> QED BY <2>0, <2>2, <4>2, <4>3 DEF PreviewDocument
    <3> QED BY <2>2, <3>1, <3>2 DEF PreviewDocument
  <2>3. CASE PreviewCount
    <3>1. /\ preview'.step = "chunks" /\ preview'.of = preview.of
          /\ preview'.document = preview.document
          /\ preview'.count = ChunksOf(preview.document)
      BY <2>3 DEF PreviewCount, BrowseTypeOK
    <3> QED BY <2>0, <2>3, <3>1 DEF PreviewCount, ChunksOf
  <2>4. CASE PreviewChunks
    <3>1. PICK limit \in ChunkLimits :
            preview' = Answer(preview.count, IF ChunksOf(preview.document) < limit
                                             THEN ChunksOf(preview.document) ELSE limit)
      BY <2>4 DEF PreviewChunks
    <3>2. preview'.step = "answer" /\ preview'.count = preview.count
      BY <3>1 DEF Answer, NoPreview
    <3>3. preview'.shown \in 0..ChunksOf(preview.document)
      BY <3>1 DEF Answer, NoPreview, ChunksOf
    <3>4. preview.count = ChunkTotal \/ preview.count = 0
      BY DEF BrowseTypeOK
    <3>5. preview'.shown <= preview.count
      BY <2>4, <3>3, <3>4 DEF PreviewChunks, ChunksOf
    <3> QED BY <3>2, <3>5
  <2>5. CASE PreviewAnswer
    BY <2>5 DEF PreviewAnswer, NoPreview
  <2> QED BY <1>2, <2>1, <2>2, <2>3, <2>4, <2>5 DEF PreviewStep
<1>3. CASE UNCHANGED browseVars
  BY <1>3 DEF browseVars, vars, tables, documentRows
<1> QED BY <1>1, <1>2, <1>3 DEF BrowseNext

\* ReaderInv is inductive.
LEMMA ReaderInit == BrowseInit => ReaderInv
<1> SUFFICES ASSUME BrowseInit PROVE ReaderInv
  OBVIOUS
<1> USE BrowseAssumption DEF BrowseInit
<1>1. IInv
  BY InitInv
<1>2. BrowseTypeOK
  BY DEF BrowseTypeOK, NoPreview
<1>3. ChunksAreLive /\ RemovedAtMost /\ PreviewKnows /\ DroppedIsEmpty
  BY DEF Init, TablesInit, ChunksAreLive, RemovedAtMost, PreviewKnows, DroppedIsEmpty, NoDocument,
         NoPreview
<1> QED BY <1>1, <1>2, <1>3 DEF ReaderInv

LEMMA ReaderStep == ReaderInv /\ [BrowseNext]_browseVars => ReaderInv'
BY IngestHolds, IngestUnderneath, BrowseTyped, NewIsLive, PreviewStays, DroppedStep
   DEF ReaderInv, IInv

THEOREM ReaderInvariance == BrowseSpec => []ReaderInv
BY ReaderInit, ReaderStep, PTL DEF BrowseSpec

\* Rows, columns, queue and reader keep their types for any number of users.
THEOREM BrowseTyping == BrowseSpec => []BrowseTypeOK
BY ReaderInvariance, PTL DEF ReaderInv

\* A preview never shows more chunks than it counted (the two statements of
\* get_source_preview are not one snapshot).
THEOREM PreviewCounts == BrowseSpec => []PreviewAddsUp
<1>1. ReaderInv => PreviewAddsUp
  BY DEF ReaderInv, PreviewKnows, PreviewAddsUp
<1> QED BY <1>1, ReaderInvariance, PTL
\* What becomes of a source that a batch's progress counts as settled.
LEMMA ProgressMove ==
  ASSUME ReaderInv, IngestStep, NEW b \in Batches, NEW s \in Sources, batchOf[s] = b
  PROVE  /\ \A t \in Sources : batchOf'[t] = b => batchOf[t] = b
         /\ row[s].status \in {"completed", "failed"} =>
              row'[s].status \in {"completed", "failed"} \/ batchOf'[s] # b
<1> USE BrowseAssumption
<1>1. [Next]_vars /\ Next
  BY DEF IngestStep
<1>2. \A t \in Sources : batchOf'[t] = b => batchOf[t] = b
  BY DEF IngestStep, AssignBatch
<1>3. CASE row'[s].status = "pending" /\ \E c \in Clients :
             s \in batch[c] /\ pc[c] = "publish" /\ pc'[c] = "enqueue"
  BY <1>2, <1>3 DEF IngestStep, AssignBatch, Committing
<1>4. CASE row'[s].status = "absent"
  <2>1. batchOf'[s] = None
    BY <1>4 DEF IngestStep, AssignBatch, Exists
  <2> QED BY <1>2, <2>1
<1> QED BY <1>1, <1>2, <1>3, <1>4, RowStatusStep DEF ReaderInv, IInv

\* Each batch's settled count falls only with its total, whatever fails.
THEOREM ProgressHolds == BrowseSpec => ProgressAdvances
<1> DEFINE Members(b) == {s \in Sources : batchOf[s] = b /\ row[s].status \in IngestStatus}
           Done(b) == {s \in Sources : batchOf[s] = b /\ row[s].status \in {"completed", "failed"}}
<1>0. \A b : Progress(b).total = Cardinality(Members(b)) /\ Progress(b).settled = Cardinality(Done(b))
  BY DEF Progress, InBatch
<1>1. \A b : Progress(b)'.total = Cardinality(Members(b)') /\ Progress(b)'.settled = Cardinality(Done(b)')
  BY DEF Progress, InBatch
<1>2. ASSUME ReaderInv, NEW b \in Batches PROVE Progress(b).inProgress = 0
  <2>1. {s \in Sources : batchOf[s] = b /\ row[s].status \in {"parsing", "chunking", "embedding"}} = {}
    BY <1>2 DEF ReaderInv, IInv, SettledRows, Settled
  <2> QED BY <2>1, FS_EmptySet DEF Progress, InBatch
<1>3. ASSUME ReaderInv, ReaderInv', [BrowseNext]_browseVars, NEW b \in Batches,
             Progress(b)'.settled < Progress(b).settled
      PROVE  Progress(b)'.total < Progress(b).total
  <2>1. \A s \in Sources : row[s].status \in IngestStatus /\ row'[s].status \in IngestStatus
    BY <1>3 DEF ReaderInv, IInv, TypeOK, TablesTypeOK, Source
  <2>2. /\ IsFiniteSet(Members(b)) /\ IsFiniteSet(Members(b)')
        /\ IsFiniteSet(Done(b)) /\ IsFiniteSet(Done(b)')
    BY BrowseAssumption, FS_Subset
  <2>3. Cardinality(Done(b)) \in Nat /\ Cardinality(Done(b)') \in Nat
    BY <2>2, FS_CardinalityType
  <2>4. Cardinality(Done(b)') < Cardinality(Done(b))
    BY <1>0, <1>1, <1>3
  <2>5. PICK s \in Done(b) : s \notin Done(b)'
    <3>1. Done(b) \in SUBSET (Done(b)') => Cardinality(Done(b)) <= Cardinality(Done(b)')
      BY <2>2, FS_Subset
    <3> QED BY <2>3, <2>4, <3>1
  <2>6. IngestStep
    BY <1>3, <2>5 DEF BrowseNext, browseVars, vars, tables, sourceRows
  <2>7. Members(b)' \subseteq Members(b) /\ s \in Members(b) /\ s \notin Members(b)'
    BY <1>3, <2>1, <2>5, <2>6, ProgressMove
  <2>8. Cardinality(Members(b)') <= Cardinality(Members(b)) /\ Cardinality(Members(b)') # Cardinality(Members(b))
    BY <2>2, <2>7, FS_Subset
  <2>9. Cardinality(Members(b)) \in Nat /\ Cardinality(Members(b)') \in Nat
    BY <2>2, FS_CardinalityType
  <2>10. Cardinality(Members(b)') < Cardinality(Members(b))
    BY <2>8, <2>9
  <2> QED BY <1>0, <1>1, <2>10
<1>4. ReaderInv /\ ReaderInv' /\ [BrowseNext]_browseVars =>
        [\A b \in Batches :
           /\ Progress(b).inProgress = 0
           /\ Progress(b)'.settled < Progress(b).settled
                => Progress(b)'.total < Progress(b).total]_browseVars
  BY <1>2, <1>3
<1> QED BY <1>4, ReaderInvariance, PTL DEF BrowseSpec, ProgressAdvances

-----------------------------------------------------------------------------
(***************************************************************************)
(* Which steps change what.                                                *)
(***************************************************************************)
\* The steps that change the committed version of document d.
DocChange(d) ==
  \/ \E p \in Procs : /\ docLock[d] = p /\ docs'[d] = docWork[d]
                      /\ \/ p \in Clients /\ (SyncCommit(p) \/ BatchCommit(p))
                         \/ p \in Sources /\ JobCommit(p)
  \/ \E c \in Clients : /\ DeleteCommit(c) /\ d \in tgt[c] /\ docLock[d] = None
                        /\ docs[d].state # "absent" /\ docs'[d] = Stamped(docs[d])
                        /\ lock[at[c]] = None /\ Exists(at[c])
                        /\ row' = [row EXCEPT ![at[c]] = [row[at[c]] EXCEPT !.deleted = TRUE]]
  \/ \E c \in Clients : DropCollection(c)

LEMMA DocChanges ==
  ASSUME IInv, [Next]_vars, NEW d \in Docs
  PROVE  docs'[d] = docs[d] \/ DocChange(d)
<1> USE ProcsAssumption DEF IInv, TypeOK, TablesTypeOK, Procs
<1>1. ASSUME NEW c \in Clients, ClientStep(c) PROVE docs'[d] = docs[d] \/ DocChange(d)
  <2>1. CASE SyncCommit(c) \/ BatchCommit(c)
    BY <2>1 DEF SyncCommit, BatchCommit, Commit, DocChange
  <2>2. CASE DeleteCommit(c)
    <3>1. CASE UNCHANGED tables
      BY <3>1 DEF tables, documentRows
    <3>2. CASE ~UNCHANGED tables
      <4>1. /\ SoftDelete(tgt[c]) /\ WriteThrough(at[c], [row[at[c]] EXCEPT !.deleted = TRUE])
            /\ \A e \in tgt[c] : docLock[e] = None /\ docs[e].state # "absent"
            /\ lock[at[c]] = None /\ Exists(at[c])
        BY <2>2, <3>2 DEF DeleteCommit, DocsUnlocked, Unlocked
      <4>2. docs'[d] = IF d \in tgt[c] THEN Stamped(docs[d]) ELSE docs[d]
        BY <4>1 DEF SoftDelete, Stamped
      <4>3. row' = [row EXCEPT ![at[c]] = [row[at[c]] EXCEPT !.deleted = TRUE]]
        BY <4>1 DEF WriteThrough
      <4> QED BY <2>2, <4>1, <4>2, <4>3 DEF DocChange
    <3> QED BY <3>1, <3>2
  <2>3. CASE DropCollection(c)
    BY <2>3 DEF DocChange
  <2> QED BY <1>1, <2>1, <2>2, <2>3
        DEF ClientStep, SyncFind, Insert, Purge, PurgeDelete, WriteDocs, Reset, Reject, Rollback,
            StoreBytes, BatchBegin, BatchFind, BatchReject, SaveOne, SaveFail, EnqueueOne,
            RedisDown, DeleteFind, Abort, tables, documentRows
<1>2. ASSUME NEW t \in Sources, JobStep(t) PROVE docs'[d] = docs[d] \/ DocChange(d)
  <2>1. CASE JobCommit(t)
    BY <2>1 DEF JobCommit, Commit, DocChange
  <2> QED BY <1>2, <2>1
        DEF JobStep, JobStart, JobFetch, JobFail, JobFinish, JobTimeout, JobRefused, ExpireResult,
            RecoverOne, Rollback, tables, documentRows
<1>3. ASSUME NEW p \in Procs, PipelineStep(p) PROVE docs' = docs
  BY <1>3 DEF PipelineStep, Parse, AddDocument, ChunkEmpty, Chunk, InsertChunks, PipelineFail,
              WriteDocs, DropNewDocs, Rollback, documentRows
<1>4. WorkerStop \/ WorkerBoot \/ WorkerReady \/ UNCHANGED vars => docs' = docs
  BY DEF WorkerStop, WorkerBoot, WorkerReady, Rollback, vars, tables, documentRows
<1> QED BY <1>1, <1>2, <1>3, <1>4 DEF Next
\* The steps that write an uncommitted version of document d, or take its lock.
DocWrite(d) ==
  \/ \E c \in Clients : /\ PurgeDelete(c) /\ d \in tgt[c] /\ docs[d].state # "absent"
                        /\ docLock[d] = None /\ docLock'[d] = c /\ docWork'[d] = NoDocument
  \/ \E p \in Procs : /\ AddDocument(p) \/ InsertChunks(p)
                      /\ docs[d].state = "absent" /\ docLock'[d] = p
                      /\ docWork'[d].state = "live" /\ docWork'[d].of = Target(p)

LEMMA DocWrites ==
  ASSUME IInv, [Next]_vars, NEW d \in Docs
  PROVE  \/ docLock'[d] = docLock[d] /\ docWork'[d] = docWork[d]
         \/ docLock'[d] = None
         \/ DocWrite(d)
<1> USE ProcsAssumption DEF IInv, TypeOK, TablesTypeOK, Procs
<1> DEFINE Goal == \/ docLock'[d] = docLock[d] /\ docWork'[d] = docWork[d]
                   \/ docLock'[d] = None
                   \/ DocWrite(d)
<1>1. \A P : Rollback(P) => Goal
  BY DEF Rollback
<1>2. \A p : Commit(p) => Goal
  BY DEF Commit
<1>3. UNCHANGED documentRows => Goal
  BY DEF documentRows
<1>4. ASSUME NEW c \in Clients, ClientStep(c) PROVE Goal
  <2>1. CASE PurgeDelete(c)
    BY <2>1 DEF PurgeDelete, WriteDocs, DocsUnlocked, DocWrite
  <2>2. CASE DeleteCommit(c)
    <3>1. CASE UNCHANGED tables
      BY <1>3, <3>1 DEF tables
    <3>2. CASE ~UNCHANGED tables
      <4>1. SoftDelete(tgt[c]) /\ \A e \in tgt[c] : docLock[e] = None
        BY <2>2, <3>2 DEF DeleteCommit, DocsUnlocked
      <4> QED BY <4>1 DEF SoftDelete
    <3> QED BY <3>1, <3>2
  <2>3. CASE DropCollection(c)
    BY <2>3 DEF DropCollection, DocsUnlocked
  <2> QED BY <1>1, <1>2, <1>3, <1>4, <2>1, <2>2, <2>3
        DEF ClientStep, SyncFind, Insert, Purge, Reset, SyncCommit, BatchCommit, Reject,
            StoreBytes, BatchBegin, BatchFind, BatchReject, SaveOne, SaveFail, EnqueueOne,
            RedisDown, DeleteFind, Abort, tables
<1>5. ASSUME NEW t \in Sources, JobStep(t) PROVE Goal
  BY <1>1, <1>2, <1>3, <1>5
     DEF JobStep, JobStart, JobFetch, JobFail, JobCommit, JobFinish, JobTimeout, JobRefused,
         ExpireResult, RecoverOne, tables
<1>6. ASSUME NEW p \in Procs, PipelineStep(p) PROVE Goal
  <2>1. CASE AddDocument(p)
    <3>1. PICK e \in FreshDocs :
            WriteDocs(p, {e}, [state |-> "live", of |-> Target(p), chunks |-> FALSE])
      BY <2>1 DEF AddDocument
    <3>2. CASE d = e
      BY <2>1, <3>1, <3>2 DEF WriteDocs, FreshDocs, DocWrite
    <3>3. CASE d # e
      BY <3>1, <3>3 DEF WriteDocs
    <3> QED BY <3>2, <3>3
  <2>2. CASE InsertChunks(p)
    BY <2>2 DEF InsertChunks, WriteDocs, NewDocs, DocWrite
  <2>3. CASE PipelineFail(p)
    BY <1>1, <2>3 DEF PipelineFail, DropNewDocs
  <2> QED BY <1>3, <1>6, <2>1, <2>2, <2>3 DEF PipelineStep, Parse, ChunkEmpty, Chunk
<1>7. WorkerStop \/ WorkerBoot \/ WorkerReady \/ UNCHANGED vars => Goal
  BY <1>1, <1>3 DEF WorkerStop, WorkerBoot, WorkerReady, vars, tables
<1> QED BY <1>4, <1>5, <1>6, <1>7 DEF Next

\* A deletion is what can race.
LEMMA RacedStep ==
  ASSUME OneUser, BrowseTypeOK, [BrowseNext]_browseVars
  PROVE  /\ raced \subseteq raced'
         /\ (\A c \in Clients : ~(pc[c] = "idle" /\ pc'[c] = "delete")) => raced' = raced
BY DEF BrowseNext, IngestStep, browseVars, vars, BrowseTypeOK, OneUser, Deleting

\* A row under a job's pipeline is committed by that job.
LEMMA JobRow ==
  ASSUME LoneInv, NEW s \in Sources, pc[s] \in {"fetch", "fail"} \cup PipelineSteps, Exists(s),
         s \notin raced
  PROVE  row[s].status = "pending" /\ ~row[s].deleted /\ ~Free(s)
<1>1. collection
  BY DEF LoneInv, ReaderInv, DroppedIsEmpty
<1>2. row[s].status = "pending" /\ ~row[s].deleted
  BY <1>1 DEF LoneInv, JobsOfPending
<1> QED BY <1>2 DEF Free, IsReingestable, Exists

\* A job finds the file of the name its row has.
LEMMA OwnFileStep ==
  ASSUME LoneInv, [Next]_vars
  PROVE  PendingHasOwnFile'
<1> USE DEF LoneInv, ReaderInv
<1> SUFFICES ASSUME NEW s \in Sources, row'[s].status = "pending"
             PROVE  <<s, row'[s].name>> \in files'
  BY DEF PendingHasOwnFile, Downloadable
<1>1. files \subseteq files' /\ (row[s].status = "pending" => <<s, row[s].name>> \in files)
  BY FilesGrow DEF PendingHasOwnFile, Downloadable
<1>2. row[s] \in Source
  BY DEF IInv, TypeOK, TablesTypeOK
<1>3. CASE row'[s] = row[s]
  BY <1>1, <1>3
<1>4. ASSUME NEW c \in Clients, SyncCommit(c) \/ BatchCommit(c), lock[s] = c, row'[s] = work[s]
      PROVE  <<s, row'[s].name>> \in files'
  <2>1. BatchCommit(c) /\ pc[c] = "publish" /\ s \in batch[c]
    BY <1>4, RequestCommits
  <2>2. work[s].name = name[c] /\ <<s, name[c]>> \in files
    BY <1>4, <2>1 DEF Rewritten, IInv, BytesFirst
  <2> QED BY <1>1, <1>4, <2>2
<1>5. CASE JobCommit(s) /\ lock[s] = s /\ row'[s] = work[s]
  BY <1>5, ProcsAssumption DEF JobCommit, IInv, WorkVersion, Procs
<1>6. CASE row'[s] = [row[s] EXCEPT !.status = "failed"]
  BY <1>2, <1>6 DEF Source
<1>7. CASE row'[s] = [row[s] EXCEPT !.deleted = TRUE]
  BY <1>1, <1>2, <1>7 DEF Source
<1>8. CASE \E c \in Clients : DropCollection(c)
  BY <1>8 DEF DropCollection, NoSource
<1> QED BY <1>3, <1>4, <1>5, <1>6, <1>7, <1>8, RowChanges DEF RowChange

\* A written row version says what its writer knew.
LEMMA RewrittenStep ==
  ASSUME OneUser, LoneInv, [BrowseNext]_browseVars
  PROVE  Rewritten'
<1> USE ProcsAssumption DEF LoneInv, ReaderInv
<1>0. [Next]_vars /\ raced \subseteq raced'
  BY IngestUnderneath, RacedStep
<1> SUFFICES ASSUME NEW s \in Sources, lock'[s] \in Procs
             PROVE  /\ lock'[s] \in Clients =>
                         /\ batch'[lock'[s]] # {} => work'[s].name = name'[lock'[s]]
                         /\ s \notin raced =>
                              /\ Free(s)' /\ ~work'[s].deleted
                              /\ batch'[lock'[s]] # {} => work'[s].status = "pending"
                    /\ lock'[s] \in Sources => work'[s].name = row'[s].name
  BY <1>0 DEF Rewritten, Procs
<1>1. row'[s] = row[s]
  BY <1>0, LockedRowStays DEF Procs
<1>2. Free(s)' <=> Free(s)
  BY <1>1 DEF Free, Exists, IsReingestable
<1>3. CASE lock'[s] = lock[s] /\ work'[s] = work[s]
  <2>1. CASE lock[s] \in Clients
    <3> DEFINE c == lock[s]
    <3>1. pc[c] # "idle"
      BY <2>1 DEF IInv, RowLocks, Uploading, Writing, Claiming
    <3>2. batch'[c] = {} \/ (batch'[c] = batch[c] /\ name'[c] = name[c])
      BY <1>0, <2>1, <3>1, BatchStays
    <3> QED BY <1>1, <1>2, <1>3, <2>1, <3>2 DEF Rewritten, Procs
  <2>2. CASE lock[s] \in Sources
    BY <1>1, <1>3, <2>2 DEF Rewritten, Procs
  <2> QED BY <1>3, <2>1, <2>2 DEF Procs
<1>4. ASSUME NEW c \in Clients, Insert(c), at[c] = s, lock'[s] = c, ~Exists(s),
             work'[s] = NewSource(name[c])
      PROVE  /\ batch'[c] # {} => work'[s].name = name'[c]
             /\ Free(s) /\ ~work'[s].deleted /\ work'[s].status = "pending"
  <2>1. batch'[c] = {} \/ name'[c] = name[c]
    BY <1>0, <1>4, BatchStays DEF Insert
  <2> QED BY <1>4, <2>1 DEF NewSource, Free
<1>5. ASSUME NEW c \in Clients, Reset(c), at[c] = s, lock'[s] = c, Exists(s),
             work'[s] = ResetRow(seen[c], name[c], row[s])
      PROVE  /\ batch'[c] # {} => work'[s].name = name'[c]
             /\ s \notin raced => Free(s) /\ ~work'[s].deleted /\ work'[s].status = "pending"
  <2>1. batch'[c] = {} \/ name'[c] = name[c]
    BY <1>0, <1>5, BatchStays DEF Reset
  <2>2. /\ seen[c].name = row[s].name /\ seen[c].deleted = row[s].deleted
        /\ s \notin raced => seen[c] = row[s] /\ Free(s)
    BY <1>5 DEF Reset, LoadedIsCurrent
  <2> QED BY <1>5, <2>1, <2>2 DEF ResetRow
<1>6. ASSUME NEW p \in Procs, NEW st \in IngestStatus, PipelineStep(p), Target(p) = s,
             lock[s] \in {p, None}, lock'[s] = p, pc[p] # "parse" => lock[s] = p,
             work'[s] = [work[s] EXCEPT !.status = st]
      PROVE  /\ p \in Clients => batch'[p] = {} /\ (s \notin raced => Free(s) /\ ~work'[s].deleted)
             /\ p \in Sources => work'[s].name = row'[s].name
  <2>1. work[s] \in Source
    BY DEF IInv, TypeOK, TablesTypeOK
  <2>2. work'[s].name = work[s].name /\ work'[s].deleted = work[s].deleted
    BY <1>6, <2>1 DEF Source
  <2>3. CASE p \in Clients
    <3>1. lock[s] = p
      BY <1>6, <2>3
         DEF IInv, LocksKept, Uploading, Target, PipelineStep, Parse, AddDocument, ChunkEmpty,
             Chunk, InsertChunks, PipelineFail
    <3> QED BY <1>0, <1>6, <2>2, <2>3, <3>1, PipelineAlone DEF Rewritten, Procs
  <2>4. CASE p \in Sources
    <3>1. p = s /\ (lock[s] = None => work[s] = row[s])
      BY <1>6, <2>4 DEF Target, Procs, IInv, OneVersion
    <3> QED BY <1>1, <1>6, <2>2, <2>4, <3>1 DEF Rewritten, Procs
  <2> QED BY <2>3, <2>4 DEF Procs
<1>7. lock'[s] # None /\ (lock'[s] \in Clients => lock'[s] \notin Sources)
  BY DEF Procs
<1>8. CASE WorkChange(s)
  BY <1>1, <1>2, <1>4, <1>5, <1>6, <1>7, <1>8 DEF WorkChange
<1> QED BY <1>0, <1>3, <1>7, <1>8, WorkChanges

\* A transaction keeps its locks until it ends, and then loses them all.
LEMMA LocksTogether ==
  ASSUME IInv, [Next]_vars, NEW p \in Procs, NEW s \in Sources, lock[s] = p,
         \E d \in Docs : docLock[d] = p /\ docLock'[d] = p
  PROVE  lock'[s] = p
<1> USE ProcsAssumption DEF IInv, TypeOK, TablesTypeOK, Procs
<1>1. \A q : Commit(q) => lock'[s] = p
  BY DEF Commit
<1>2. \A P : Rollback(P) => lock'[s] = p
  BY DEF Rollback
<1>3. UNCHANGED sourceRows => lock'[s] = p
  BY DEF sourceRows
<1>4. WorkChange(s) => lock'[s] = p
  BY DEF WorkChange, Insert, Reset, Unlocked
<1>5. ASSUME NEW c \in Clients, ClientStep(c), lock'[s] = None PROVE FALSE
  <2>1. CASE Insert(c) \/ Reset(c)
    BY <1>2, <1>5, <2>1 DEF Insert, Reset, Reject, Write
  <2>2. CASE DeleteCommit(c)
    BY <1>3, <1>5, <2>2 DEF DeleteCommit, WriteThrough, tables
  <2>3. CASE DropCollection(c)
    BY <1>5, <2>3 DEF DropCollection
  <2> QED BY <1>1, <1>2, <1>3, <1>5, <2>1, <2>2, <2>3
        DEF ClientStep, SyncFind, Purge, PurgeDelete, SyncCommit, BatchCommit, Reject,
            StoreBytes, BatchBegin, BatchFind, BatchReject, SaveOne, SaveFail, EnqueueOne,
            RedisDown, DeleteFind, Abort, tables
<1>6. ASSUME NEW t \in Sources, JobStep(t), lock'[s] = None PROVE FALSE
  BY <1>1, <1>2, <1>3, <1>6
     DEF JobStep, JobStart, JobFetch, JobFail, JobCommit, JobFinish, JobTimeout, JobRefused,
         ExpireResult, RecoverOne, tables, WriteThrough
<1>7. ASSUME NEW q \in Procs, PipelineStep(q), lock'[s] = None PROVE FALSE
  BY <1>2, <1>3, <1>7
     DEF PipelineStep, Parse, AddDocument, ChunkEmpty, Chunk, InsertChunks, PipelineFail, SetStatus,
         Write
<1>8. WorkerStop \/ WorkerBoot \/ WorkerReady \/ UNCHANGED vars => lock'[s] = p
  BY <1>2, <1>3 DEF WorkerStop, WorkerBoot, WorkerReady, vars, tables
<1> QED BY <1>4, <1>5, <1>6, <1>7, <1>8, WorkChanges DEF Next

\* A committed document that is locked is not changed by another transaction.
LEMMA LockedDocument ==
  ASSUME IInv, [Next]_vars, NEW d \in Docs, docLock'[d] # None
  PROVE  docs'[d] = docs[d]
<1> USE ProcsAssumption DEF IInv, TypeOK, TablesTypeOK, Procs
<1>1. \A p \in Procs : Commit(p) => docLock[d] # p
  BY DEF Commit
<1>2. \A c \in Clients : DropCollection(c) => FALSE
  BY DEF DropCollection, DocsUnlocked
<1>3. \A c \in Clients : DeleteCommit(c) => docLock[d] # None
  BY DEF DeleteCommit, SoftDelete, tables, documentRows
<1> QED BY <1>1, <1>2, <1>3, DocChanges DEF DocChange, SyncCommit, BatchCommit, JobCommit

\* Committed documents are locked by the retry of their source alone.
LEMMA PurgedIsOwnStep ==
  ASSUME OneUser, LoneInv, [Next]_vars
  PROVE  PurgedIsOwn'
<1> USE ProcsAssumption DEF LoneInv, ReaderInv
<1> SUFFICES ASSUME NEW d \in Docs, docs'[d].state # "absent", docLock'[d] # None
             PROVE  LET c == docLock'[d] IN
                    /\ c \in Clients /\ docWork'[d] = NoDocument
                    /\ \/ lock'[docs'[d].of] = c
                       \/ pc'[c] = "reset" /\ at'[c] = docs'[d].of
  BY DEF PurgedIsOwn
<1>1. docs'[d] = docs[d] /\ docs[d].of \in Sources
  BY LockedDocument DEF ListedIsLive
<1>2. CASE docLock'[d] = docLock[d] /\ docWork'[d] = docWork[d]
  <2> DEFINE c == docLock[d]
  <2>1. /\ c \in Clients /\ docWork[d] = NoDocument
        /\ lock[docs[d].of] = c \/ (pc[c] = "reset" /\ at[c] = docs[d].of)
    BY <1>1, <1>2 DEF PurgedIsOwn
  <2>2. CASE lock[docs[d].of] = c
    <3>1. lock'[docs[d].of] = c
      BY <1>1, <1>2, <2>1, <2>2, LocksTogether DEF Procs
    <3> QED BY <1>1, <1>2, <2>1, <3>1
  <2>3. CASE pc[c] = "reset" /\ at[c] = docs[d].of
    <3>1. \A P : Rollback(P) => c \notin P
      BY <1>2, <2>1 DEF Rollback, Procs
    <3>2. CASE ClientStep(c)
      <4>1. Reset(c) /\ ~Reject(c)
        BY <2>3, <3>1, <3>2
           DEF ClientStep, SyncFind, Insert, Purge, PurgeDelete, Reset, SyncCommit, BatchCommit,
               Reject, StoreBytes, BatchBegin, BatchFind, BatchReject, SaveOne, SaveFail,
               EnqueueOne, RedisDown, DeleteFind, DeleteCommit, DropCollection, Abort
      <4>2. lock'[docs[d].of] = c
        BY <1>1, <2>3, <4>1 DEF Reset, Write, IInv, TypeOK, TablesTypeOK
      <4> QED BY <1>1, <1>2, <2>1, <4>2
    <3>3. CASE ~ClientStep(c)
      <4>1. ~PipelineStep(c)
        BY <2>3 DEF PipelineStep, Parse, AddDocument, ChunkEmpty, Chunk, InsertChunks, PipelineFail
      <4>2. pc'[c] = pc[c] /\ at'[c] = at[c]
        BY <2>1, <3>3, <4>1, RequestStays DEF IInv, request
      <4> QED BY <1>1, <1>2, <2>1, <2>3, <4>2
    <3> QED BY <3>2, <3>3
  <2> QED BY <2>1, <2>2, <2>3
<1>3. ASSUME NEW c \in Clients, PurgeDelete(c), d \in tgt[c], docLock'[d] = c,
             docWork'[d] = NoDocument
      PROVE  pc'[c] = "reset" /\ at'[c] = docs[d].of
  BY <1>3 DEF PurgeDelete, Goto, Purged, DocsOf, IInv, TypeOK, Procs
<1>4. DocWrite(d) => \E c \in Clients : PurgeDelete(c) /\ d \in tgt[c] /\ docLock'[d] = c
                                       /\ docWork'[d] = NoDocument
  BY <1>1 DEF DocWrite
<1> QED BY <1>1, <1>2, <1>3, <1>4, DocWrites

\* Documents have a row, and it is marked when they are.
LEMMA ListedStep ==
  ASSUME OneUser, LoneInv, [Next]_vars
  PROVE  ListedIsLive'
<1> USE ProcsAssumption DEF LoneInv, ReaderInv
<1> SUFFICES ASSUME NEW d \in Docs, docs'[d].state # "absent"
             PROVE  /\ docs'[d].of \in Sources /\ row'[docs'[d].of].status # "absent"
                    /\ docs'[d].state # "live" => row'[docs'[d].of].deleted
  BY DEF ListedIsLive, Exists
<1>0. \A s \in Sources : row[s] \in Source /\ work[s] \in Source
  BY DEF IInv, TypeOK, TablesTypeOK
<1>1. CASE docs'[d] = docs[d]
  <2> DEFINE s == docs[d].of
  <2>1. /\ s \in Sources /\ Exists(s) /\ d \in DocsOf(s)
        /\ docs[d].state # "live" => row[s].deleted
    BY <1>1 DEF ListedIsLive, DocsOf
  <2>2. ASSUME NEW c \in Clients, SyncCommit(c) \/ BatchCommit(c), lock[s] = c, row'[s] = work[s]
        PROVE  row'[s].status # "absent" /\ docs[d].state = "live"
    <3>1. Gone(c, d) \/ Leftover(d)
      BY <2>1, <2>2 DEF Purged
    <3>2. ~Gone(c, d)
      BY <1>1, <2>2 DEF Gone, SyncCommit, BatchCommit, Commit, NoDocument
    <3>3. work[s].status # "absent"
      BY <2>1, <2>2 DEF IInv, WorkVersion, Procs
    <3> QED BY <2>2, <3>1, <3>2, <3>3 DEF Leftover, Exists
  <2>3. ASSUME JobCommit(s), lock[s] = s, row'[s] = work[s]
        PROVE  row'[s].status # "absent" /\ row'[s].deleted = row[s].deleted
    BY <2>1, <2>3 DEF IInv, WorkVersion, Exists, Procs
  <2>4. row'[s] = [row[s] EXCEPT !.status = "failed"] \/ row'[s] = [row[s] EXCEPT !.deleted = TRUE]
          => row'[s].status # "absent" /\ (row[s].deleted => row'[s].deleted)
    BY <1>0, <2>1 DEF Exists, Source
  <2>5. \A c \in Clients : ~DropCollection(c)
    BY DEF DropCollection, NoDocument
  <2>6. row'[s] = row[s] => row'[s].status # "absent"
    BY <2>1 DEF Exists
  <2> HIDE DEF s, LoneInv, ReaderInv
  <2>7. row'[s].status # "absent" /\ (docs[d].state # "live" => row'[s].deleted)
    <3>1. row'[s] = row[s] \/ RowChange(s)
      BY <2>1, RowChanges DEF LoneInv, ReaderInv
    <3> QED BY <2>1, <2>2, <2>3, <2>4, <2>5, <2>6, <3>1 DEF RowChange
  <2> QED BY <1>1, <2>1, <2>7 DEF s
<1>2. ASSUME NEW p \in Procs, docLock[d] = p, docs'[d] = docWork[d], Commit(p)
      PROVE  /\ docs'[d].of \in Sources /\ row'[docs'[d].of].status # "absent" /\ docs'[d].state = "live"
  <2>1. docs[d].state = "absent"
    BY <1>2 DEF PurgedIsOwn, NoDocument, Procs
  <2>2. /\ pc[p] \in {"chunk", "embed", "commit"}
        /\ docWork[d].state = "live" /\ docWork[d].of = Target(p)
    BY <1>2, <2>1 DEF IInv, OneNewDocument, Procs
  <2>3. Target(p) \in Sources /\ lock[Target(p)] = p
    BY <2>2 DEF IInv, RequestShape, HasTarget, LocksKept, Uploading, JobWriting, Target, Procs
  <2>4. row'[Target(p)] = work[Target(p)] /\ work[Target(p)].status # "absent"
    BY <1>2, <2>3 DEF Commit, IInv, WorkVersion, Procs
  <2> QED BY <1>2, <2>2, <2>3, <2>4 DEF Exists
<1>3. ASSUME NEW c \in Clients, DeleteCommit(c), d \in tgt[c], docs'[d] = Stamped(docs[d]),
             Exists(at[c]), row' = [row EXCEPT ![at[c]] = [row[at[c]] EXCEPT !.deleted = TRUE]]
      PROVE  /\ docs'[d].of \in Sources /\ row'[docs'[d].of].status # "absent" /\ row'[docs'[d].of].deleted
  <2>1. at[c] \in Sources /\ d \in DocsOf(at[c])
    BY <1>3 DEF DeleteCommit, IInv, RequestShape, HasTarget, DeletionKnows
  <2>2. docs[d] \in Document /\ docs[d].of = at[c]
    BY <2>1 DEF DocsOf, IInv, TypeOK, TablesTypeOK
  <2>3. docs'[d].of = at[c]
    BY <1>3, <2>2 DEF Stamped, Document
  <2>4. row'[at[c]] = [row[at[c]] EXCEPT !.deleted = TRUE]
    BY <1>3, <2>1 DEF IInv, TypeOK, TablesTypeOK
  <2> QED BY <1>0, <1>3, <2>1, <2>3, <2>4 DEF Source, Exists
<1>4. CASE \E c \in Clients : DropCollection(c)
  BY <1>4 DEF DropCollection, NoDocument
<1>5. CASE DocChange(d)
  BY <1>2, <1>3, <1>4, <1>5 DEF DocChange, SyncCommit, BatchCommit, JobCommit
<1> QED BY <1>1, <1>5, DocChanges
\* No job runs before the worker is ready.
LEMMA BootStep ==
  ASSUME LoneInv, [Next]_vars
  PROVE  BootFirst'
<1> USE ProcsAssumption DEF LoneInv, ReaderInv, BootFirst, IInv, TypeOK, Procs, Goto
<1>1. ASSUME NEW c \in Clients, ClientStep(c) PROVE BootFirst'
  <2>1. UNCHANGED worker /\ \A s \in Sources : pc'[s] = pc[s]
    BY <1>1
       DEF ClientStep, SyncFind, Claim, Insert, Purge, PurgeDelete, Reset, SyncCommit, BatchCommit,
           Reject, StoreBytes, BatchBegin, BatchFind, BatchReject, SaveOne, SaveFail, EnqueueOne,
           RedisDown, DeleteFind, DeleteCommit, DropCollection, Abort, Respond, RowWritten
  <2> QED BY <2>1 DEF worker
<1>2. ASSUME NEW s \in Sources, JobStep(s) PROVE BootFirst'
  BY <1>2 DEF JobStep, JobStart, JobFetch, JobFail, JobCommit, JobFinish, JobTimeout, JobRefused,
              ExpireResult, RecoverOne, worker
<1>3. ASSUME NEW p \in Procs, PipelineStep(p) PROVE BootFirst'
  BY <1>3
     DEF PipelineStep, Parse, AddDocument, ChunkEmpty, Chunk, InsertChunks, PipelineFail, worker
<1>4. CASE WorkerStop \/ WorkerBoot \/ WorkerReady \/ UNCHANGED vars
  BY <1>4 DEF WorkerStop, WorkerBoot, WorkerReady, vars, worker
<1> QED BY <1>1, <1>2, <1>3, <1>4 DEF Next

\* A row that a job may still settle is pending, and no job works for a deleted one.
LEMMA JobsStep ==
  ASSUME OneUser, LoneInv, [BrowseNext]_browseVars
  PROVE  JobsOfPending'
<1> USE ProcsAssumption DEF LoneInv, ReaderInv
<1>0. [Next]_vars /\ raced \subseteq raced'
  BY IngestUnderneath, RacedStep
<1> SUFFICES ASSUME collection', NEW s \in Sources, s \notin raced'
             PROVE  /\ pc'[s] \in {"fetch", "fail"} \cup PipelineSteps \/ s \in boot'
                         => row'[s].status = "pending"
                    /\ row'[s].deleted => row'[s].status # "pending" /\ job'[s] = "none"
                    /\ \A c \in Clients : pc'[c] = "enqueue" /\ s \in todo'[c] => ~row'[s].deleted
  BY DEF JobsOfPending
<1>1. /\ collection /\ s \notin raced
      /\ pc[s] \in {"fetch", "fail"} \cup PipelineSteps \/ s \in boot => row[s].status = "pending"
      /\ row[s].deleted => row[s].status # "pending" /\ job[s] = "none"
      /\ \A c \in Clients : pc[c] = "enqueue" /\ s \in todo[c] => ~row[s].deleted
  BY <1>0, DroppedStays DEF IInv, JobsOfPending
<1>2. row[s] \in Source /\ work[s] \in Source
  BY DEF IInv, TypeOK, TablesTypeOK
<1>3. ASSUME NEW c \in Clients, SyncCommit(c) \/ BatchCommit(c), lock[s] = c, row'[s] = work[s]
      PROVE  /\ Free(s) /\ ~row'[s].deleted
             /\ (BatchCommit(c) /\ row'[s].status = "pending") \/ row[s].status # "pending"
  <2>1. Free(s) /\ ~work[s].deleted /\ (batch[c] # {} => work[s].status = "pending")
    BY <1>1, <1>3 DEF Rewritten
  <2>2. row[s].status # "pending"
    BY <1>1, <2>1 DEF Free, IsReingestable, Exists
  <2> QED BY <1>3, <2>1, <2>2
<1>4. ASSUME NEW c \in Clients, DeleteCommit(c), at[c] = s, row'[s] = [row[s] EXCEPT !.deleted = TRUE]
      PROVE  row'[s].status # "pending" /\ row[s].status # "pending" /\ job'[s] = "none"
    BY <1>1, <1>2, <1>4 DEF DeleteCommit, DeletionKnows, Unsettled, Source, queue
<1>5. ASSUME JobCommit(s) \/ JobFail(s)
      PROVE  row[s].status = "pending" /\ ~row[s].deleted
  BY <1>1, <1>5 DEF JobCommit, JobFail, PipelineSteps
<1>6. JobCommit(s) /\ lock[s] = s /\ row'[s] = work[s] => row'[s].deleted = row[s].deleted
  BY DEF IInv, WorkVersion, Procs
<1>7. row'[s] = [row[s] EXCEPT !.status = "failed"] => row'[s].deleted = row[s].deleted
  BY <1>2 DEF Source
<1>8. \A c \in Clients : ~DropCollection(c)
  BY DEF DropCollection
<1>9. row'[s] = row[s] \/ RowChange(s)
  BY <1>0, RowChanges
<1>10. s \in boot /\ (JobCommit(s) \/ JobFail(s)) => FALSE
  BY DEF BootFirst, JobCommit, JobFail
<1>11. pc'[s] \in {"fetch", "fail"} \cup PipelineSteps \/ s \in boot' => row'[s].status = "pending"
  <2>1. SUFFICES ASSUME row[s].status = "pending", ~JobCommit(s), ~JobFail(s)
                 PROVE  row'[s].status = "pending"
    BY <1>0, <1>1, <1>10, JobMove DEF IInv
  <2> HIDE DEF LoneInv, ReaderInv
  <2> QED BY <1>3, <1>4, <1>8, <1>9, <2>1 DEF RowChange
<1>12. row'[s].deleted => row'[s].status # "pending" /\ job'[s] = "none"
  <2>1. CASE row'[s] = row[s]
    BY <1>0, <1>1, <2>1, JobMove DEF IInv
  <2> HIDE DEF LoneInv, ReaderInv
  <2> QED BY <1>3, <1>4, <1>5, <1>6, <1>7, <1>8, <1>9, <2>1 DEF RowChange
<1>13. ASSUME NEW c \in Clients, pc'[c] = "enqueue", s \in todo'[c] PROVE ~row'[s].deleted
  <2>1. CASE pc[c] = "enqueue" /\ s \in todo[c]
    <3>1. ~DeleteCommit(c) /\ ~row[s].deleted
      BY <1>1, <2>1 DEF DeleteCommit
    <3>2. \A b \in Clients : b = c
      BY DEF OneUser
    <3> HIDE DEF LoneInv, ReaderInv
    <3> QED BY <1>3, <1>6, <1>7, <1>8, <1>9, <3>1, <3>2 DEF RowChange
  <2>2. CASE BatchCommit(c)
    <3>1. s \in batch[c] /\ lock[s] = c /\ row'[s] = work[s]
      BY <1>13, <2>2 DEF BatchCommit, Commit, IInv, TypeOK, LocksKept
    <3> QED BY <1>3, <2>2, <3>1
  <2>3. (pc[c] = "enqueue" /\ s \in todo[c]) \/ BatchCommit(c)
    <3>0. pc \in [Procs -> ClientSteps \cup JobSteps \cup PipelineSteps] /\ c \in Procs
          /\ todo \in [Clients -> SUBSET Sources]
      BY DEF IInv, TypeOK, Procs
    <3> HIDE DEF LoneInv, ReaderInv
    <3>1. CASE ClientStep(c)
      <4>1. CASE EnqueueOne(c)
        BY <1>13, <3>0, <4>1 DEF EnqueueOne, Respond
      <4>2. CASE Insert(c) \/ Reset(c)
        BY <1>13, <3>0, <4>2 DEF Insert, Reset, Reject, Respond, RowWritten, Goto
      <4> QED BY <1>13, <3>0, <3>1, <4>1, <4>2
         DEF ClientStep, SyncFind, Claim, Purge, PurgeDelete, SyncCommit,
             Reject, StoreBytes, BatchBegin, BatchFind, BatchReject, SaveOne, SaveFail,
             RedisDown, DeleteFind, DeleteCommit, DropCollection, Abort, Respond, Goto, request
    <3>2. CASE PipelineStep(c)
      BY <1>13, <3>0, <3>2
         DEF PipelineStep, Parse, AddDocument, ChunkEmpty, Chunk, InsertChunks, PipelineFail, Goto
    <3> QED BY <1>0, <1>13, <3>1, <3>2, RequestStays DEF LoneInv, ReaderInv, IInv, request
  <2> QED BY <2>1, <2>2, <2>3
<1> QED BY <1>11, <1>12, <1>13
\* What a job makes of the row it works on, and what it knows of it.
LEMMA JobWrites ==
  ASSUME LoneInv, NEW s \in Sources,
         \/ JobCommit(s) /\ lock[s] = s /\ row'[s] = work[s]
         \/ JobFail(s) /\ lock[s] = None /\ Exists(s) /\ row'[s] = [row[s] EXCEPT !.status = "failed"]
  PROVE  /\ Exists(s) /\ Exists(s)'
         /\ row'[s].name = row[s].name /\ row'[s].deleted = row[s].deleted
         /\ Unsettled(s)
         /\ s \notin raced => row[s].status = "pending" /\ ~row[s].deleted /\ ~Free(s)
<1> USE ProcsAssumption DEF LoneInv, ReaderInv
<1>1. row[s] \in Source
  BY DEF IInv, TypeOK, TablesTypeOK
<1>2. pc[s] \in {"fetch", "fail"} \cup PipelineSteps /\ job[s] = "running"
  BY DEF JobCommit, JobFail, PipelineSteps, IInv, JobShape
<1>3. Exists(s)
  BY <1>2 DEF DroppedIsEmpty, IInv, JobsAreDurable, Procs
<1>4. CASE JobCommit(s) /\ lock[s] = s /\ row'[s] = work[s]
  <2>1. row'[s].name = row[s].name /\ row'[s].deleted = row[s].deleted /\ Exists(s)'
    BY <1>4 DEF Rewritten, IInv, WorkVersion, Procs, Exists
  <2> QED BY <1>2, <1>3, <2>1, JobRow DEF Unsettled
<1>5. CASE row'[s] = [row[s] EXCEPT !.status = "failed"]
  BY <1>1, <1>2, <1>3, <1>5, JobRow DEF Exists, Source, Unsettled
<1> QED BY <1>4, <1>5

\* While the user's request is in progress and does not end, only jobs commit.
LEMMA OnlyJobs ==
  ASSUME OneUser, LoneInv, [Next]_vars, NEW c \in Clients, ~ClientStep(c), ~PipelineStep(c)
  PROVE  /\ \A s \in Sources : row'[s] # row[s] =>
              \/ JobCommit(s) /\ lock[s] = s /\ row'[s] = work[s]
              \/ /\ JobFail(s) /\ lock[s] = None /\ Exists(s)
                 /\ row'[s] = [row[s] EXCEPT !.status = "failed"]
         /\ \A d \in Docs : docs'[d] # docs[d] =>
              /\ docs[d].state = "absent" /\ docs'[d].state = "live" /\ docs'[d].of \in Sources
              /\ Unsettled(docs'[d].of)
              /\ docs'[d].of \notin raced => ~Free(docs'[d].of)
<1> USE ProcsAssumption DEF LoneInv, ReaderInv
<1>1. \A b \in Clients : /\ ~SyncCommit(b) /\ ~BatchCommit(b) /\ ~DeleteCommit(b)
                         /\ ~DropCollection(b)
  BY DEF OneUser, ClientStep
<1>2. ASSUME NEW s \in Sources, row'[s] # row[s]
      PROVE  \/ JobCommit(s) /\ lock[s] = s /\ row'[s] = work[s]
             \/ /\ JobFail(s) /\ lock[s] = None /\ Exists(s)
                /\ row'[s] = [row[s] EXCEPT !.status = "failed"]
  BY <1>1, <1>2, RowChanges DEF RowChange
<1>3. ASSUME NEW d \in Docs, docs'[d] # docs[d]
      PROVE  /\ docs[d].state = "absent" /\ docs'[d].state = "live" /\ docs'[d].of \in Sources
             /\ Unsettled(docs'[d].of)
             /\ docs'[d].of \notin raced => ~Free(docs'[d].of)
  <2>1. PICK p \in Sources : docLock[d] = p /\ docs'[d] = docWork[d] /\ JobCommit(p)
    BY <1>1, <1>3, DocChanges DEF DocChange
  <2>2. docs[d].state = "absent"
    BY <2>1 DEF PurgedIsOwn, Procs
  <2>3. docWork[d].state = "live" /\ docWork[d].of = p
    BY <2>1, <2>2 DEF IInv, OneNewDocument, Target, Procs
  <2>4. lock[p] = p
    BY <2>1 DEF JobCommit, IInv, LocksKept, JobWriting
  <2>5. row'[p] = work[p]
    BY <2>1, <2>4 DEF JobCommit, Commit
  <2> QED BY <2>1, <2>2, <2>3, <2>4, <2>5, JobWrites
<1> QED BY <1>2, <1>3

\* A retry resets the row as it loaded it.
LEMMA LoadedStep ==
  ASSUME OneUser, LoneInv, [BrowseNext]_browseVars
  PROVE  LoadedIsCurrent'
<1> USE ProcsAssumption DEF LoneInv, ReaderInv
<1>0. [Next]_vars /\ raced \subseteq raced'
  BY IngestUnderneath, RacedStep
<1> SUFFICES ASSUME NEW c \in Clients
             PROVE  /\ pc'[c] = "insert" => row'[at'[c]].status = "absent"
                    /\ pc'[c] \in {"purge", "purging", "reset"} =>
                         /\ row'[at'[c]].status # "absent"
                         /\ seen'[c].name = row'[at'[c]].name
                         /\ seen'[c].deleted = row'[at'[c]].deleted
                         /\ at'[c] \notin raced =>
                              seen'[c] = row'[at'[c]] /\ IsReingestable(row'[at'[c]])
  BY <1>0 DEF LoadedIsCurrent, Exists, Free
<1>1. /\ pc \in [Procs -> ClientSteps \cup JobSteps \cup PipelineSteps] /\ c \in Procs
      /\ seen \in [Procs -> Source] /\ at \in [Clients -> Sources \cup {None}]
  BY DEF IInv, TypeOK, Procs
<1>2. /\ pc[c] = "insert" => ~Exists(at[c])
      /\ pc[c] \in {"purge", "purging", "reset"} =>
           /\ Exists(at[c])
           /\ seen[c].name = row[at[c]].name /\ seen[c].deleted = row[at[c]].deleted
           /\ at[c] \notin raced => seen[c] = row[at[c]] /\ Free(at[c])
  BY DEF LoadedIsCurrent
<1>3. CASE ClientStep(c)
  <2> HIDE DEF LoneInv, ReaderInv
  <2>1. CASE SyncFind(c) \/ BatchFind(c)
    <3>1. PICK s \in Sources : ~Duplicate(s) /\ Claim(c, s) /\ row' = row
      BY <2>1, todo[c] \subseteq Sources
         DEF SyncFind, BatchFind, tables, sourceRows, LoneInv, ReaderInv, IInv, TypeOK
    <3> QED BY <1>1, <3>1 DEF Claim, Goto, Duplicate, Exists
  <2>2. CASE Purge(c) \/ PurgeDelete(c)
    BY <1>1, <1>2, <2>2
       DEF Purge, PurgeDelete, Goto, tables, sourceRows, Exists, Free
  <2>3. pc'[c] \notin {"insert", "purge", "purging", "reset"} \/ Purge(c) \/ PurgeDelete(c)
        \/ SyncFind(c) \/ BatchFind(c)
    <3>1. CASE Insert(c) \/ Reset(c)
      BY <1>1, <3>1 DEF Insert, Reset, Reject, Respond, RowWritten, Goto
    <3> QED BY <1>1, <1>3, <3>1
         DEF ClientStep, SyncCommit, BatchCommit, Reject, StoreBytes, BatchBegin, BatchReject,
             SaveOne, SaveFail, EnqueueOne, RedisDown, DeleteFind, DeleteCommit, DropCollection,
             Abort, Respond, Goto, request
  <2> QED BY <2>1, <2>2, <2>3
<1>4. CASE PipelineStep(c)
  BY <1>1, <1>4 DEF PipelineStep, Parse, AddDocument, ChunkEmpty, Chunk, InsertChunks, PipelineFail, Goto
<1>5. CASE ~ClientStep(c) /\ ~PipelineStep(c)
  <2>1. pc'[c] = pc[c] /\ seen'[c] = seen[c] /\ at'[c] = at[c]
    BY <1>0, <1>5, RequestStays DEF IInv, request
  <2>2. pc[c] \in {"insert", "purge", "purging", "reset"} => at[c] \in Sources
    BY DEF IInv, RequestShape, HasTarget
  <2> HIDE DEF LoneInv, ReaderInv
  <2>3. CASE row'[at[c]] = row[at[c]]
    BY <1>2, <2>1, <2>3 DEF Exists, Free
  <2>4. ASSUME at[c] \in Sources, row'[at[c]] # row[at[c]]
        PROVE  /\ Exists(at[c]) /\ row'[at[c]].status # "absent"
               /\ row'[at[c]].name = row[at[c]].name /\ row'[at[c]].deleted = row[at[c]].deleted
               /\ at[c] \notin raced => ~Free(at[c])
    BY <1>0, <1>5, <2>4, OnlyJobs, JobWrites DEF Exists
  <2> QED BY <1>2, <2>1, <2>2, <2>3, <2>4
<1> QED BY <1>3, <1>4, <1>5
\* What a transaction has written of a committed document is lost or kept with it.
LEMMA DocumentKept ==
  ASSUME IInv, [Next]_vars, NEW p \in Procs, NEW d \in Docs, docLock[d] = p,
         docs[d].state # "absent"
  PROVE  \/ docLock'[d] = p /\ docWork'[d] = docWork[d] /\ docs'[d] = docs[d]
         \/ Commit(p) /\ (p \in Clients => ClientStep(p))
         \/ /\ p \in Clients => ClientStep(p)
            /\ \E P : p \in P /\ Rollback(P)
<1> USE ProcsAssumption DEF IInv, TypeOK, TablesTypeOK, Procs
<1> DEFINE Kept == docLock'[d] = p /\ docWork'[d] = docWork[d]
           Ended == \/ Commit(p) /\ (p \in Clients => ClientStep(p))
                    \/ /\ p \in Clients => ClientStep(p)
                       /\ \E P : p \in P /\ Rollback(P)
<1> SUFFICES Kept \/ Ended
  BY LockedDocument
<1>1. \A q : Commit(q) => Kept \/ q = p
  BY DEF Commit
<1>2. \A P : Rollback(P) => Kept \/ p \in P
  BY DEF Rollback
<1>3. UNCHANGED documentRows => Kept
  BY DEF documentRows
<1>4. ASSUME NEW c \in Clients, ClientStep(c) PROVE Kept \/ Ended
  <2>1. CASE PurgeDelete(c)
    BY <2>1 DEF PurgeDelete, WriteDocs, DocsUnlocked
  <2>2. CASE DeleteCommit(c)
    <3>1. CASE UNCHANGED tables
      BY <1>3, <3>1 DEF tables
    <3>2. CASE ~UNCHANGED tables
      BY <2>2, <3>2 DEF DeleteCommit, DocsUnlocked, SoftDelete
    <3> QED BY <3>1, <3>2
  <2>3. CASE DropCollection(c)
    BY <2>3 DEF DropCollection, DocsUnlocked
  <2>4. CASE Commit(c)
    BY <1>1, <1>4, <2>4
  <2>5. CASE Rollback({c})
    BY <1>2, <1>4, <2>5
  <2> QED BY <1>3, <1>4, <2>1, <2>2, <2>3, <2>4, <2>5
        DEF ClientStep, SyncFind, Insert, Purge, Reset, SyncCommit, BatchCommit, Reject,
            StoreBytes, BatchBegin, BatchFind, BatchReject, SaveOne, SaveFail, EnqueueOne,
            RedisDown, DeleteFind, Abort, tables
<1>5. ASSUME NEW t \in Sources, JobStep(t) PROVE Kept \/ Ended
  <2>1. CASE Commit(t)
    BY <1>1, <2>1
  <2>2. CASE Rollback({t})
    BY <1>2, <2>2
  <2> QED BY <1>3, <1>5, <2>1, <2>2
        DEF JobStep, JobStart, JobFetch, JobFail, JobCommit, JobFinish, JobTimeout, JobRefused,
            ExpireResult, RecoverOne, tables
<1>6. ASSUME NEW q \in Procs, PipelineStep(q) PROVE Kept \/ Ended
  <2>1. CASE AddDocument(q)
    BY <2>1 DEF AddDocument, WriteDocs, FreshDocs
  <2>2. CASE InsertChunks(q)
    BY <2>2 DEF InsertChunks, WriteDocs, NewDocs
  <2>3. CASE PipelineFail(q)
    <3>1. CASE DropNewDocs(q)
      BY <3>1 DEF DropNewDocs, NewDocs
    <3>2. CASE q \in Sources /\ Rollback({q})
      BY <1>2, <3>2
    <3> QED BY <2>3, <3>1, <3>2 DEF PipelineFail
  <2> QED BY <1>3, <1>6, <2>1, <2>2, <2>3 DEF PipelineStep, Parse, ChunkEmpty, Chunk
<1>7. CASE WorkerStop
  BY <1>2, <1>7 DEF WorkerStop
<1>8. CASE WorkerBoot \/ WorkerReady \/ UNCHANGED vars
  BY <1>3, <1>8 DEF WorkerBoot, WorkerReady, vars, tables
<1> QED BY <1>4, <1>5, <1>6, <1>7, <1>8 DEF Next

\* A retry has purged what there was of its source, but for what a race left.
LEMMA PurgedStep ==
  ASSUME OneUser, LoneInv, [BrowseNext]_browseVars
  PROVE  Purged'
<1> USE ProcsAssumption DEF LoneInv, ReaderInv
<1>0. [Next]_vars /\ raced \subseteq raced'
  BY IngestUnderneath, RacedStep
<1> DEFINE GoneNext(c, d) == docLock'[d] = c /\ docWork'[d] = NoDocument
           LeftNext(d) == docs'[d].state = "live" /\ docs'[d].of \in raced
           DocsNext(s) == {d \in Docs : docs'[d].state # "absent" /\ docs'[d].of = s}
<1>1. SUFFICES /\ \A c \in Clients :
                    /\ pc'[c] = "purging" =>
                         /\ tgt'[c] \subseteq DocsNext(at'[c])
                         /\ \A d \in DocsNext(at'[c]) \ tgt'[c] : LeftNext(d)
                    /\ pc'[c] = "reset" => \A d \in DocsNext(at'[c]) : GoneNext(c, d) \/ LeftNext(d)
               /\ \A s \in Sources : lock'[s] \in Clients =>
                    \A d \in DocsNext(s) : GoneNext(lock'[s], d) \/ LeftNext(d)
  BY <1>0 DEF Purged, DocsOf, Gone, Leftover
<1>2. /\ pc \in [Procs -> ClientSteps \cup JobSteps \cup PipelineSteps]
      /\ at \in [Clients -> Sources \cup {None}] /\ tgt \in [Clients -> SUBSET Docs]
      /\ docs \in [Docs -> Document] /\ docWork \in [Docs -> Document]
  BY DEF IInv, TypeOK, TablesTypeOK
<1>3. UNCHANGED docs => \A s : DocsNext(s) = DocsOf(s) /\ \A d \in DocsNext(s) : Leftover(d) => LeftNext(d)
  BY DEF DocsOf, Leftover
<1> HIDE DEF GoneNext, LeftNext, DocsNext
<1>4. ASSUME NEW c \in Clients, pc'[c] \in {"purging", "reset"}
      PROVE  \/ Purge(c) \/ PurgeDelete(c)
             \/ ~ClientStep(c) /\ ~PipelineStep(c) /\ pc'[c] = pc[c] /\ at'[c] = at[c] /\ tgt'[c] = tgt[c]
  <2> HIDE DEF LoneInv, ReaderInv
  <2>0. c \in Procs
    BY DEF Procs
  <2>1. CASE ClientStep(c)
    <3>1. CASE Insert(c) \/ Reset(c)
      BY <1>2, <1>4, <2>0, <3>1 DEF Insert, Reset, Reject, Respond, RowWritten, Goto
    <3> QED BY <1>2, <1>4, <2>0, <2>1, <3>1
         DEF ClientStep, SyncFind, BatchFind, Claim, SyncCommit, BatchCommit, Reject, StoreBytes,
             BatchBegin, BatchReject, SaveOne, SaveFail, EnqueueOne, RedisDown, DeleteFind,
             DeleteCommit, DropCollection, Abort, Respond, Goto, request
  <2>2. CASE PipelineStep(c)
    BY <1>2, <1>4, <2>0, <2>2
       DEF PipelineStep, Parse, AddDocument, ChunkEmpty, Chunk, InsertChunks, PipelineFail, Goto
  <2>3. CASE ~ClientStep(c) /\ ~PipelineStep(c)
    BY <1>0, <2>3, RequestStays DEF LoneInv, ReaderInv, IInv, request
  <2> QED BY <2>1, <2>2, <2>3
<1>5. ASSUME NEW c \in Clients, ~ClientStep(c), ~PipelineStep(c), at[c] \notin raced => Free(at[c]),
             NEW d \in DocsNext(at[c])
      PROVE  LeftNext(d) \/ (d \in DocsOf(at[c]) /\ docs'[d] = docs[d])
  BY <1>0, <1>5, OnlyJobs DEF DocsNext, LeftNext, DocsOf
<1>6. ASSUME NEW c \in Clients, pc[c] \in {"purging", "reset"}
      PROVE  at[c] \in Sources /\ (at[c] \notin raced => Free(at[c]))
  BY <1>6 DEF LoadedIsCurrent, IInv, RequestShape, HasTarget
<1>7. ASSUME NEW c \in Clients, pc'[c] = "purging"
      PROVE  /\ tgt'[c] \subseteq DocsNext(at'[c])
             /\ \A d \in DocsNext(at'[c]) \ tgt'[c] : LeftNext(d)
  <2>1. CASE Purge(c)
    BY <1>2, <1>3, <2>1 DEF Purge, tables, documentRows
  <2>2. ~PurgeDelete(c)
    BY <1>2, <1>7 DEF PurgeDelete, Goto, Procs
  <2>3. CASE ~ClientStep(c) /\ ~PipelineStep(c) /\ pc'[c] = pc[c] /\ at'[c] = at[c] /\ tgt'[c] = tgt[c]
    <3>1. tgt[c] \subseteq DocsOf(at[c]) /\ \A d \in DocsOf(at[c]) \ tgt[c] : Leftover(d)
      BY <1>7, <2>3 DEF Purged
    <3>2. \A d \in DocsNext(at[c]) : LeftNext(d) \/ (d \in DocsOf(at[c]) /\ docs'[d] = docs[d])
      BY <1>5, <1>6, <1>7, <2>3
    <3>3. \A d \in tgt[c] : docs'[d] = docs[d]
      BY <1>0, <2>3, <3>1, OnlyJobs DEF DocsOf
    <3> QED BY <2>3, <3>1, <3>2, <3>3 DEF DocsOf, DocsNext, Leftover, LeftNext
  <2> QED BY <1>4, <1>7, <2>1, <2>2, <2>3
<1>8. ASSUME NEW c \in Clients, pc'[c] = "reset", NEW d \in DocsNext(at'[c])
      PROVE  GoneNext(c, d) \/ LeftNext(d)
  <2>1. CASE PurgeDelete(c)
    <3>1. d \in DocsOf(at[c]) /\ (Leftover(d) => LeftNext(d))
      BY <1>3, <1>8, <2>1 DEF PurgeDelete, WriteDocs
    <3>2. d \in tgt[c] \/ Leftover(d)
      BY <2>1, <3>1 DEF PurgeDelete, Purged
    <3> QED BY <2>1, <3>1, <3>2 DEF PurgeDelete, WriteDocs, DocsOf, GoneNext
  <2>2. ~Purge(c)
    BY <1>2, <1>8 DEF Purge, Goto, Procs
  <2>3. CASE ~ClientStep(c) /\ ~PipelineStep(c) /\ pc'[c] = pc[c] /\ at'[c] = at[c]
    <3>1. LeftNext(d) \/ (d \in DocsOf(at[c]) /\ docs'[d] = docs[d])
      BY <1>5, <1>6, <1>8, <2>3
    <3>2. d \in DocsOf(at[c]) => Gone(c, d) \/ Leftover(d)
      BY <1>8, <2>3 DEF Purged
    <3>3. d \in DocsOf(at[c]) /\ Gone(c, d) => GoneNext(c, d)
      BY <1>0, <2>3, DocumentKept DEF Gone, GoneNext, DocsOf, Procs
    <3> QED BY <3>1, <3>2, <3>3 DEF Leftover, LeftNext
  <2> QED BY <1>4, <1>8, <2>1, <2>2, <2>3
<1>9. ASSUME NEW s \in Sources, lock'[s] \in Clients, NEW d \in DocsNext(s)
      PROVE  GoneNext(lock'[s], d) \/ LeftNext(d)
  <2> DEFINE c == lock'[s]
  <2>0. d \in Docs /\ c # None /\ c \in Clients /\ c \in Procs
    BY <1>9 DEF DocsNext, Procs
  <2>1. CASE lock[s] = c
    <3>1. ~Commit(c) /\ \A P : c \in P => ~Rollback(P)
      BY <2>0, <2>1 DEF Commit, Rollback
    <3>2. d \in DocsOf(s) => Gone(c, d) \/ Leftover(d)
      BY <2>0, <2>1 DEF Purged
    <3>3. d \in DocsOf(s) /\ Gone(c, d) => GoneNext(c, d)
      BY <1>0, <2>0, <3>1, DocumentKept DEF Gone, GoneNext, DocsOf
    <3>4. docs'[d] = docs[d]
      <4>1. ASSUME NEW p \in Procs, docLock[d] = p, docs'[d] = docWork[d], Commit(p) PROVE FALSE
        <5>1. p # c
          BY <3>1, <4>1
        <5>2. CASE docs[d].state = "absent"
          <6>1. pc[p] \in {"chunk", "embed", "commit"} /\ docWork[d].of = Target(p)
            BY <2>0, <4>1, <5>2 DEF IInv, OneNewDocument, Procs
          <6>2. lock[Target(p)] = p
            BY <6>1 DEF IInv, LocksKept, Uploading, JobWriting, Target, Procs
          <6> QED BY <1>9, <2>1, <4>1, <5>1, <6>1, <6>2 DEF DocsNext
        <5>3. CASE docs[d].state # "absent"
          BY <1>9, <4>1, <5>3 DEF PurgedIsOwn, NoDocument, DocsNext, Procs
        <5> QED BY <5>2, <5>3
      <4>2. \A b \in Clients : ~DeleteCommit(b) /\ ~DropCollection(b)
        <5>1. \A b \in Clients : b = c
          BY <2>0 DEF OneUser
        <5>2. pc[c] \notin {"idle", "delete"}
          BY <2>0, <2>1 DEF IInv, RowLocks, Uploading, Writing, Claiming
        <5> QED BY <5>1, <5>2 DEF DeleteCommit, DropCollection
      <4> QED BY <1>0, <2>0, <4>1, <4>2, DocChanges DEF DocChange, SyncCommit, BatchCommit, JobCommit
    <3> QED BY <1>9, <3>2, <3>3, <3>4 DEF DocsNext, DocsOf, Leftover, LeftNext
  <2>2. ASSUME Insert(c), at[c] = s, lock'[s] = c, ~Exists(s)
        PROVE  FALSE
    <3>1. d \notin DocsOf(s)
      BY <2>2 DEF ListedIsLive, DocsOf
    <3>2. UNCHANGED docs
      BY <2>2 DEF Insert, Reject, Rollback, documentRows
    <3> QED BY <1>3, <1>9, <3>1, <3>2
  <2>3. CASE Reset(c) /\ at[c] = s
    <3>1. UNCHANGED <<docs, docWork, docLock>>
      BY <2>0, <2>1, <2>3 DEF Reset, Reject, Rollback, documentRows, IInv, TypeOK, TablesTypeOK
    <3>2. d \in DocsOf(s) /\ (Leftover(d) => LeftNext(d))
      BY <1>3, <1>9, <3>1
    <3>3. Gone(c, d) \/ Leftover(d)
      BY <2>0, <2>3, <3>2 DEF Reset, Purged
    <3> QED BY <3>1, <3>2, <3>3 DEF Gone, GoneNext
  <2>4. ASSUME NEW p \in Procs, PipelineStep(p), Target(p) = s, lock[s] \in {p, None}, lock'[s] = p,
               pc[p] # "parse" => lock[s] = p
        PROVE  lock[s] = c
    BY <2>0, <2>4
       DEF IInv, LocksKept, Uploading, Target, PipelineStep, Parse, AddDocument, ChunkEmpty,
           Chunk, InsertChunks, PipelineFail
  <2>5. lock'[s] = lock[s] \/ WorkChange(s)
    BY <1>0, <2>0, WorkChanges
  <2> HIDE DEF LoneInv, ReaderInv
  <2> QED BY <1>9, <2>0, <2>1, <2>2, <2>3, <2>4, <2>5 DEF WorkChange
<1> QED BY <1>1, <1>7, <1>8, <1>9
\* A deletion stamps everything there is of a source that no job works for.
LEMMA DeletionStep ==
  ASSUME OneUser, LoneInv, [BrowseNext]_browseVars
  PROVE  DeletionKnows'
<1> USE ProcsAssumption DEF LoneInv, ReaderInv
<1>0. [Next]_vars /\ raced \subseteq raced'
  BY IngestUnderneath, RacedStep
<1> DEFINE DocsNext(s) == {d \in Docs : docs'[d].state # "absent" /\ docs'[d].of = s}
           UnsettledNext(s) == job'[s] # "none" \/ row'[s].status = "pending"
<1> SUFFICES ASSUME NEW c \in Clients, pc'[c] = "delete"
             PROVE  /\ row'[at'[c]].status # "absent" /\ tgt'[c] \subseteq DocsNext(at'[c])
                    /\ at'[c] \notin raced' => ~UnsettledNext(at'[c]) /\ tgt'[c] = DocsNext(at'[c])
  BY DEF DeletionKnows, DocsOf, Unsettled, Exists
<1>1. /\ pc \in [Procs -> ClientSteps \cup JobSteps \cup PipelineSteps] /\ c \in Procs
      /\ at \in [Clients -> Sources \cup {None}] /\ tgt \in [Clients -> SUBSET Docs]
  BY DEF IInv, TypeOK, Procs
<1>2. CASE ClientStep(c)
  <2>1. DeleteFind(c)
    <3> HIDE DEF LoneInv, ReaderInv
    <3>1. CASE Insert(c) \/ Reset(c)
      BY <1>1, <3>1 DEF Insert, Reset, Reject, Respond, RowWritten, Goto
    <3> QED BY <1>1, <1>2, <3>1
         DEF ClientStep, SyncFind, BatchFind, Claim, Purge, PurgeDelete, SyncCommit, BatchCommit,
             Reject, StoreBytes, BatchBegin, BatchReject, SaveOne, SaveFail, EnqueueOne, RedisDown,
             DeleteCommit, DropCollection, Abort, Respond, Goto, request
  <2>2. PICK s \in Sources : Exists(s) /\ at'[c] = s /\ tgt'[c] = DocsOf(s)
    BY <1>1, <2>1 DEF DeleteFind
  <2>3. UNCHANGED <<docs, row, job>> /\ pc[c] = "idle"
    BY <2>1 DEF DeleteFind, tables, sourceRows, documentRows, queue
  <2>4. Unsettled(s) => s \in raced'
    <3>1. IngestStep
      BY <2>3 DEF BrowseNext, browseVars, vars
    <3> QED BY <2>2, <2>3, <3>1 DEF IngestStep, Deleting
  <2> QED BY <2>2, <2>3, <2>4 DEF Exists, DocsOf, Unsettled
<1>3. CASE PipelineStep(c)
  BY <1>1, <1>3
     DEF PipelineStep, Parse, AddDocument, ChunkEmpty, Chunk, InsertChunks, PipelineFail, Goto
<1>4. CASE ~ClientStep(c) /\ ~PipelineStep(c)
  <2> DEFINE s == at[c]
  <2>1. pc[c] = "delete" /\ at'[c] = s /\ tgt'[c] = tgt[c]
    BY <1>0, <1>4, RequestStays DEF IInv, request
  <2>2. /\ s \in Sources /\ Exists(s) /\ tgt[c] \subseteq DocsOf(s)
        /\ s \notin raced => ~Unsettled(s) /\ tgt[c] = DocsOf(s)
    BY <2>1 DEF DeletionKnows, IInv, RequestShape, HasTarget
  <2>3. \A d \in Docs : docs'[d] # docs[d] =>
          /\ docs[d].state = "absent" /\ docs'[d].of \in Sources /\ Unsettled(docs'[d].of)
    BY <1>0, <1>4, OnlyJobs
  <2>4. row'[s] # row[s] => row'[s].status # "absent" /\ Unsettled(s)
    BY <1>0, <1>4, <2>2, OnlyJobs, JobWrites DEF Exists
  <2>5. s \notin raced => job'[s] = "none"
    <3>1. s \notin raced => s \notin boot
      BY <2>2 DEF DroppedIsEmpty, JobsOfPending, Unsettled
    <3>2. \A b \in Clients : pc[b] # "enqueue"
      BY <2>1 DEF OneUser
    <3> QED BY <1>0, <2>2, <3>1, <3>2, JobMove DEF IInv, Unsettled
  <2>6. tgt[c] \subseteq DocsNext(s)
    BY <2>2, <2>3 DEF DocsOf
  <2>7. s \notin raced => DocsNext(s) \subseteq tgt[c]
    BY <2>2, <2>3 DEF DocsOf
  <2> HIDE DEF s, DocsNext, LoneInv, ReaderInv
  <2> QED BY <1>0, <2>1, <2>2, <2>4, <2>5, <2>6, <2>7 DEF Exists, Unsettled
<1> QED BY <1>2, <1>3, <1>4

(***************************************************************************)
(* What finds a source.                                                    *)
(***************************************************************************)
\* The commit of a request: what finds its source is the document it has added.
LEMMA RequestPublishes ==
  ASSUME LoneInv, NEW c \in Clients, Commit(c), pc[c] \in {"commit", "record", "publish"},
         NEW s \in Sources, lock[s] = c, s \notin raced
  PROVE  /\ LiveDocs(s)' = NewDocs(c)
         /\ row'[s] = work[s] /\ ~work[s].deleted
         /\ \/ /\ pc[c] = "commit" /\ work[s].status = "completed"
               /\ \E d \in Docs : NewDocs(c) = {d}
            \/ pc[c] = "record" /\ work[s].status = "failed" /\ NewDocs(c) = {}
            \/ pc[c] = "publish" /\ work[s].status = "pending" /\ NewDocs(c) = {} /\ s \in batch[c]
<1> USE ProcsAssumption DEF LoneInv, ReaderInv
<1>0. c \in Procs /\ c # None
  BY DEF Procs
<1>1. row'[s] = work[s] /\ ~work[s].deleted /\ (batch[c] # {} => work[s].status = "pending")
  BY DEF Commit, Rewritten
<1>2. /\ pc[c] = "commit" => work[s].status = "completed"
      /\ pc[c] = "record" => work[s].status = "failed"
      /\ pc[c] = "publish" => s \in batch[c]
  BY <1>0 DEF IInv, WorkVersion, RowLocks, Uploading
<1>3. /\ pc[c] = "commit" => at[c] = s /\ \E d \in Docs : NewDocs(c) = {d}
      /\ pc[c] \in {"record", "publish"} => NewDocs(c) = {}
  BY <1>0 DEF IInv, OneNewDocument, NewDocs, RowLocks, Writing, Claiming
<1>4. ASSUME NEW d \in Docs
      PROVE  (docs'[d].state = "live" /\ docs'[d].of = s) <=> d \in NewDocs(c)
  <2>1. CASE d \in NewDocs(c)
    <3>1. docLock[d] = c /\ docs[d].state = "absent"
      BY <2>1 DEF NewDocs
    <3>2. docWork[d].state = "live" /\ docWork[d].of = at[c] /\ pc[c] = "commit"
      BY <1>0, <3>1 DEF IInv, OneNewDocument, Target
    <3> QED BY <1>3, <2>1, <3>1, <3>2 DEF Commit
  <2>2. CASE d \notin NewDocs(c) /\ docs'[d].state = "live" /\ docs'[d].of = s
    <3>1. docs[d].state = "absent" => docs'[d] = docs[d]
      BY <2>2 DEF Commit, NewDocs
    <3>2. docs[d].state # "absent" /\ docLock[d] = c => docs'[d] = NoDocument
      BY <1>0 DEF PurgedIsOwn, Commit
    <3>3. docs[d].state # "absent" /\ docLock[d] # c /\ docs'[d] = docs[d]
      BY <2>2, <3>1, <3>2 DEF Commit, NoDocument
    <3>4. Gone(c, d) \/ Leftover(d)
      BY <2>2, <3>3 DEF Purged, DocsOf
    <3> QED BY <2>2, <3>3, <3>4 DEF Gone, Leftover
  <2> QED BY <2>1, <2>2
<1>5. LiveDocs(s)' = {d \in Docs : docs'[d].state = "live" /\ docs'[d].of = s}
  BY DEF LiveDocs, DocsOf
<1>6. LiveDocs(s)' = NewDocs(c)
  BY <1>4, <1>5 DEF NewDocs
<1> QED BY <1>1, <1>2, <1>3, <1>6

\* The commit of a job: the same, and nothing has found its source before.
LEMMA JobPublishes ==
  ASSUME LoneInv, NEW s \in Sources, JobCommit(s), lock[s] = s, row'[s] = work[s], s \notin raced
  PROVE  /\ LiveDocs(s) = {} /\ LiveDocs(s)' = NewDocs(s)
         /\ \E d \in Docs : NewDocs(s) = {d}
         /\ row[s].status = "pending" /\ ~row[s].deleted
         /\ row'[s].status = "completed" /\ ~row'[s].deleted
<1> USE ProcsAssumption DEF LoneInv, ReaderInv
<1>0. s \in Procs /\ s # None /\ s \notin Clients
  BY DEF Procs
<1>1. row[s].status = "pending" /\ ~row[s].deleted /\ ~row'[s].deleted
  BY JobWrites
<1>2. LiveDocs(s) = {}
  BY <1>1 DEF Shelved
<1>3. work[s].status = "completed" /\ \E d \in Docs : NewDocs(s) = {d}
  BY <1>0 DEF JobCommit, IInv, WorkVersion, OneNewDocument
<1>4. ASSUME NEW d \in Docs
      PROVE  (docs'[d].state = "live" /\ docs'[d].of = s) <=> d \in NewDocs(s)
  <2>1. CASE docLock[d] = s
    <3>1. docs[d].state = "absent"
      BY <1>0, <2>1 DEF PurgedIsOwn
    <3>2. docWork[d].state = "live" /\ docWork[d].of = s
      BY <1>0, <2>1, <3>1 DEF IInv, OneNewDocument, Target
    <3> QED BY <2>1, <3>1, <3>2 DEF JobCommit, Commit, NewDocs
  <2>2. CASE docLock[d] # s
    BY <1>2, <2>2 DEF JobCommit, Commit, NewDocs, LiveDocs, DocsOf
  <2> QED BY <2>1, <2>2
<1>5. LiveDocs(s)' = {d \in Docs : docs'[d].state = "live" /\ docs'[d].of = s}
  BY DEF LiveDocs, DocsOf
<1>6. LiveDocs(s)' = NewDocs(s)
  BY <1>4, <1>5 DEF NewDocs
<1> QED BY <1>1, <1>2, <1>3, <1>6

\* Any other step but a deletion leaves what finds the source.
LEMMA ShelfStays ==
  ASSUME LoneInv, [Next]_vars, NEW s \in Sources, s \notin raced,
         \A c \in Clients : SyncCommit(c) \/ BatchCommit(c) => lock[s] # c,
         ~(JobCommit(s) /\ lock[s] = s /\ row'[s] = work[s]),
         \A c \in Clients : DeleteCommit(c) => at[c] # s \/ UNCHANGED tables,
         \A c \in Clients : ~DropCollection(c)
  PROVE  /\ LiveDocs(s)' = LiveDocs(s)
         /\ \/ row'[s] = row[s]
            \/ /\ JobFail(s) /\ row[s].status = "pending" /\ ~row[s].deleted
               /\ row'[s].status = "failed" /\ ~row'[s].deleted
<1> USE ProcsAssumption DEF LoneInv, ReaderInv
<1>1. ASSUME NEW d \in Docs, docs'[d] # docs[d]
      PROVE  /\ ~(docs[d].state = "live" /\ docs[d].of = s)
             /\ ~(docs'[d].state = "live" /\ docs'[d].of = s)
  <2>1. ASSUME NEW p \in Procs, docLock[d] = p, docs'[d] = docWork[d],
               \/ p \in Clients /\ (SyncCommit(p) \/ BatchCommit(p))
               \/ p \in Sources /\ JobCommit(p)
        PROVE  /\ ~(docs[d].state = "live" /\ docs[d].of = s)
               /\ ~(docs'[d].state = "live" /\ docs'[d].of = s)
    <3>0. p # None /\ lock[s] # p /\ pc[p] # "reset"
      <4>1. JobCommit(p) /\ lock[s] = p => JobCommit(s) /\ lock[s] = s /\ row'[s] = work[s]
        BY <2>1 DEF IInv, RowLocks, JobCommit, Commit, Procs
      <4> QED BY <2>1, <4>1 DEF SyncCommit, BatchCommit, JobCommit, Procs
    <3>1. CASE docs[d].state = "absent"
      <4>1. pc[p] \in {"chunk", "embed", "commit"} /\ docWork[d].of = Target(p)
        BY <2>1, <3>0, <3>1 DEF IInv, OneNewDocument
      <4>2. lock[Target(p)] = p
        BY <2>1, <4>1 DEF IInv, LocksKept, Uploading, JobWriting, Target, Procs
      <4> QED BY <2>1, <3>0, <3>1, <4>1, <4>2
    <3>2. CASE docs[d].state # "absent"
      <4>1. docWork[d] = NoDocument /\ lock[docs[d].of] = p
        BY <2>1, <3>0, <3>2 DEF PurgedIsOwn
      <4> QED BY <2>1, <3>0, <4>1 DEF NoDocument
    <3> QED BY <3>1, <3>2
  <2>2. ASSUME NEW c \in Clients, DeleteCommit(c), d \in tgt[c], docs'[d] = Stamped(docs[d])
        PROVE  /\ ~(docs[d].state = "live" /\ docs[d].of = s)
               /\ ~(docs'[d].state = "live" /\ docs'[d].of = s)
    <3>1. d \in DocsOf(at[c])
      BY <2>2 DEF DeletionKnows, DeleteCommit
    <3>2. docs[d] \in Document /\ docs[d].of = at[c]
      BY <3>1 DEF DocsOf, IInv, TypeOK, TablesTypeOK
    <3>3. at[c] # s
      BY <1>1, <2>2 DEF tables, documentRows
    <3> QED BY <2>2, <3>2, <3>3 DEF Stamped, Document
  <2>3. DocChange(d)
    BY <1>1, DocChanges
  <2> HIDE DEF LoneInv, ReaderInv
  <2> QED BY <2>1, <2>2, <2>3 DEF DocChange
<1>2. LiveDocs(s)' = {d \in Docs : docs'[d].state = "live" /\ docs'[d].of = s}
  BY DEF LiveDocs, DocsOf
<1>3. LiveDocs(s) = {d \in Docs : docs[d].state = "live" /\ docs[d].of = s}
  BY DEF LiveDocs, DocsOf
<1>4. LiveDocs(s)' = LiveDocs(s)
  BY <1>1, <1>2, <1>3
<1>5. ASSUME row'[s] # row[s]
      PROVE  /\ JobFail(s) /\ row[s].status = "pending" /\ ~row[s].deleted
             /\ row'[s].status = "failed" /\ ~row'[s].deleted
  <2>1. /\ JobFail(s) /\ lock[s] = None /\ Exists(s)
        /\ row'[s] = [row[s] EXCEPT !.status = "failed"]
    <3>1. RowChange(s)
      BY <1>5, RowChanges
    <3>2. \A c \in Clients : ~(DeleteCommit(c) /\ at[c] = s /\ row'[s] = [row[s] EXCEPT !.deleted = TRUE])
      BY <1>5 DEF tables, sourceRows
    <3> HIDE DEF LoneInv, ReaderInv
    <3> QED BY <3>1, <3>2 DEF RowChange
  <2>2. row[s] \in Source
    BY DEF IInv, TypeOK, TablesTypeOK
  <2> QED BY <2>1, <2>2, JobWrites DEF Source
<1> QED BY <1>4, <1>5

\* A deletion: nothing finds the source any more.
LEMMA DeletionHides ==
  ASSUME LoneInv, NEW c \in Clients, DeleteCommit(c), NEW s \in Sources, at[c] = s,
         s \notin raced, ~UNCHANGED tables
  PROVE  /\ LiveDocs(s)' = {}
         /\ row[s].status \in {"completed", "failed"}
         /\ row'[s].deleted /\ row'[s].status = row[s].status
<1> USE ProcsAssumption DEF LoneInv, ReaderInv
<1>1. /\ row' = [row EXCEPT ![s] = [row[s] EXCEPT !.deleted = TRUE]]
      /\ SoftDelete(tgt[c]) /\ UNCHANGED collection
  BY DEF DeleteCommit, WriteThrough
<1>2. Exists(s) /\ ~Unsettled(s) /\ tgt[c] = DocsOf(s)
  BY DEF DeletionKnows, DeleteCommit
<1>3. row[s] \in Source /\ docs \in [Docs -> Document] /\ row \in [Sources -> Source]
  BY DEF IInv, TypeOK, TablesTypeOK
<1>4. row[s].status \in {"completed", "failed"}
  BY <1>2 DEF IInv, SettledRows, Settled, Exists, Unsettled
<1>5. row'[s].deleted /\ row'[s].status = row[s].status
  BY <1>1, <1>3 DEF Source
<1>6. ASSUME NEW d \in Docs PROVE ~(docs'[d].state = "live" /\ docs'[d].of = s)
  <2>1. docs'[d] = IF d \in tgt[c] THEN Stamped(docs[d]) ELSE docs[d]
    BY <1>1 DEF SoftDelete, Stamped
  <2> QED BY <1>2, <1>3, <2>1 DEF DocsOf, Stamped, Document
<1>7. LiveDocs(s)' = {d \in Docs : docs'[d].state = "live" /\ docs'[d].of = s}
  BY DEF LiveDocs, DocsOf
<1> QED BY <1>4, <1>5, <1>6, <1>7

\* Each completed source that is not deleted is found by one document, no other by any.
LEMMA ShelvedStep ==
  ASSUME OneUser, LoneInv, [BrowseNext]_browseVars
  PROVE  Shelved'
<1>0. [Next]_vars /\ raced \subseteq raced'
  BY IngestUnderneath, RacedStep DEF LoneInv, ReaderInv
<1> DEFINE OnShelf(s) == IF row[s].status = "completed" /\ ~row[s].deleted
                         THEN \E d \in Docs : LiveDocs(s) = {d} ELSE LiveDocs(s) = {}
<1> SUFFICES ASSUME NEW s \in Sources, s \notin raced
             PROVE  OnShelf(s)'
  BY <1>0 DEF Shelved
<1>1. OnShelf(s)
  BY DEF LoneInv, Shelved
<1>2. CASE \E c \in Clients : (SyncCommit(c) \/ BatchCommit(c)) /\ lock[s] = c
  <2>1. PICK c \in Clients : /\ Commit(c) /\ pc[c] \in {"commit", "record", "publish"}
                             /\ lock[s] = c
    BY <1>2 DEF SyncCommit, BatchCommit
  <2> QED BY <2>1, RequestPublishes
<1>3. CASE JobCommit(s) /\ lock[s] = s /\ row'[s] = work[s]
  <2>1. \E d \in Docs : LiveDocs(s)' = {d}
    BY <1>3, JobPublishes
  <2> QED BY <1>3, <2>1, JobPublishes
<1>4. CASE \E c \in Clients : DeleteCommit(c) /\ at[c] = s /\ ~UNCHANGED tables
  <2>1. PICK c \in Clients : DeleteCommit(c) /\ at[c] = s /\ ~UNCHANGED tables
    BY <1>4
  <2> QED BY <2>1, DeletionHides
<1>5. CASE \E c \in Clients : DropCollection(c)
  <2>1. row'[s] = NoSource /\ \A d \in Docs : docs'[d] = NoDocument
    BY <1>5 DEF DropCollection
  <2>2. LiveDocs(s)' = {}
    BY <2>1 DEF LiveDocs, DocsOf, NoDocument
  <2> QED BY <2>1, <2>2 DEF NoSource
<1>6. CASE /\ LiveDocs(s)' = LiveDocs(s)
           /\ \/ row'[s] = row[s]
              \/ row[s].status = "pending" /\ row'[s].status = "failed"
  BY <1>1, <1>6
<1> HIDE DEF OnShelf
<1> QED BY <1>0, <1>2, <1>3, <1>4, <1>5, <1>6, ShelfStays

(***************************************************************************)
(* LoneInv is inductive.                                                   *)
(***************************************************************************)
LEMMA LoneInit == BrowseInit => LoneInv
<1> SUFFICES ASSUME BrowseInit PROVE LoneInv
  OBVIOUS
<1>1. ReaderInv
  BY ReaderInit
<1>2. \A s \in Sources : LiveDocs(s) = {}
  BY DEF BrowseInit, Init, TablesInit, LiveDocs, DocsOf, NoDocument
<1>3. /\ \A s \in Sources : row[s] = NoSource /\ lock[s] = None /\ pc[s] = "idle"
      /\ \A c \in Clients : pc[c] = "idle"
      /\ \A d \in Docs : docs[d].state = "absent"
      /\ boot = {}
  BY DEF BrowseInit, Init, TablesInit, NoDocument, Procs
<1> QED BY <1>1, <1>2, <1>3, ProcsAssumption
        DEF LoneInv, BootFirst, JobsOfPending, LoadedIsCurrent, Rewritten, Purged, PurgedIsOwn,
            DeletionKnows, Shelved, ListedIsLive, PendingHasOwnFile, NoSource, Procs, PipelineSteps

LEMMA LoneStep ==
  ASSUME OneUser, LoneInv, [BrowseNext]_browseVars
  PROVE  LoneInv'
<1>1. [Next]_vars
  BY IngestUnderneath
<1>2. ReaderInv'
  BY ReaderStep DEF LoneInv
<1>3. BootFirst' /\ JobsOfPending' /\ LoadedIsCurrent' /\ Rewritten' /\ PendingHasOwnFile'
  BY <1>1, BootStep, JobsStep, LoadedStep, RewrittenStep, OwnFileStep
<1>4. Purged' /\ PurgedIsOwn' /\ DeletionKnows' /\ Shelved' /\ ListedIsLive'
  BY <1>1, PurgedStep, PurgedIsOwnStep, DeletionStep, ShelvedStep, ListedStep
<1> QED BY <1>2, <1>3, <1>4 DEF LoneInv

THEOREM LoneInvariance ==
  ASSUME OneUser PROVE BrowseSpec => []LoneInv
<1>1. LoneInv /\ [BrowseNext]_browseVars => LoneInv'
  BY LoneStep
<1> QED BY <1>1, LoneInit, PTL DEF BrowseSpec

\* A pending row's own filename leads to its bytes.
THEOREM OwnFile ==
  ASSUME OneUser PROVE BrowseSpec => []PendingHasOwnFile
BY LoneInvariance, PTL DEF LoneInv

\* One document finds a completed source, none any other.
THEOREM IndexMatches ==
  ASSUME OneUser PROVE BrowseSpec => []UnracedMatchesIndex
<1>1. LoneInv => UnracedMatchesIndex
  <2> SUFFICES ASSUME LoneInv PROVE UnracedMatchesIndex
    OBVIOUS
  <2>1. \A d \in Docs : docs[d].chunks => docs[d].state = "live"
    BY DEF LoneInv, ReaderInv, ChunksAreLive
  <2>2. \A d : Cardinality({d}) = 1
    BY FS_Singleton
  <2>3. Cardinality({}) = 0
    BY FS_EmptySet
  <2> QED BY <2>1, <2>2, <2>3 DEF LoneInv, Shelved, UnracedMatchesIndex
<1> QED BY <1>1, LoneInvariance, PTL

\* What is counted is live, and the chunks counted are those a search can reach.
THEOREM ReadersMeet ==
  ASSUME OneUser PROVE BrowseSpec => []ReadersAgree
<1>1. LoneInv => ReadersAgree
  <2> SUFFICES ASSUME LoneInv PROVE ReadersAgree
    OBVIOUS
  <2>1. Counted = {d \in Docs : docs[d].state # "absent" /\ docs[d].of \in Listed}
    BY DEF Counted, DocsOf
  <2>2. \A d \in Counted : docs[d].state = "live"
    BY <2>1 DEF LoneInv, ListedIsLive, Listed
  <2> QED BY <2>1, <2>2 DEF ReadersAgree, Found, CountedByChunk
<1> QED BY <1>1, LoneInvariance, PTL

(***************************************************************************)
(* Steps of Browse as steps of Library.                                    *)
(***************************************************************************)
\* What is listed of s, and finds it, stays.
Same(s) == shelfNow'[s] = shelfNow[s] /\ indexNow'[s] = indexNow[s]

LEMMA ShelfOf ==
  /\ \A s \in Sources :
       /\ shelfNow[s] = IF s \in raced THEN "raced"
                        ELSE IF row[s].deleted THEN "deleted" ELSE row[s].status
       /\ indexNow[s] = IF s \in raced THEN {} ELSE LiveDocs(s)
  /\ \A s \in Sources :
       /\ shelfNow'[s] = IF s \in raced' THEN "raced"
                         ELSE IF row'[s].deleted THEN "deleted" ELSE row'[s].status
       /\ indexNow'[s] = IF s \in raced' THEN {} ELSE LiveDocs(s)'
BY DEF shelfNow, indexNow

LEMMA SourcesPlaced ==
  ASSUME NEW S \in SUBSET Sources, NEW state, NEW D,
         \A s \in S : shelfNow'[s] = state /\ indexNow'[s] = D,
         \A s \in Sources \ S : Same(s)
  PROVE  Shelves!Place(S, state, D)
BY DEF Shelves!Place, Same, shelfNow, indexNow

LEMMA NothingPlaced ==
  ASSUME \A s \in Sources : Same(s), UNCHANGED collection
  PROVE  UNCHANGED Shelves!library
BY DEF Shelves!library, Same, shelfNow, indexNow

\* A source that is neither committed, failed, deleted nor dropped stays, and so does
\* one that is raced.
LEMMA SourceStays ==
  ASSUME LoneInv, [Next]_vars, raced' = raced, NEW s \in Sources,
         s \notin raced =>
           /\ \A c \in Clients : SyncCommit(c) \/ BatchCommit(c) => lock[s] # c
           /\ ~JobCommit(s) /\ ~JobFail(s)
           /\ \A c \in Clients : DeleteCommit(c) => at[c] # s \/ UNCHANGED tables
           /\ \A c \in Clients : ~DropCollection(c)
  PROVE  Same(s)
BY ShelfStays, ShelfOf DEF Same

\* The collection stays, except when it is dropped, and exists while a lock is held.
LEMMA CollectionStays ==
  ASSUME TypeOK, [Next]_vars, \A c \in Clients : ~DropCollection(c)
  PROVE  UNCHANGED collection
BY DEF TypeOK, TablesTypeOK, Next, ClientStep, SyncFind, Insert, Purge, PurgeDelete, Reset,
       SyncCommit, Commit, StoreBytes, BatchBegin, BatchFind, BatchReject, SaveOne, SaveFail,
       BatchCommit, EnqueueOne, RedisDown, DeleteFind, DeleteCommit, Abort, Reject, Rollback,
       JobStep, JobStart, JobFetch, JobFail, JobCommit, JobFinish, JobTimeout, JobRefused,
       ExpireResult, RecoverOne, PipelineStep, Parse, AddDocument, ChunkEmpty, Chunk,
       InsertChunks, PipelineFail, WorkerStop, WorkerBoot, WorkerReady, vars, tables

\* What the user has locked may be uploaded.
LEMMA LockedIsUploadable ==
  ASSUME LoneInv, NEW s \in Sources, lock[s] \in Clients, s \notin raced
  PROVE  collection /\ shelfNow[s] \in {"absent", "failed", "deleted"}
<1>1. collection
  BY ProcsAssumption DEF LoneInv, ReaderInv, DroppedIsEmpty, Procs
<1>2. Free(s)
  BY DEF LoneInv, Rewritten
<1> QED BY <1>1, <1>2, ShelfOf DEF Free, IsReingestable, Exists

\* What a process adds finds nothing yet.
LEMMA NewFindsNothing ==
  ASSUME NEW p, NEW d \in NewDocs(p)
  PROVE  d \in Docs \ UNION {indexNow[t] : t \in Sources}
<1>1. d \in Docs /\ docs[d].state = "absent"
  BY DEF NewDocs
<1>2. \A t \in Sources : d \notin indexNow[t]
  BY <1>1, ShelfOf DEF LiveDocs, DocsOf
<1> QED BY <1>1, <1>2

\* Beginning to delete a source that is not settled is Race, and of another changes nothing.
LEMMA BeginDeletion ==
  ASSUME OneUser, LoneInv, [BrowseNext]_browseVars, NEW c \in Clients,
         pc[c] = "idle", pc'[c] = "delete"
  PROVE  Shelves!LibraryNext \/ UNCHANGED Shelves!library
<1> USE ProcsAssumption DEF LoneInv, ReaderInv
<1>0. [Next]_vars /\ pc \in [Procs -> ClientSteps \cup JobSteps \cup PipelineSteps] /\ c \in Procs
  BY IngestUnderneath DEF IInv, TypeOK, Procs
<1>1. DeleteFind(c)
  <2> HIDE DEF LoneInv, ReaderInv
  <2>1. ~PipelineStep(c)
    BY <1>0 DEF PipelineStep, Parse, AddDocument, ChunkEmpty, Chunk, InsertChunks, PipelineFail
  <2>2. ClientStep(c)
    BY <1>0, <2>1, RequestStays DEF LoneInv, ReaderInv, IInv
  <2> QED BY <1>0, <2>2
        DEF ClientStep, SyncFind, Claim, BatchFind, Insert, Reset, Purge, PurgeDelete, SyncCommit,
            BatchCommit, StoreBytes, BatchBegin, BatchReject, SaveOne, SaveFail, EnqueueOne,
            RedisDown, DeleteCommit, DropCollection, Abort, Goto
<1>2. PICK s \in Sources : Exists(s) /\ at' = [at EXCEPT ![c] = s]
  BY <1>1 DEF DeleteFind
<1>3. UNCHANGED <<collection, row, docs>> /\ at'[c] = s
  BY <1>1, <1>2 DEF DeleteFind, tables, sourceRows, documentRows, IInv, TypeOK
<1>4. raced' = raced \cup (IF Unsettled(s) THEN {s} ELSE {})
  <2>1. IngestStep
    BY <1>0 DEF BrowseNext, browseVars, vars
  <2>2. \A b \in Clients : b = c
    BY DEF OneUser
  <2> QED BY <1>2, <1>3, <2>1, <2>2 DEF IngestStep, Deleting
<1>5. \A t \in Sources : LiveDocs(t)' = LiveDocs(t)
  BY <1>3 DEF LiveDocs, DocsOf
<1>6. \A t \in Sources : t \in raced' <=> t \in raced => Same(t)
  BY <1>3, <1>5, ShelfOf DEF Same
<1>7. CASE s \in raced \/ ~Unsettled(s)
  BY <1>3, <1>4, <1>6, <1>7, NothingPlaced
<1>8. CASE s \notin raced /\ Unsettled(s)
  <2>1. shelfNow[s] # "absent"
    BY <1>2, <1>8, ShelfOf DEF Exists
  <2>2. shelfNow'[s] = "raced" /\ indexNow'[s] = {}
    BY <1>4, <1>8, ShelfOf
  <2>3. Shelves!Place({s}, "raced", {})
    BY <1>4, <1>6, <1>8, <2>2, SourcesPlaced
  <2> QED BY <1>3, <2>1, <2>3 DEF Shelves!Race, Shelves!LibraryNext
<1> QED BY <1>7, <1>8

\* Accepting some contents is a step of the library.
LEMMA AcceptIsAStep ==
  ASSUME NEW S \in SUBSET Sources, S # {}, Shelves!Accept(S)
  PROVE  Shelves!LibraryNext
<1>1. S \in (SUBSET Sources) \ {{}}
  OBVIOUS
<1> QED BY <1>1 DEF Shelves!LibraryNext

\* The commit of a single upload is Upload, of a batch Accept; of raced sources neither.
LEMMA RequestCommitStep ==
  ASSUME OneUser, LoneInv, [Next]_vars, raced' = raced, NEW c \in Clients,
         SyncCommit(c) \/ BatchCommit(c)
  PROVE  Shelves!LibraryNext \/ UNCHANGED Shelves!library
<1> USE ProcsAssumption DEF LoneInv, ReaderInv
<1>1. /\ Commit(c) /\ pc[c] \in {"commit", "record", "publish"} /\ c \in Procs /\ UNCHANGED collection
      /\ pc'[c] # pc[c]
  BY DEF SyncCommit, BatchCommit, Commit, Respond, Goto, Procs, IInv, TypeOK
<1>2. /\ \A b \in Clients : b = c /\ ~DeleteCommit(b) /\ ~DropCollection(b)
      /\ \A s \in Sources : ~JobCommit(s) /\ ~JobFail(s)
  BY <1>1 DEF OneUser, DeleteCommit, DropCollection, JobCommit, JobFail, Goto, IInv, TypeOK, Procs
<1> DEFINE S == {s \in Sources : lock[s] = c /\ s \notin raced}
<1>3. \A s \in Sources \ S : Same(s)
  BY <1>2, SourceStays
<1>4. \A s \in S : /\ shelfNow'[s] = work[s].status /\ indexNow'[s] = NewDocs(c)
                   /\ collection /\ Shelves!Uploadable(s)
  <2>1. ASSUME NEW s \in S PROVE LiveDocs(s)' = NewDocs(c) /\ row'[s] = work[s] /\ ~work[s].deleted
    BY <1>1, <2>1, RequestPublishes
  <2> QED BY <2>1, ShelfOf, LockedIsUploadable DEF Shelves!Uploadable
<1>5. CASE pc[c] = "publish"
  <2>1. \A s \in S : shelfNow'[s] = "pending" /\ indexNow'[s] = {}
    BY <1>1, <1>4, <1>5, RequestPublishes
  <2>2. CASE S = {}
    BY <1>1, <1>3, <2>2, NothingPlaced
  <2>3. CASE S # {}
    <3>1. Shelves!Place(S, "pending", {})
      BY <1>3, <2>1, SourcesPlaced
    <3>2. Shelves!Accept(S)
      BY <1>1, <1>4, <2>3, <3>1 DEF Shelves!Accept
    <3> QED BY <2>3, <3>2, AcceptIsAStep
  <2> QED BY <2>2, <2>3
<1>6. CASE pc[c] \in {"commit", "record"}
  <2>1. at[c] \in Sources /\ lock[at[c]] = c /\ \A s \in Sources : lock[s] = c => s = at[c]
    BY <1>6, <1>1 DEF IInv, RequestShape, HasTarget, LocksKept, Uploading, RowLocks, Writing, Claiming
  <2>2. CASE at[c] \in raced
    BY <1>1, <1>3, <2>1, <2>2, NothingPlaced
  <2>3. CASE at[c] \notin raced
    <3> DEFINE s == at[c]
    <3>1. S = {s}
      BY <2>1, <2>3
    <3>2. \/ work[s].status = "completed" /\ \E d \in Docs : NewDocs(c) = {d}
          \/ work[s].status = "failed" /\ NewDocs(c) = {}
      BY <1>1, <1>6, <2>1, <2>3, RequestPublishes
    <3> HIDE DEF s, S
    <3>3. Shelves!Place({s}, work[s].status, NewDocs(c))
      BY <1>3, <1>4, <2>1, <3>1, SourcesPlaced DEF s
    <3>4. Shelves!Ingested(s)
      BY <3>2, <3>3, NewFindsNothing DEF Shelves!Ingested
    <3>5. Shelves!Upload(s) /\ s \in Sources
      BY <1>1, <1>4, <2>1, <3>1, <3>4 DEF Shelves!Upload, s
    <3> QED BY <3>5 DEF Shelves!LibraryNext
  <2> QED BY <2>2, <2>3
<1> QED BY <1>1, <1>5, <1>6

\* The end of a job is Settle, or changes nothing that is not raced.
LEMMA JobEndStep ==
  ASSUME OneUser, LoneInv, [Next]_vars, raced' = raced, NEW s \in Sources,
         JobCommit(s) \/ JobFail(s)
  PROVE  Shelves!LibraryNext \/ UNCHANGED Shelves!library
<1> USE ProcsAssumption DEF LoneInv, ReaderInv
<1>1. /\ \A c \in Clients : pc'[c] = pc[c]
      /\ \A t \in Sources \ {s} : ~JobCommit(t) /\ ~JobFail(t)
      /\ UNCHANGED collection
  BY DEF JobCommit, JobFail, Commit, Goto, IInv, TypeOK, Procs
<1>2. \A c \in Clients : /\ ~SyncCommit(c) /\ ~BatchCommit(c) /\ ~DeleteCommit(c)
                         /\ ~DropCollection(c)
  <2>1. \A c \in Clients : ~SyncCommit(c) /\ ~BatchCommit(c) /\ ~DeleteCommit(c)
    BY <1>1 DEF SyncCommit, BatchCommit, DeleteCommit, Respond, Goto, IInv, TypeOK, Procs
  <2>2. \A c \in Clients : DropCollection(c) => pc' = pc
    BY DEF DropCollection
  <2>3. pc'[s] # pc[s]
    BY DEF JobCommit, JobFail, Goto, IInv, TypeOK, Procs
  <2> QED BY <2>1, <2>2, <2>3
<1>3. \A t \in Sources \ {s} : Same(t)
  BY <1>1, <1>2, SourceStays
<1>4. CASE s \in raced
  BY <1>1, <1>3, <1>4, SourceStays, NothingPlaced
<1>5. CASE s \notin raced /\ JobCommit(s)
  <2>1. lock[s] = s /\ row'[s] = work[s]
    BY <1>5 DEF JobCommit, Commit, IInv, LocksKept, JobWriting
  <2>2. /\ shelfNow[s] = "pending" /\ shelfNow'[s] = "completed" /\ indexNow'[s] = NewDocs(s)
        /\ \E d \in Docs : NewDocs(s) = {d}
    BY <1>5, <2>1, JobPublishes, ShelfOf
  <2>3. Shelves!Place({s}, "completed", NewDocs(s))
    BY <1>3, <2>2, SourcesPlaced
  <2>4. Shelves!Ingested(s)
    BY <2>2, <2>3, NewFindsNothing DEF Shelves!Ingested
  <2> QED BY <1>1, <2>2, <2>4 DEF Shelves!Settle, Shelves!LibraryNext
<1>6. CASE s \notin raced /\ JobFail(s) /\ Exists(s)
  <2>1. ~JobCommit(s)
    BY <1>6 DEF JobCommit, JobFail
  <2>2. LiveDocs(s)' = LiveDocs(s)
    BY <1>2, <1>6, <2>1, ShelfStays
  <2>3. row[s].status = "pending" /\ ~row[s].deleted /\ row'[s].status = "failed" /\ ~row'[s].deleted
    <3>1. row'[s] # row[s] => row[s].status = "pending" /\ ~row[s].deleted
                               /\ row'[s].status = "failed" /\ ~row'[s].deleted
      BY <1>2, <1>6, <2>1, ShelfStays
    <3>2. pc[s] = "fail" /\ collection
      BY <1>6 DEF JobFail, DroppedIsEmpty
    <3>3. row[s].status = "pending" /\ row[s] \in Source
      BY <1>6, <3>2 DEF JobsOfPending, IInv, TypeOK, TablesTypeOK
    <3>4. row'[s] # row[s]
      BY <1>6, <3>3 DEF JobFail, WriteThrough, Exists, Source, IInv, TypeOK, TablesTypeOK
    <3> QED BY <3>1, <3>4
  <2>4. LiveDocs(s) = {}
    BY <1>6, <2>3 DEF Shelved
  <2>5. shelfNow[s] = "pending" /\ shelfNow'[s] = "failed" /\ indexNow'[s] = {}
    BY <1>6, <2>2, <2>3, <2>4, ShelfOf
  <2>6. Shelves!Place({s}, "failed", {})
    BY <1>3, <2>5, SourcesPlaced
  <2> QED BY <1>1, <2>5, <2>6 DEF Shelves!Ingested, Shelves!Settle, Shelves!LibraryNext
<1>7. CASE s \notin raced /\ JobFail(s) /\ ~Exists(s)
  <2>1. ~JobCommit(s) /\ row'[s] = row[s]
    BY <1>7 DEF JobCommit, JobFail, sourceRows
  <2>2. LiveDocs(s)' = LiveDocs(s)
    BY <1>2, <1>7, <2>1, ShelfStays
  <2>3. Same(s)
    BY <2>1, <2>2, ShelfOf DEF Same
  <2> QED BY <1>1, <1>3, <2>3, NothingPlaced
<1> QED BY <1>4, <1>5, <1>6, <1>7

\* The end of a deletion is Delete, or changes nothing that is not raced.
LEMMA DeletionEndStep ==
  ASSUME OneUser, LoneInv, [Next]_vars, raced' = raced, NEW c \in Clients, DeleteCommit(c),
         ~UNCHANGED tables
  PROVE  Shelves!LibraryNext \/ UNCHANGED Shelves!library
<1> USE ProcsAssumption DEF LoneInv, ReaderInv
<1> DEFINE s == at[c]
<1>1. pc[c] = "delete" /\ pc'[c] = "idle" /\ s \in Sources /\ UNCHANGED collection
  BY DEF DeleteCommit, Respond, Goto, IInv, TypeOK, RequestShape, HasTarget, Procs
<1>2. /\ \A b \in Clients : b = c /\ ~SyncCommit(b) /\ ~BatchCommit(b) /\ ~DropCollection(b)
      /\ \A t \in Sources : ~JobCommit(t) /\ ~JobFail(t)
  BY <1>1 DEF OneUser, SyncCommit, BatchCommit, DropCollection, JobCommit, JobFail, Goto, IInv,
              TypeOK, Procs
<1>3. \A t \in Sources : t # s \/ s \in raced => Same(t)
  BY <1>2, SourceStays
<1>4. CASE s \in raced
  BY <1>1, <1>3, <1>4, NothingPlaced
<1>5. CASE s \notin raced
  <2>1. /\ shelfNow[s] \in {"completed", "failed", "deleted"}
        /\ shelfNow'[s] = "deleted" /\ indexNow'[s] = {}
    BY <1>1, <1>5, DeletionHides, ShelfOf
  <2>2. Shelves!Place({s}, "deleted", {})
    BY <1>1, <1>3, <2>1, SourcesPlaced
  <2> QED BY <1>1, <2>1, <2>2 DEF Shelves!Delete, Shelves!LibraryNext
<1> QED BY <1>4, <1>5

\* Every step of Browse is a step of Library, or changes nothing there.
LEMMA LibraryStep ==
  ASSUME OneUser, LoneInv, [BrowseNext]_browseVars
  PROVE  Shelves!LibraryNext \/ UNCHANGED Shelves!library
<1>0. [Next]_vars
  BY IngestUnderneath
<1>1. CASE \E c \in Clients : pc[c] = "idle" /\ pc'[c] = "delete"
  BY <1>1, BeginDeletion
<1>2. CASE ~\E c \in Clients : pc[c] = "idle" /\ pc'[c] = "delete"
  <2>0. raced' = raced
    BY <1>2, RacedStep DEF LoneInv, ReaderInv
  <2>1. CASE \E c \in Clients : SyncCommit(c) \/ BatchCommit(c)
    BY <1>0, <2>0, <2>1, RequestCommitStep
  <2>2. CASE \E s \in Sources : JobCommit(s) \/ JobFail(s)
    BY <1>0, <2>0, <2>2, JobEndStep
  <2>3. CASE \E c \in Clients : DeleteCommit(c) /\ ~UNCHANGED tables
    BY <1>0, <2>0, <2>3, DeletionEndStep
  <2>4. CASE \E c \in Clients : DropCollection(c)
    <3>1. /\ collection = TRUE /\ collection' = FALSE
          /\ \A s \in Sources : row'[s] = NoSource /\ LiveDocs(s)' = {}
      BY <2>4 DEF DropCollection, LiveDocs, DocsOf, NoDocument, LoneInv, ReaderInv, IInv, TypeOK,
                  TablesTypeOK
    <3> DEFINE S == {s \in Sources : shelfNow[s] # "raced"}
    <3>2. \A s \in Sources : s \in S <=> s \notin raced
      <4>1. \A s \in Sources : row[s].status # "raced"
        BY DEF LoneInv, ReaderInv, IInv, SettledRows, Settled
      <4> QED BY <4>1, ShelfOf
    <3>3. \A s \in S : shelfNow'[s] = "absent" /\ indexNow'[s] = {}
      BY <2>0, <3>1, <3>2, ShelfOf DEF NoSource
    <3>4. \A s \in Sources \ S : Same(s)
      BY <2>0, <3>2, ShelfOf DEF Same
    <3>5. Shelves!Place(S, "absent", {})
      BY <3>3, <3>4, SourcesPlaced
    <3> QED BY <3>1, <3>5 DEF Shelves!Drop, Shelves!LibraryNext
  <2>5. CASE /\ \A c \in Clients : /\ ~SyncCommit(c) /\ ~BatchCommit(c) /\ ~DropCollection(c)
                                   /\ ~(DeleteCommit(c) /\ ~UNCHANGED tables)
             /\ \A s \in Sources : ~JobCommit(s) /\ ~JobFail(s)
    <3>1. \A s \in Sources : Same(s)
      BY <1>0, <2>0, <2>5, SourceStays
    <3>2. UNCHANGED collection
      BY <1>0, <2>5, CollectionStays DEF LoneInv, ReaderInv, IInv
    <3> QED BY <3>1, <3>2, NothingPlaced
  <2> QED BY <2>1, <2>2, <2>3, <2>4, <2>5
<1> QED BY <1>1, <1>2

\* With one user Browse implements Library, whatever fails.
THEOREM LibraryHolds ==
  ASSUME OneUser PROVE BrowseSpec => LibrarySpec
<1>1. BrowseInit => Shelves!LibraryInit
  <2> SUFFICES ASSUME BrowseInit PROVE Shelves!LibraryInit
    OBVIOUS
  <2>1. /\ collection = TRUE /\ \A s \in Sources : row[s] = NoSource /\ LiveDocs(s) = {}
        /\ raced = {}
    BY DEF BrowseInit, Init, TablesInit, LiveDocs, DocsOf, NoDocument
  <2> QED BY <2>1 DEF Shelves!LibraryInit, shelfNow, indexNow, NoSource
<1>2. LoneInv /\ [BrowseNext]_browseVars => [Shelves!LibraryNext]_(Shelves!library)
  BY LibraryStep
<1> QED BY <1>1, <1>2, LoneInvariance, PTL DEF BrowseSpec, LibrarySpec, Shelves!LibrarySpec
(***************************************************************************)
(* The list of sources.                                                    *)
(***************************************************************************)
\* Every step of Listing is a step of Browse or leaves its variables alone.
LEMMA BrowseUnderneath ==
  ASSUME [ListNext]_listVars
  PROVE  [BrowseNext]_browseVars
BY DEF ListNext, ListIngest, IngestStep, BrowseNext, listVars

\* What finds a source stays while the source is not deleted.
LEMMA FoundStays ==
  ASSUME OneUser, LoneInv, [BrowseNext]_browseVars, NEW s \in Sources, s \notin raced',
         s \in Listed, s \in Listed', NEW d \in LiveDocs(s)
  PROVE  d \in LiveDocs(s)' /\ docs'[d] = docs[d] /\ row'[s].status = "completed"
<1> USE ProcsAssumption DEF LoneInv, ReaderInv
<1>0. [Next]_vars /\ s \notin raced /\ d \in Docs
  BY IngestUnderneath, RacedStep DEF LiveDocs, DocsOf
<1>1. row[s].status = "completed" /\ ~row[s].deleted /\ ~row'[s].deleted /\ Exists(s)'
  BY <1>0 DEF Shelved, Listed
<1>2. ~Free(s)
  BY <1>1 DEF Free, IsReingestable, Exists
<1>3. \A c \in Clients : SyncCommit(c) \/ BatchCommit(c) => lock[s] # c
  BY <1>0, <1>2 DEF Rewritten
<1>4. ~(JobCommit(s) /\ lock[s] = s /\ row'[s] = work[s])
  BY <1>0, <1>1, JobPublishes
<1>5. \A c \in Clients : DeleteCommit(c) => at[c] # s \/ UNCHANGED tables
  BY <1>0, <1>1, DeletionHides
<1>6. \A c \in Clients : ~DropCollection(c)
  BY <1>1 DEF DropCollection, Exists, NoSource
<1>7. LiveDocs(s)' = LiveDocs(s) /\ row'[s] = row[s]
  <2> HIDE DEF LoneInv, ReaderInv
  <2>1. /\ LiveDocs(s)' = LiveDocs(s)
        /\ row'[s] = row[s] \/ row[s].status = "pending"
    BY <1>0, <1>3, <1>4, <1>5, <1>6, ShelfStays
  <2> QED BY <1>1, <2>1
<1>8. docs[d].state = "live" /\ docs'[d].state = "live" /\ docs[d] \in Document
  BY <1>7 DEF LiveDocs, DocsOf, IInv, TypeOK, TablesTypeOK
<1>9. DocumentMove(d) /\ docWork[d] \in {docs[d], NoDocument}
  BY <1>0, <1>8, DocumentMoves DEF RemovedAtMost
<1>10. docs'[d] = docs[d]
  <2> HIDE DEF LoneInv, ReaderInv
  <2>1. Stamped(docs[d]).state = "deleted"
    BY <1>8 DEF Stamped, Document
  <2> QED BY <1>8, <1>9, <2>1 DEF DocumentMove, NoDocument
<1> QED BY <1>1, <1>7, <1>10

\* A source that is listed as COMPLETED stays so while it is not deleted.
LEMMA CompletedStays ==
  ASSUME OneUser, LoneInv, [BrowseNext]_browseVars, NEW s \in Sources, s \notin raced',
         s \in Listed, s \in Listed', row[s].status = "completed"
  PROVE  row'[s].status = "completed"
<1>1. s \notin raced
  BY RacedStep DEF LoneInv, ReaderInv
<1>2. \E d \in Docs : LiveDocs(s) = {d}
  BY <1>1 DEF LoneInv, Shelved, Listed
<1> QED BY <1>2, FoundStays

\* While the user works, what the list has found of the sources that are not deleted stays.
LEMMA ListKept ==
  ASSUME OneUser, LoneInv, ListInv, ListIngest
  PROVE  ListInv'
<1> USE DEF ListInv
<1>1. [BrowseNext]_browseVars /\ listing' = listing
  BY DEF ListIngest, BrowseNext
<1>2. gone' \subseteq Sources /\ (listing.step # "idle" => gone' = gone \cup (Listed \ Listed'))
  BY DEF ListIngest, ListTypeOK, Listed
<1>3. ListTypeOK'
  BY <1>1, <1>2 DEF ListTypeOK
<1>4. ASSUME listing.step # "idle", NEW s \in Sources, InList(s), s \notin raced' \cup gone'
      PROVE  StillHolds(s)'
  <2>1. s \notin raced \cup gone
    BY <1>1, <1>2, <1>4, RacedStep DEF LoneInv, ReaderInv
  <2>2. StillHolds(s) /\ s \in Listed
    BY <1>4, <2>1 DEF StillHolds
  <2>3. s \in Listed'
    BY <1>2, <1>4, <2>2
  <2>4. listing.status[s] = "completed" => row'[s].status = "completed"
    BY <1>1, <1>4, <2>2, <2>3, CompletedStays DEF StillHolds
  <2> DEFINE d == listing.document[s]
  <2>5. d # None => d \in LiveDocs(s)' /\ docs'[d] = docs[d]
    BY <1>1, <1>4, <2>2, <2>3, FoundStays DEF StillHolds
  <2>6. d # None => ChunksOf(d)' = ChunksOf(d)
    BY <1>1, <2>5 DEF ChunksOf
  <2> QED BY <1>1, <2>2, <2>3, <2>4, <2>5, <2>6 DEF StillHolds
<1> QED BY <1>1, <1>3, <1>4 DEF InList

\* What is read of tables that stay.
LEMMA SameTables ==
  ASSUME UNCHANGED <<vars, raced>>
  PROVE  /\ UNCHANGED <<row, docs, raced>> /\ Listed' = Listed
         /\ \A s \in Sources : LiveDocs(s)' = LiveDocs(s)
<1>1. UNCHANGED <<row, docs, raced>>
  BY DEF vars, tables, sourceRows, documentRows
<1> QED BY <1>1 DEF Listed, Exists, LiveDocs, DocsOf

\* What the list has found stays while nothing changes, as when a preview is read.
LEMMA ListRests ==
  ASSUME ListInv, UNCHANGED <<vars, raced, listing, gone>>
  PROVE  ListInv'
<1>1. UNCHANGED <<row, docs, raced, listing, gone>> /\ Listed' = Listed
  BY SameTables
<1>2. ASSUME NEW s \in Sources, StillHolds(s) PROVE StillHolds(s)'
  <2>1. LiveDocs(s)' = LiveDocs(s) /\ ChunksOf(listing.document[s])' = ChunksOf(listing.document[s])
    BY <1>1 DEF LiveDocs, DocsOf, ChunksOf
  <2> QED BY <1>1, <1>2, <2>1 DEF StillHolds
<1> QED BY <1>1, <1>2 DEF ListInv, ListTypeOK, InList

\* Each statement of the list finds what StillHolds says.
LEMMA ListRead ==
  ASSUME LoneInv, ListInv, ListStep, UNCHANGED browseVars
  PROVE  ListInv'
<1> USE BrowseAssumption DEF ListInv
<1>0. /\ UNCHANGED <<row, docs, raced>> /\ Listed' = Listed
      /\ \A s \in Sources : LiveDocs(s)' = LiveDocs(s)
  BY SameTables DEF browseVars
<1>1. row \in [Sources -> Source] /\ docs \in [Docs -> Document] /\ None \notin Docs
  BY DEF LoneInv, ReaderInv, IInv, TypeOK, TablesTypeOK
<1>2. CASE ListSources
  <2>1. /\ listing'.step = "documents" /\ gone' = {}
        /\ listing'.status = [s \in Sources |-> IF s \in Listed THEN row[s].status ELSE "absent"]
        /\ listing'.document = [s \in Sources |-> None] /\ listing'.count = [s \in Sources |-> 0]
    BY <1>2 DEF ListSources, NoListing
  <2>2. listing' = [step |-> "documents", status |-> listing'.status,
                    document |-> listing'.document, count |-> listing'.count]
    BY <1>2 DEF ListSources, NoListing
  <2>3. \A s \in Sources : row[s].status \in IngestStatus
    BY <1>1 DEF Source
  <2>4. ListTypeOK'
    BY <2>1, <2>2, <2>3 DEF ListTypeOK, IngestStatus, Settled
  <2>5. ASSUME NEW s \in Sources, InList(s)'
        PROVE  s \in Listed /\ listing'.status[s] = row[s].status
    BY <2>1, <2>5 DEF InList
  <2> QED BY <1>0, <2>1, <2>4, <2>5 DEF StillHolds
<1>3. CASE ListDocuments
  <2>1. PICK shown \in [Sources -> Docs \cup {None}] :
          /\ \A s \in Sources : IF InList(s) /\ DocsOf(s) # {} THEN shown[s] \in DocsOf(s)
                                ELSE shown[s] = None
          /\ listing' = [listing EXCEPT !.step = "chunks", !.document = shown]
    BY <1>3 DEF ListDocuments
  <2>2. /\ listing'.step = "chunks" /\ listing'.status = listing.status
        /\ listing'.document = shown /\ listing'.count = listing.count
        /\ gone' = gone /\ listing.step = "documents"
    BY <1>3, <2>1 DEF ListDocuments, ListTypeOK
  <2>3. ListTypeOK'
    BY <2>1, <2>2 DEF ListTypeOK
  <2>4. ASSUME NEW s \in Sources, InList(s), s \notin raced \cup gone
        PROVE  StillHolds(s)'
    <3>1. StillHolds(s)
      BY <2>2, <2>4
    <3>2. s \in Listed /\ ~row[s].deleted
      BY <3>1 DEF StillHolds, Listed
    <3>3. DocsOf(s) = LiveDocs(s)
      BY <3>2 DEF LoneInv, ListedIsLive, DocsOf, LiveDocs
    <3>4. row[s].status = "completed" => DocsOf(s) # {}
      BY <2>4, <3>2, <3>3 DEF LoneInv, Shelved
    <3>5. shown[s] # None => shown[s] \in LiveDocs(s)
      BY <2>1, <2>4, <3>3
    <3>6. row[s].status = "completed" => shown[s] # None
      BY <1>1, <2>1, <2>4, <3>4 DEF DocsOf
    <3> QED BY <1>0, <2>2, <3>1, <3>2, <3>5, <3>6 DEF StillHolds
  <2>5. ASSUME NEW s \in Sources, ~InList(s)
        PROVE  listing'.document[s] = None /\ listing'.count[s] = 0
    BY <2>1, <2>2, <2>5
  <2> QED BY <1>0, <2>2, <2>3, <2>4, <2>5 DEF InList
<1>4. CASE ListChunks
  <2>1. /\ listing'.step = "answer" /\ listing'.status = listing.status
        /\ listing'.document = listing.document /\ listing'.count = CountShown
        /\ gone' = gone /\ listing.step = "chunks"
    BY <1>4 DEF ListChunks, ListTypeOK
  <2>2. CountShown \in [Sources -> {0, ChunkTotal}]
    BY DEF CountShown, ChunksOf
  <2>3. ListTypeOK'
    BY <1>4, <2>1, <2>2 DEF ListChunks, ListTypeOK
  <2>4. \A s \in Sources : CountShown[s] = IF listing.document[s] = None THEN 0
                                          ELSE ChunksOf(listing.document[s])
    BY DEF CountShown
  <2>5. \A s \in Sources : ChunksOf(listing.document[s])' = ChunksOf(listing.document[s])
    BY <1>0, <2>1 DEF ChunksOf
  <2>6. ASSUME NEW s \in Sources, StillHolds(s) PROVE StillHolds(s)'
    BY <1>0, <2>1, <2>4, <2>5, <2>6 DEF StillHolds
  <2>7. ASSUME NEW s \in Sources, ~InList(s)
        PROVE  listing'.document[s] = None /\ listing'.count[s] = 0
    BY <2>1, <2>4, <2>7
  <2> QED BY <1>0, <2>1, <2>3, <2>6, <2>7 DEF InList
<1>5. CASE ListAnswer
  <2>1. listing' = NoListing /\ gone' = {}
    BY <1>5 DEF ListAnswer
  <2> QED BY <2>1 DEF ListTypeOK, NoListing, IngestStatus, Settled
<1> QED BY <1>2, <1>3, <1>4, <1>5 DEF ListStep

\* A list shows what is, of the sources that are not deleted while it is made.
THEOREM ListTellsTruth ==
  ASSUME OneUser PROVE ListSpec => []ListingHolds
<1>1. ListInit => LoneInv /\ ListInv
  <2>1. ListInit => ListInv
    BY BrowseAssumption
       DEF ListInit, ListInv, ListTypeOK, NoListing, IngestStatus, Settled
  <2> QED BY <2>1, LoneInit DEF ListInit
<1>2. LoneInv /\ ListInv /\ [ListNext]_listVars => (LoneInv /\ ListInv)'
  <2> SUFFICES ASSUME LoneInv, ListInv, [ListNext]_listVars PROVE LoneInv' /\ ListInv'
    OBVIOUS
  <2>1. LoneInv'
    BY BrowseUnderneath, LoneStep
  <2>2. CASE UNCHANGED <<vars, raced, listing, gone>>
    BY <2>1, <2>2, ListRests
  <2>3. CASE ListIngest
    BY <2>1, <2>3, ListKept
  <2>4. CASE ListStep /\ UNCHANGED browseVars
    BY <2>1, <2>4, ListRead
  <2> QED BY <2>2, <2>3, <2>4 DEF ListNext, listVars, browseVars
<1>3. LoneInv /\ ListInv => ListingHolds
  <2> SUFFICES ASSUME LoneInv, ListInv, listing.step = "answer",
                      NEW s \in Sources \ (raced \cup gone)
               PROVE  LET d == listing.document[s] IN
                      /\ listing.status[s] = "completed" =>
                           LiveDocs(s) = {d} /\ listing.count[s] = ChunksOf(d)
                      /\ listing.count[s] > 0 => d \in Found
    BY DEF ListingHolds
  <2> DEFINE d == listing.document[s]
  <2>0. CASE ~InList(s)
    BY <2>0 DEF ListInv, InList
  <2> SUFFICES ASSUME InList(s)
               PROVE  /\ listing.status[s] = "completed" =>
                           LiveDocs(s) = {d} /\ listing.count[s] = ChunksOf(d)
                      /\ listing.count[s] > 0 => d \in Found
    BY <2>0
  <2>1. StillHolds(s)
    BY DEF ListInv
  <2>2. listing.status[s] = "completed" => d # None /\ \E e \in Docs : LiveDocs(s) = {e}
    BY <2>1 DEF StillHolds, LoneInv, Shelved, Listed
  <2>3. listing.count[s] > 0 => d # None /\ docs[d].chunks
    BY <2>1, BrowseAssumption DEF StillHolds, ChunksOf
  <2> QED BY <2>1, <2>2, <2>3 DEF StillHolds, Found, LiveDocs, DocsOf
<1> QED BY <1>1, <1>2, <1>3, PTL DEF ListSpec
=============================================================================
