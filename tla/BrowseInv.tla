------------------------------ MODULE BrowseInv ------------------------------
(***************************************************************************)
(* The inductive invariants of Browse.  ReaderInv holds for any number of  *)
(* clients; LoneInv adds what holds when there is one: what a request has  *)
(* read of a source stays true until it is done.                           *)
(***************************************************************************)
EXTENDS Browse, IngestInv

OneUser == \A b, c \in Clients : b = c

-----------------------------------------------------------------------------
(* For any number of clients.                                              *)

\* Chunks belong to live documents, committed or not.
ChunksAreLive ==
  \A d \in Docs : /\ docs[d].chunks => docs[d].state = "live"
                  /\ docWork[d].chunks => docWork[d].state = "live"

\* A committed document is only ever removed by a transaction that holds it.
RemovedAtMost ==
  \A d \in Docs : docs[d].state # "absent" => docWork[d] \in {docs[d], NoDocument}

\* A preview's document never gains chunks.
PreviewKnows ==
  /\ preview.step \in {"document", "count", "chunks"} => preview.of \in Sources
  /\ preview.step \in {"count", "chunks"} =>
       /\ preview.document \in Docs
       /\ docs[preview.document].state = "absent" => docWork[preview.document].state = "absent"
  /\ preview.step = "chunks" /\ preview.count = 0 => ~docs[preview.document].chunks
  /\ preview.step = "answer" => preview.shown <= preview.count

ReaderInv == IInv /\ BrowseTypeOK /\ ChunksAreLive /\ RemovedAtMost /\ PreviewKnows /\ DroppedIsEmpty

-----------------------------------------------------------------------------
(* For one.                                                                *)

\* Source s is not there, or may be uploaded again.
Free(s) == ~Exists(s) \/ IsReingestable(row[s])

\* The worker starts no job before it has read and enqueued the pending sources.
BootFirst ==
  /\ up # "up" => \A s \in Sources : pc[s] = "idle"
  /\ boot # {} => up = "boot"

\* A job that may still change its source finds it pending, and what is deleted has
\* none; a job that is queued late finds its source settled and does nothing.
JobsOfPending ==
  collection => \A s \in Sources \ raced :
    /\ pc[s] \in {"fetch", "fail"} \cup PipelineSteps \/ s \in boot => row[s].status = "pending"
    /\ row[s].deleted => row[s].status # "pending" /\ job[s] = "none"
    /\ \A c \in Clients : pc[c] = "enqueue" /\ s \in todo[c] => ~row[s].deleted

\* What a request has loaded of a row is still so when it resets it.
LoadedIsCurrent ==
  \A c \in Clients :
    /\ pc[c] = "insert" => ~Exists(at[c])
    /\ pc[c] \in {"purge", "purging", "reset"} =>
         /\ Exists(at[c])
         /\ seen[c].name = row[at[c]].name /\ seen[c].deleted = row[at[c]].deleted
         /\ at[c] \notin raced => seen[c] = row[at[c]] /\ Free(at[c])

\* The uncommitted version of a row that a request has written, or a job.
Rewritten ==
  \A s \in Sources :
    /\ lock[s] \in Clients =>
         /\ batch[lock[s]] # {} => work[s].name = name[lock[s]]
         /\ s \notin raced =>
              /\ Free(s) /\ ~work[s].deleted
              /\ batch[lock[s]] # {} => work[s].status = "pending"
    /\ lock[s] \in Sources => work[s].name = row[s].name

\* Document d will be gone when c commits.
Gone(c, d) == docLock[d] = c /\ docWork[d] = NoDocument

\* Document d came from a job that ran on after its source was deleted.
Leftover(d) == docs[d].state = "live" /\ docs[d].of \in raced

\* A retry has purged everything there was of its source.
Purged ==
  /\ \A c \in Clients :
       /\ pc[c] = "purging" =>
            tgt[c] \subseteq DocsOf(at[c]) /\ \A d \in DocsOf(at[c]) \ tgt[c] : Leftover(d)
       /\ pc[c] = "reset" => \A d \in DocsOf(at[c]) : Gone(c, d) \/ Leftover(d)
  /\ \A s \in Sources : lock[s] \in Clients =>
       \A d \in DocsOf(s) : Gone(lock[s], d) \/ Leftover(d)

\* Only a retry holds committed documents, and those of the source it is about.
PurgedIsOwn ==
  \A d \in Docs : docs[d].state # "absent" /\ docLock[d] # None =>
    LET c == docLock[d] IN
    /\ c \in Clients /\ docWork[d] = NoDocument
    /\ lock[docs[d].of] = c \/ (pc[c] = "reset" /\ at[c] = docs[d].of)

\* A deletion has found everything there is of its source.
DeletionKnows ==
  \A c \in Clients : pc[c] = "delete" =>
    /\ Exists(at[c]) /\ tgt[c] \subseteq DocsOf(at[c])
    /\ at[c] \notin raced => ~Unsettled(at[c]) /\ tgt[c] = DocsOf(at[c])

\* A source is found by one document exactly while it is listed as COMPLETED.
Shelved ==
  \A s \in Sources \ raced :
    IF row[s].status = "completed" /\ ~row[s].deleted
    THEN \E d \in Docs : LiveDocs(s) = {d} ELSE LiveDocs(s) = {}

\* Documents belong to rows, and a row that is not deleted has no deleted ones.
ListedIsLive ==
  \A d \in Docs : docs[d].state # "absent" =>
    /\ docs[d].of \in Sources /\ Exists(docs[d].of)
    /\ docs[d].state # "live" => row[docs[d].of].deleted

LoneInv ==
  /\ ReaderInv
  /\ BootFirst /\ JobsOfPending /\ LoadedIsCurrent /\ Rewritten
  /\ Purged /\ PurgedIsOwn /\ DeletionKnows
  /\ Shelved /\ ListedIsLive /\ PendingHasOwnFile
=============================================================================
