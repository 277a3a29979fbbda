------------------------------ MODULE IngestInv ------------------------------
(***************************************************************************)
(* The inductive invariant of Ingest: what holds of a request or a job at  *)
(* each of its steps, and of a row version while its lock is held.         *)
(***************************************************************************)
EXTENDS Ingest

HasTarget == {"insert", "purge", "purging", "reset", "parse", "document", "chunk",
              "embed", "commit", "record", "store", "delete"}
Alone == {"idle", "parse", "document", "chunk", "embed", "commit", "record", "store",
          "delete"}
Claiming == {"insert", "purge", "purging", "reset"}
Writing == {"next", "save", "publish"} \cup Claiming
Uploading == {"parse", "document", "chunk", "embed", "commit", "record"}
JobWriting == {"document", "chunk", "embed", "commit"}

\* What a request knows at each of its steps.
RequestShape ==
  \A c \in Clients :
    /\ pc[c] \in ClientSteps \cup PipelineSteps
    /\ pc[c] \in HasTarget => at[c] \in Sources
    /\ pc[c] \notin {"idle", "delete"} => name[c] \in Names
    /\ pc[c] \in Alone => batch[c] = {}
    /\ todo[c] \subseteq batch[c]
    /\ pc[c] \in Claiming /\ batch[c] # {} => at[c] \in todo[c]

JobShape ==
  \A s \in Sources :
    /\ pc[s] \in JobSteps \cup PipelineSteps
    /\ pc[s] # "idle" => job[s] = "running"

\* An unlocked row has one version.
OneVersion ==
  /\ \A s \in Sources : lock[s] = None => work[s] = row[s]
  /\ \A d \in Docs : docLock[d] = None => docWork[d] = docs[d]

\* Who holds a row lock, and at which of its steps.
RowLocks ==
  \A s \in Sources :
    /\ lock[s] \in Clients =>
         \/ /\ at[lock[s]] = s /\ batch[lock[s]] = {}
            /\ pc[lock[s]] \in Uploading
         \/ s \in batch[lock[s]] /\ pc[lock[s]] \in Writing
    /\ lock[s] \in Sources => lock[s] = s /\ pc[s] \in JobWriting

\* A process that has written a row keeps its lock until its transaction ends.
LocksKept ==
  /\ \A c \in Clients :
       /\ pc[c] \in Uploading => lock[at[c]] = c
       /\ pc[c] \in {"next"} \cup Claiming => \A s \in batch[c] \ todo[c] : lock[s] = c
       /\ pc[c] \in {"save", "publish"} => \A s \in batch[c] : lock[s] = c
  /\ \A s \in Sources : pc[s] \in JobWriting => lock[s] = s

\* The uncommitted version of a locked row.
WorkVersion ==
  \A s \in Sources : lock[s] # None =>
    /\ work[s].status # "absent"
    /\ pc[lock[s]] = "commit" => work[s].status = "completed"
    /\ pc[lock[s]] = "record" => work[s].status = "failed"
    /\ lock[s] \in Clients /\ pc[lock[s]] \in Writing =>
         \/ work[s].status = "pending"
         \/ work[s].status = row[s].status
    /\ lock[s] \in Sources => work[s].deleted = row[s].deleted

\* The bytes of a batch are on disk before its commit.
BytesFirst ==
  \A c \in Clients :
    /\ pc[c] = "save" => \A s \in batch[c] \ todo[c] : <<s, name[c]>> \in files
    /\ pc[c] = "publish" => \A s \in batch[c] : <<s, name[c]>> \in files

\* What is about to be enqueued is durable.
DurableFirst ==
  collection =>
    /\ \A c \in Clients : pc[c] = "enqueue" => \A s \in todo[c] : Exists(s)
    /\ \A s \in boot : Exists(s)

\* A pipeline has one uncommitted document from its "document" step on.
OneNewDocument ==
  /\ \A p \in Procs : pc[p] \in {"chunk", "embed", "commit"} =>
       \E d \in Docs : NewDocs(p) = {d}
  /\ \A d \in Docs : docs[d].state = "absent" /\ docLock[d] # None =>
       /\ pc[docLock[d]] \in {"chunk", "embed", "commit"}
       /\ docWork[d].state = "live" /\ docWork[d].of = Target(docLock[d])

IInv ==
  /\ TypeOK /\ RequestShape /\ JobShape
  /\ OneVersion /\ RowLocks /\ LocksKept /\ WorkVersion
  /\ SettledRows
  /\ BytesFirst /\ PendingHasBytes
  /\ DurableFirst /\ JobsAreDurable
  /\ OneNewDocument

-----------------------------------------------------------------------------
(* When nothing goes wrong but the locks, and nothing is deleted or kept    *)
(* from a worker, each accepted source has its turn.                        *)

Calm == Faults = {} /\ "delete" \notin Routes

\* Nothing is left, and nothing is written, in a collection that is gone.
DroppedIsEmpty == ~collection => \A s \in Sources : ~Exists(s) /\ lock[s] = None

\* Nothing is retried or cut short, and a job fails only in a collection that is gone.
Undisturbed ==
  /\ \A c \in Clients : pc[c] \notin {"purge", "purging", "reset", "record", "delete"}
  /\ \A s \in Sources : job[s] # "interrupted" /\ (pc[s] = "fail" => ~collection)
  /\ up = "up" /\ boot = {}

\* A request writes new rows only, under the name it saves the bytes by.
NewRows ==
  \A s \in Sources :
    /\ row[s].status # "failed" /\ ~row[s].deleted
    /\ lock[s] \in Clients =>
         /\ ~Exists(s) /\ ~work[s].deleted
         /\ batch[lock[s]] # {} => work[s].name = name[lock[s]]
    /\ lock[s] \in Sources => work[s].name = row[s].name

\* What a batch is about to enqueue has no job and no result, and no other batch has it.
FirstJob ==
  \A c \in Clients : pc[c] = "enqueue" => \A s \in todo[c] :
    /\ job[s] = "none" /\ s \notin result
    /\ collection => row[s].status = "pending"
    /\ \A b \in Clients \ {c} : pc[b] = "enqueue" => s \notin todo[b]

\* A job finds its row pending and its file in place, and ends by completing it.
JobsComplete ==
  collection => \A s \in Sources :
    /\ job[s] = "queued" \/ pc[s] \in {"fetch"} \cup PipelineSteps => row[s].status = "pending"
    /\ pc[s] = "done" \/ s \in result => row[s].status = "completed"
    /\ pc[s] = "fetch" => seen[s] = row[s]
    /\ row[s].status = "pending" => <<s, row[s].name>> \in files

CalmInv ==
  /\ IInv /\ DroppedIsEmpty /\ Undisturbed /\ NewRows /\ FirstJob /\ JobsComplete
  /\ PendingIsScheduled
=============================================================================
