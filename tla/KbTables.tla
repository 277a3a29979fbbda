------------------------------ MODULE KbTables ------------------------------
(***************************************************************************)
(* The rows of one knowledge-base collection in PostgreSQL, as concurrent  *)
(* transactions see them at READ COMMITTED (the level db/session.py runs   *)
(* at).                                                                    *)
(*                                                                         *)
(* A row has a committed version (row, docs) and, while a transaction      *)
(* holds its lock, that transaction's own version (work, docWork).  Every  *)
(* SELECT reads committed versions; every write takes the row lock first   *)
(* and waits for a holder to finish.  Unlocked rows have work = row.       *)
(*                                                                         *)
(* sources.id, sources.content_hash and the ARQ job id are one value here: *)
(* inside a collection uq_sources_collection_content_hash makes the hash   *)
(* identify the row, and a source row is only ever destroyed together with *)
(* its collection.                                                         *)
(***************************************************************************)
CONSTANTS
  Sources,   \* file contents, by content_hash
  Clients,   \* API requests that can be in flight at once
  Docs,      \* identities for document rows (bounds the live and purged ones)
  Names,     \* filenames the same content may be uploaded under
  None       \* no lock holder, no source, no filename

\* A background job works on behalf of exactly one source, so the job process
\* of source s is named s.
Procs == Clients \cup Sources

ASSUME ProcsAssumption == Clients \cap Sources = {} /\ None \notin Procs \cup Names

VARIABLES
  collection, \* the collections row still exists
  row,        \* sources: the committed version
  work,       \* sources: the version of the lock holder
  lock,       \* sources: the transaction holding the row lock
  docs,       \* documents and their chunks: the committed version
  docWork,    \* documents: the version of the lock holder
  docLock     \* documents: the transaction holding the row lock

sourceRows == <<row, work, lock>>
documentRows == <<docs, docWork, docLock>>
tables == <<collection, sourceRows, documentRows>>

-----------------------------------------------------------------------------
(* Row shapes.                                                             *)

Settled == {"absent", "pending", "completed", "failed"}
IngestStatus == Settled \cup {"parsing", "chunking", "embedding"}

\* A sources row; "absent" stands for no row.
Source == [status : IngestStatus, deleted : BOOLEAN, name : Names \cup {None}]
NoSource == [status |-> "absent", deleted |-> FALSE, name |-> None]
\* MUTANT of NewSource: inserted with a status of its own, outside the enum.
NewSourceUploaded(n) == [status |-> "uploaded", deleted |-> FALSE, name |-> n]

NewSource(n) == [status |-> "pending", deleted |-> FALSE, name |-> n]

\* A documents row; chunks says whether any chunks row belongs to it.
Document == [state : {"absent", "live", "deleted"}, of : Sources \cup {None},
             chunks : BOOLEAN]
NoDocument == [state |-> "absent", of |-> None, chunks |-> FALSE]

TablesTypeOK ==
  /\ collection \in BOOLEAN
  /\ row \in [Sources -> Source]
  /\ work \in [Sources -> Source]
  /\ lock \in [Sources -> Procs \cup {None}]
  /\ docs \in [Docs -> Document]
  /\ docWork \in [Docs -> Document]
  /\ docLock \in [Docs -> Procs \cup {None}]

TablesInit ==
  /\ collection = TRUE
  /\ row = [s \in Sources |-> NoSource]
  /\ work = row
  /\ lock = [s \in Sources |-> None]
  /\ docs = [d \in Docs |-> NoDocument]
  /\ docWork = docs
  /\ docLock = [d \in Docs |-> None]

-----------------------------------------------------------------------------
(* Reading.                                                                *)

Exists(s) == row[s].status # "absent"
DocsOf(s) == {d \in Docs : docs[d].state # "absent" /\ docs[d].of = s}
LiveDocs(s) == {d \in DocsOf(s) : docs[d].state = "live"}

\* The documents process p has inserted and not yet committed.
NewDocs(p) == {d \in Docs : docLock[d] = p /\ docs[d].state = "absent"}

-----------------------------------------------------------------------------
(* Writing.                                                                *)

\* An INSERT or UPDATE by p that leaves source s as r.
Write(p, s, r) ==
  /\ work' = [work EXCEPT ![s] = r]
  /\ lock' = [lock EXCEPT ![s] = p]
  /\ UNCHANGED row

\* MUTANT of SetStatus: each stage commits its status, for progress reports.
SetStatusCommitted(p, s, st) ==
  /\ work' = [work EXCEPT ![s].status = st]
  /\ row' = [row EXCEPT ![s].status = st]
  /\ lock' = [lock EXCEPT ![s] = p]

SetStatus(p, s, st) == Write(p, s, [work[s] EXCEPT !.status = st])

\* The documents in D become v in p's transaction.
WriteDocs(p, D, v) ==
  /\ docWork' = [d \in Docs |-> IF d \in D THEN v ELSE docWork[d]]
  /\ docLock' = [d \in Docs |-> IF d \in D THEN p ELSE docLock[d]]
  /\ UNCHANGED docs

\* COMMIT by p.
Commit(p) ==
  /\ row' = [s \in Sources |-> IF lock[s] = p THEN work[s] ELSE row[s]]
  /\ lock' = [s \in Sources |-> IF lock[s] = p THEN None ELSE lock[s]]
  /\ docs' = [d \in Docs |-> IF docLock[d] = p THEN docWork[d] ELSE docs[d]]
  /\ docLock' = [d \in Docs |-> IF docLock[d] = p THEN None ELSE docLock[d]]
  /\ UNCHANGED <<collection, work, docWork>>

\* ROLLBACK of every transaction in P: one, or all of a dying process.
Rollback(P) ==
  /\ work' = [s \in Sources |-> IF lock[s] \in P THEN row[s] ELSE work[s]]
  /\ lock' = [s \in Sources |-> IF lock[s] \in P THEN None ELSE lock[s]]
  /\ docWork' = [d \in Docs |-> IF docLock[d] \in P THEN docs[d] ELSE docWork[d]]
  /\ docLock' = [d \in Docs |-> IF docLock[d] \in P THEN None ELSE docLock[d]]
  /\ UNCHANGED <<collection, row, docs>>

\* MUTANT of DropNewDocs: the pipeline runs without a savepoint.
DropNothing(p) == p \in Procs /\ UNCHANGED documentRows

\* ROLLBACK TO a savepoint taken before p inserted its documents: they go, and
\* what p wrote before the savepoint stays in its transaction.
DropNewDocs(p) ==
  /\ docWork' = [d \in Docs |-> IF d \in NewDocs(p) THEN docs[d] ELSE docWork[d]]
  /\ docLock' = [d \in Docs |-> IF d \in NewDocs(p) THEN None ELSE docLock[d]]
  /\ UNCHANGED docs

\* A one-statement transaction on an unlocked row: the UPDATE and its COMMIT.
WriteThrough(s, r) ==
  /\ row' = [row EXCEPT ![s] = r]
  /\ work' = [work EXCEPT ![s] = r]
  /\ UNCHANGED lock

\* MUTANT of SoftDelete: the chunks go, the documents are not stamped.
RemoveChunks(D) ==
  LET Emptied(r) == [r EXCEPT !.chunks = FALSE] IN
  /\ docs' = [d \in Docs |-> IF d \in D THEN Emptied(docs[d]) ELSE docs[d]]
  /\ docWork' = [d \in Docs |-> IF d \in D THEN Emptied(docWork[d]) ELSE docWork[d]]
  /\ UNCHANGED docLock

\* The documents in D are stamped deleted and their chunks removed, likewise.
SoftDelete(D) ==
  LET Deleted(r) == [r EXCEPT !.state = "deleted", !.chunks = FALSE] IN
  /\ docs' = [d \in Docs |-> IF d \in D THEN Deleted(docs[d]) ELSE docs[d]]
  /\ docWork' = [d \in Docs |-> IF d \in D THEN Deleted(docWork[d]) ELSE docWork[d]]
  /\ UNCHANGED docLock
=============================================================================
