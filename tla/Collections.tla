----------------------------- MODULE Collections -----------------------------
(***************************************************************************)
(* The rows of kb_collections and the requests that create and delete      *)
(* them: kb_service.py and the collection routes of api/kb.py.             *)
(*                                                                         *)
(* A row is its unique key (owner, kind, name); the public libraries have  *)
(* no owner.  What a deleted collection takes with it is Ingest's matter.  *)
(***************************************************************************)
CONSTANTS
  Users,     \* principals with a users row
  Strangers, \* well-formed X-User-ID values without one
  Titles,    \* a kind and a name
  Ids,       \* identities for kb_collections rows
  Callers,   \* requests in flight at once
  Seeders,   \* seeding commands in flight at once
  None       \* no row; no owner

ASSUME CollectionsAssumption ==
  /\ Users \cap Strangers = {} /\ Callers \cap Seeders = {}
  /\ None \notin Users \cup Strangers \cup Callers \cup Seeders

VARIABLES
  coll,      \* the committed rows
  inserting, \* the rows an open transaction has inserted, and whose it is
  call       \* the request each caller has in flight

collections == <<coll, inserting, call>>

Row == [owner : Users \cup {None}, title : Titles]
Private(u, t) == [owner |-> u, title |-> t]
Public(t) == [owner |-> None, title |-> t]

Call(step, u, t, i) == [step |-> step, by |-> u, title |-> t, id |-> i]
NoCall == Call("idle", None, None, None)
NoInsert == [by |-> None, row |-> None]

CollectionsTypeOK ==
  /\ coll \in [Ids -> Row \cup {None}]
  /\ inserting \in [Ids -> [by : Callers \cup Seeders, row : Row] \cup {NoInsert}]
  /\ call \in [Callers -> [step : {"idle", "insert", "commit", "delete", "conflict", "unknown"},
                           by : Users \cup Strangers \cup {None},
                           title : Titles \cup {None}, id : Ids \cup {None}]]
  /\ \A c \in Callers : call[c].step = "insert" => call[c].title \in Titles

CollectionsInit ==
  /\ coll = [i \in Ids |-> None]
  /\ inserting = [i \in Ids |-> NoInsert]
  /\ call = [c \in Callers |-> NoCall]

-----------------------------------------------------------------------------
(* The table, as transactions see it.                                      *)

\* MUTANT of SameKey: a unique constraint that holds NULLs distinct.
SameKeyUnlessNull(r, q) == r = q /\ r.owner # None

\* uq_kb_collections_owner_kind_name, with NULLS NOT DISTINCT.
SameKey(r, q) == r = q

Taken(r) == \E i \in Ids : coll[i] # None /\ SameKey(coll[i], r)

\* An INSERT waits for the open transactions that have inserted its key.
InsertBlockers(p, r) ==
  {q \in (Callers \cup Seeders) \ {p} :
    \E i \in Ids : inserting[i].by = q /\ SameKey(inserting[i].row, r)}

\* An identity nothing refers to stands for the next uuid4.
FreshIds == {i \in Ids : /\ coll[i] = None /\ inserting[i] = NoInsert
                         /\ \A c \in Callers : call[c].id # i}

InsertRow(p, r) ==
  \E i \in FreshIds : inserting' = [inserting EXCEPT ![i] = [by |-> p, row |-> r]]

InsertedBy(p) == {i \in Ids : inserting[i].by = p}

\* p's transaction ends; its rows stay only if it commits.
EndInserts(p) == inserting' = [i \in Ids |-> IF i \in InsertedBy(p) THEN NoInsert ELSE inserting[i]]
CommitRows(p) ==
  /\ coll' = [i \in Ids |-> IF i \in InsertedBy(p) THEN inserting[i].row ELSE coll[i]]
  /\ EndInserts(p)

-----------------------------------------------------------------------------
(* POST /collections.                                                      *)

Respond(c) == call' = [call EXCEPT ![c] = NoCall]

CreateBegin(c) ==
  /\ call[c].step = "idle"
  /\ \E u \in Users \cup Strangers, t \in Titles :
       call' = [call EXCEPT ![c] = Call("insert", u, t, None)]
  /\ UNCHANGED <<coll, inserting>>

\* MUTANT of Classify: every integrity error is "already exists".
ClassifyAsConflict(sqlstate) == IF sqlstate \in {"23505", "23503"} THEN "conflict" ELSE "unknown"

\* MUTANT of Classify: a foreign key violation is none of its cases.
ClassifyUniqueOnly(sqlstate) == IF sqlstate = "23505" THEN "conflict" ELSE None

\* _classify_collection_integrity_error.
Classify(sqlstate) == IF sqlstate = "23505" THEN "conflict" ELSE "unknown"

\* The flush: the unique index is checked with the row, the foreign key after it.
CreateFlush(c) ==
  LET r == Private(call[c].by, call[c].title) IN
  /\ call[c].step = "insert"
  /\ InsertBlockers(c, r) = {}
  /\ \/ /\ Taken(r)
        /\ call' = [call EXCEPT ![c].step = Classify("23505")]
        /\ UNCHANGED inserting
     \/ /\ ~Taken(r) /\ call[c].by \in Strangers
        /\ call' = [call EXCEPT ![c].step = Classify("23503")]
        /\ UNCHANGED inserting
     \/ /\ ~Taken(r) /\ call[c].by \in Users
        /\ InsertRow(c, r)
        /\ call' = [call EXCEPT ![c].step = "commit"]
  /\ UNCHANGED coll

CreateCommit(c) ==
  /\ call[c].step = "commit"
  /\ CommitRows(c)
  /\ Respond(c)

\* 409 or 401.
CreateRefused(c) ==
  /\ call[c].step \in {"conflict", "unknown"}
  /\ Respond(c)
  /\ UNCHANGED <<coll, inserting>>

\* The connection is lost.
CallAborted(c) ==
  /\ call[c].step # "idle"
  /\ EndInserts(c)
  /\ Respond(c)
  /\ UNCHANGED coll

-----------------------------------------------------------------------------
(* DELETE /collections/{id}.                                               *)

\* The check that delete_collection makes of the row it has found.
MayDelete(u, i) == coll[i] # None /\ coll[i].owner = u

\* The row is found and is the caller's own; otherwise 404 or 403.
DeleteFind(c) ==
  /\ call[c].step = "idle"
  /\ \E u \in Users, i \in Ids :
       /\ MayDelete(u, i)
       /\ call' = [call EXCEPT ![c] = Call("delete", u, None, i)]
  /\ UNCHANGED <<coll, inserting>>

\* DELETE by id and COMMIT: a row that is gone by now is no error.
DeleteCommit(c) ==
  /\ call[c].step = "delete"
  /\ coll' = [coll EXCEPT ![call[c].id] = None]
  /\ Respond(c)
  /\ UNCHANGED inserting

CallerStep(c) ==
  \/ CreateBegin(c) \/ CreateFlush(c) \/ CreateCommit(c) \/ CreateRefused(c)
  \/ CallAborted(c) \/ DeleteFind(c) \/ DeleteCommit(c)

-----------------------------------------------------------------------------
(* Properties.                                                             *)

\* An owner has one library of a kind and name, and there is one public one,
\* however many requests and seeding commands create it at the same time.
OneLibraryPerName ==
  \A i, j \in Ids : i # j /\ coll[i] # None => coll[i] # coll[j]

\* A caller who is told to pick another name owns a library of that name at that
\* moment: never a principal that cannot own any, nor one whose rival lost.
ConflictIsReal ==
  [][\A c \in Callers :
       call[c].step = "insert" /\ call'[c].step = "conflict"
         => \E i \in Ids : coll[i] = Private(call[c].by, call[c].title)]_collections
=============================================================================
