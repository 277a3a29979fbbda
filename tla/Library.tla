------------------------------ MODULE Library ------------------------------
(***************************************************************************)
(* The library as its only user sees it: each content is somewhere, and    *)
(* its documents are in the index exactly while it is listed as COMPLETED. *)
(*                                                                         *)
(* A content that is deleted before its ingestion is settled is "raced":   *)
(* what becomes of it is not promised.                                     *)
(***************************************************************************)
CONSTANTS
  Sources,
  Docs

VARIABLES
  open,   \* the collection exists
  shelf,  \* what is listed of a content
  index   \* the documents by which a content is found

library == <<open, shelf, index>>

\* The contents that may be uploaded, as new or again.
Uploadable(s) == shelf[s] \in {"absent", "failed", "deleted"}

\* Each content of S is now listed as state, and found by documents D.
Place(S, state, D) ==
  /\ shelf' = [s \in Sources |-> IF s \in S THEN state ELSE shelf[s]]
  /\ index' = [s \in Sources |-> IF s \in S THEN D ELSE index[s]]

LibraryInit ==
  /\ open = TRUE
  /\ shelf = [s \in Sources |-> "absent"]
  /\ index = [s \in Sources |-> {}]

\* The pipeline of s ends, with a document nothing else is found by or with none.
Ingested(s) ==
  \/ \E d \in Docs \ UNION {index[t] : t \in Sources} : Place({s}, "completed", {d})
  \/ Place({s}, "failed", {})

\* A single upload is answered.
Upload(s) == open /\ Uploadable(s) /\ Ingested(s) /\ UNCHANGED open

\* A batch is accepted, all of its files at once.
Accept(S) ==
  /\ open /\ \A s \in S : Uploadable(s)
  /\ Place(S, "pending", {})
  /\ UNCHANGED open

\* The job of an accepted file has run.
Settle(s) == shelf[s] = "pending" /\ Ingested(s) /\ UNCHANGED open

Delete(s) ==
  /\ shelf[s] \in {"completed", "failed", "deleted"}
  /\ Place({s}, "deleted", {})
  /\ UNCHANGED open

\* A content is about to be deleted that may still be at work.
Race(s) == shelf[s] # "absent" /\ Place({s}, "raced", {}) /\ UNCHANGED open

Drop ==
  /\ open /\ open' = FALSE
  /\ Place({s \in Sources : shelf[s] # "raced"}, "absent", {})

LibraryNext ==
  \/ \E s \in Sources : Upload(s) \/ Settle(s) \/ Delete(s) \/ Race(s)
  \/ \E S \in (SUBSET Sources) \ {{}} : Accept(S)
  \/ Drop

LibrarySpec == LibraryInit /\ [][LibraryNext]_library
=============================================================================
