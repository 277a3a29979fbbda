------------------------------ MODULE Listing ------------------------------
(***************************************************************************)
(* The list of a collection's sources while Browse works: list_sources     *)
(* selects the rows, then the documents of those rows, then counts the     *)
(* documents' chunks, and each statement has a snapshot of its own.  Rows  *)
(* that are deleted, retried or completed between the statements are in    *)
(* the list as each statement found them.                                  *)
(***************************************************************************)
EXTENDS Browse

VARIABLES
  listing, \* the list request in flight
  gone     \* history: the sources that were deleted since it began

listVars == <<browseVars, listing, gone>>

\* Of each source its status ("absent" when it is not in the list), the document
\* shown for it and the number of chunks shown.
NoListing ==
  [step |-> "idle",
   status |-> [s \in Sources |-> "absent"],
   document |-> [s \in Sources |-> None],
   count |-> [s \in Sources |-> 0]]

ListInit == BrowseInit /\ listing = NoListing /\ gone = {}

InList(s) == listing.status[s] # "absent"

-----------------------------------------------------------------------------
(* GET /collections/{id}/sources.                                          *)

\* The rows that are not deleted.  Of a collection that is gone there are none.
ListSources ==
  /\ listing.step = "idle"
  /\ listing' = [NoListing EXCEPT !.step = "documents",
                   !.status = [s \in Sources |-> IF s \in Listed THEN row[s].status ELSE "absent"]]
  /\ gone' = {}

\* Their documents, deleted ones included; of several, any one is shown.
ListDocuments ==
  /\ listing.step = "documents"
  /\ \E shown \in [Sources -> Docs \cup {None}] :
       /\ \A s \in Sources : IF InList(s) /\ DocsOf(s) # {} THEN shown[s] \in DocsOf(s)
                             ELSE shown[s] = None
       /\ listing' = [listing EXCEPT !.step = "chunks", !.document = shown]
  /\ UNCHANGED gone

\* How many chunks those documents have by now.
CountShown == [s \in Sources |-> IF listing.document[s] = None THEN 0
                                 ELSE ChunksOf(listing.document[s])]

\* MUTANT of ListChunks: the rows are loaded anew for the answer, as a session does
\* that has committed in between.
ListChunksExpired ==
  /\ listing.step = "chunks"
  /\ listing' = [listing EXCEPT !.step = "answer", !.count = CountShown,
                   !.status = [s \in Sources |-> IF InList(s) THEN row[s].status ELSE "absent"]]
  /\ UNCHANGED gone

ListChunks ==
  /\ listing.step = "chunks"
  /\ listing' = [listing EXCEPT !.step = "answer", !.count = CountShown]
  /\ UNCHANGED gone

ListAnswer == listing.step = "answer" /\ listing' = NoListing /\ gone' = {}

ListStep == ListSources \/ ListDocuments \/ ListChunks \/ ListAnswer

-----------------------------------------------------------------------------
(* Browse with the list request.                                           *)

\* A bound of the model, as KeepsIdentity: the identity of a document that the
\* list refers to is not given to a new document.
ListKeepsIdentity ==
  \A s \in Sources :
    LET d == listing.document[s] IN
    d # None /\ docWork[d].state = "absent" => docWork'[d].state = "absent"

ListIngest ==
  /\ IngestStep /\ ListKeepsIdentity
  /\ gone' = IF listing.step = "idle" THEN {} ELSE gone \cup (Listed \ Listed')
  /\ UNCHANGED listing

\* A bound of the model: the user reads one thing at a time.
ListNext ==
  \/ ListIngest
  \/ listing.step = "idle" /\ PreviewStep /\ UNCHANGED <<vars, batchOf, raced, listing, gone>>
  \/ preview.step = "idle" /\ ListStep /\ UNCHANGED browseVars

ListSpec == ListInit /\ [][ListNext]_listVars

-----------------------------------------------------------------------------
(* Properties.                                                             *)

\* What the list tells a collection's only user of a source that has not been
\* deleted since the list was begun, whatever was accepted, completed, failed or
\* retried between its three statements: one shown as COMPLETED has its one
\* document and all of its chunks shown, and chunks shown can be found by a
\* search.  (Of a source deleted meanwhile the list may show a deleted document,
\* or none.)
ListingHolds ==
  listing.step = "answer" =>
    \A s \in Sources \ (raced \cup gone) :
      LET d == listing.document[s] IN
      /\ listing.status[s] = "completed" =>
           LiveDocs(s) = {d} /\ listing.count[s] = ChunksOf(d)
      /\ listing.count[s] > 0 => d \in Found

-----------------------------------------------------------------------------
(* The inductive invariant, beside LoneInv of BrowseInv.                   *)

ListTypeOK ==
  /\ listing \in [step : {"idle", "documents", "chunks", "answer"},
                  status : [Sources -> IngestStatus],
                  document : [Sources -> Docs \cup {None}],
                  count : [Sources -> {0, ChunkTotal}]]
  /\ gone \subseteq Sources

\* What the statements so far have found of s is still so.
StillHolds(s) ==
  LET d == listing.document[s] IN
  /\ s \in Listed
  /\ listing.status[s] = "completed" => row[s].status = "completed"
  /\ listing.step = "documents" => d = None
  /\ d # None => d \in LiveDocs(s)
  /\ listing.status[s] = "completed" /\ listing.step # "documents" => d # None
  /\ listing.count[s] = IF listing.step = "answer" /\ d # None THEN ChunksOf(d) ELSE 0

ListInv ==
  /\ ListTypeOK
  /\ listing.step # "idle" =>
       \A s \in Sources :
         IF InList(s) THEN s \notin raced \cup gone => StillHolds(s)
         ELSE listing.document[s] = None /\ listing.count[s] = 0
=============================================================================
