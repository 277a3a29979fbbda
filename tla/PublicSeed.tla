----------------------------- MODULE PublicSeed -----------------------------
(***************************************************************************)
(* The seeding command: public_seed.py, run in one transaction by          *)
(* scripts/seed_public_libraries.py, against a checked-in tree that        *)
(* changes between runs, while users create and delete collections.        *)
(*                                                                         *)
(* A file is a library and a place in the sorted order of its paths.       *)
(* Nothing is deleted from a public library (delete_source refuses it),    *)
(* and no row is committed but a COMPLETED one: a pipeline that fails      *)
(* takes the whole command with it.                                        *)
(***************************************************************************)
EXTENDS Collections, Integers, Sequences

CONSTANTS
  Files,   \* the <<library, path>> pairs a tree may have
  Contents \* file contents, frontmatter stripped, by their hash

\* PUBLIC_LIBRARIES, in the order they are seeded; the collection's kind and name.
Libraries == <<"rules", "templates">>

ASSUME SeedAssumption ==
  /\ {Libraries[n] : n \in DOMAIN Libraries} \subseteq Titles
  /\ Files \subseteq {Libraries[n] : n \in DOMAIN Libraries} \X Nat
  /\ None \notin Contents

VARIABLES
  tree,   \* the checked-in files
  source, \* the committed sources of the public libraries, with their documents
  work,   \* what each seeder has done to the rows; writing one takes the row lock
  seed    \* where each seeder is

seedVars == <<collections, tree, source, work, seed>>

\* A document by what it holds and who made it; a sources row by its content_hash
\* and its documents; a transaction's work on a row by the content it has written
\* and the documents it has deleted and added.
Document == (Contents \cup {None}) \X Seeders
Source == [content : Contents \cup {None}, docs : SUBSET Document]
Work == [content : Contents \cup {None}, purged : SUBSET Document, docs : SUBSET Document]
NoSource == [content |-> None, docs |-> {}]
NoWork == [content |-> None, purged |-> {}, docs |-> {}]
SeedAt(step, n) ==
  [step |-> step, library |-> n, known |-> [f \in Files |-> None], todo |-> {}, found |-> {}]
NoSeed == SeedAt("idle", 0)

\* The steps a file takes: it is looked at, its row is written, and its documents are
\* replaced.
Rewriting == {"purge", "purging", "ingest"}
Filing == {"file", "write"} \cup Rewriting

SeedTypeOK ==
  /\ CollectionsTypeOK
  /\ tree \in [Files -> Contents \cup {None}]
  /\ source \in [Files -> Source]
  /\ work \in [Seeders -> [Files -> Work]]
  /\ seed \in [Seeders -> [step : {"idle", "read", "find", "create", "load", "commit"} \cup Filing,
                           library : 0..Len(Libraries),
                           known : [Files -> Contents \cup {None}],
                           todo : SUBSET Files,
                           found : SUBSET Document]]
  /\ \A d \in Seeders : seed[d].step \notin {"idle", "commit"} => seed[d].library # 0

SeedInit ==
  /\ CollectionsInit
  /\ tree \in [Files -> {None}]
  /\ source = [f \in Files |-> NoSource]
  /\ work = [d \in Seeders |-> [f \in Files |-> NoWork]]
  /\ seed = [d \in Seeders |-> NoSeed]

-----------------------------------------------------------------------------
(* What a seeder sees.                                                     *)

In(n) == {f \in Files : f[1] = Libraries[n]}

\* The rows d has written, and holds.
Written(d) == {f \in Files : work[d][f].content # None}

\* A row as d's SELECT sees it: its own version, or else the committed one.
Seen(d, f) == IF f \in Written(d) THEN work[d][f].content ELSE source[f].content

\* The library d is at, and the next file in it.
Here(d) == In(seed[d].library)

\* MUTANT of NextFiles: directory order, which two checkouts need not share.
NextFilesUnsorted(d) ==
  {f \in seed[d].todo : \A g \in seed[d].todo :
    IF d = CHOOSE e \in Seeders : TRUE THEN f[2] <= g[2] ELSE f[2] >= g[2]}

\* The first file that is left, in sorted order.
NextFiles(d) == {f \in seed[d].todo : \A g \in seed[d].todo : f[2] <= g[2]}

\* The rows of the library but f that have content x, as d's SELECT sees them.
Holding(d, f, x) == {g \in Here(d) \ {f} : Seen(d, g) = x}

\* Writing content x to row f waits for the transactions that hold the row, and for
\* those that give x to another row or take x from one.
WriteBlockers(d, f, x) ==
  {e \in Seeders \ {d} :
    \/ f \in Written(e)
    \/ \E g \in Written(e) \cap Here(d) : x \in {work[e][g].content, source[g].content}}

\* Deleting the documents d's statement has found waits for those who delete one too.
PurgeBlockers(d, f) == {e \in Seeders \ {d} : work[e][f].purged \cap seed[d].found # {}}

\* d goes on with the library it is at.
GoOn(d, step, known, todo, found) ==
  seed' = [seed EXCEPT ![d] =
    [step |-> step, library |-> seed[d].library, known |-> known, todo |-> todo,
     found |-> found]]
At(d, step) == GoOn(d, step, seed[d].known, seed[d].todo, {})

FileDone(d, f) == GoOn(d, "file", seed[d].known, seed[d].todo \ {f}, {})

\* MUTANT of Following: the DELETE is sent before the row's UPDATE is flushed.
FollowingUnflushed(step, known) ==
  CASE step = "file" -> IF known = None THEN "write" ELSE "purge"
    [] step = "purge" -> "purging"
    [] step = "purging" -> "write"
    [] step = "write" -> "ingest"

\* The statements of a file in their order.  The session flushes what was assigned to a
\* known path's row before it sends the DELETE; a new path has nothing to delete.
Following(step, known) ==
  CASE step = "file" -> "write"
    [] step = "write" -> IF known = None THEN "ingest" ELSE "purge"
    [] step = "purge" -> "purging"
    [] step = "purging" -> "ingest"

\* SeedConfigurationError, IntegrityError, a failing pipeline: one rollback.
SeedRollback(d) ==
  /\ EndInserts(d)
  /\ work' = [work EXCEPT ![d] = [f \in Files |-> NoWork]]
  /\ seed' = [seed EXCEPT ![d] = NoSeed]
  /\ UNCHANGED <<coll, call, tree, source>>

-----------------------------------------------------------------------------
(* seed_public_libraries, library by library.                              *)

SeedBegin(d) ==
  /\ seed[d].step = "idle"
  /\ seed' = [seed EXCEPT ![d] = SeedAt("read", 1)]
  /\ UNCHANGED <<collections, tree, source, work>>

\* _read_library_files: equal contents in one library are refused.
ReadLibraryFiles(d) ==
  /\ seed[d].step = "read"
  /\ IF \E f, g \in Here(d) : f # g /\ tree[f] = tree[g] /\ tree[f] # None
     THEN SeedRollback(d)
     ELSE At(d, "find") /\ UNCHANGED <<collections, tree, source, work>>

\* _get_or_create_public_collection: the SELECT ...
FindCollection(d) ==
  /\ seed[d].step = "find"
  /\ At(d, IF \E i \in Ids : coll[i] = Public(Libraries[seed[d].library]) THEN "load" ELSE "create")
  /\ UNCHANGED <<collections, tree, source, work>>

\* ... and the INSERT, which fails when another seeder was first.
CreateCollection(d) ==
  LET r == Public(Libraries[seed[d].library]) IN
  /\ seed[d].step = "create"
  /\ InsertBlockers(d, r) = {}
  /\ IF Taken(r)
     THEN SeedRollback(d)
     ELSE /\ InsertRow(d, r)
          /\ At(d, "load")
          /\ UNCHANGED <<coll, call, tree, source, work>>

\* The library's sources are loaded once.
LoadSources(d) ==
  /\ seed[d].step = "load"
  /\ GoOn(d, "file", [f \in Files |-> IF f \in Here(d) THEN Seen(d, f) ELSE None],
                    {f \in Here(d) : tree[f] # None}, {})
  /\ UNCHANGED <<collections, tree, source, work>>

\* MUTANT of Unchanged: a path that has a source is left alone.
UnchangedPath(d, f) == seed[d].known[f] # None

Unchanged(d, f) == seed[d].known[f] = tree[f]

\* The next file: skipped when unchanged, refused when its content is another
\* row's (_ensure_content_hash_is_available), or else written.
TakeFile(d) ==
  /\ seed[d].step = "file"
  /\ \E f \in NextFiles(d) :
       \/ /\ Unchanged(d, f)
          /\ FileDone(d, f)
          /\ UNCHANGED <<collections, tree, source, work>>
       \/ /\ ~Unchanged(d, f) /\ Holding(d, f, tree[f]) # {}
          /\ SeedRollback(d)
       \/ /\ ~Unchanged(d, f) /\ Holding(d, f, tree[f]) = {}
          /\ At(d, Following("file", seed[d].known[f]))
          /\ UNCHANGED <<collections, tree, source, work>>

\* The row's UPDATE, or for a new path ingest_document's INSERT.  A row that got the
\* content or the path first is an error.
WriteRow(d) ==
  /\ seed[d].step = "write"
  /\ \E f \in NextFiles(d) :
       /\ WriteBlockers(d, f, tree[f]) = {}
       /\ IF Holding(d, f, tree[f]) # {} \/ (seed[d].known[f] = None /\ source[f] # NoSource)
          THEN SeedRollback(d)
          ELSE /\ work' = [work EXCEPT ![d][f].content = tree[f]]
               /\ At(d, Following("write", seed[d].known[f]))
               /\ UNCHANGED <<collections, tree, source>>

\* The DELETE of the source's documents finds those committed by now ...
SelectDocuments(d) ==
  /\ seed[d].step = "purge"
  /\ \E f \in NextFiles(d) :
       GoOn(d, Following("purge", seed[d].known[f]), seed[d].known, seed[d].todo, source[f].docs)
  /\ UNCHANGED <<collections, tree, source, work>>

\* ... and deletes those that are still there.
DeleteDocuments(d) ==
  /\ seed[d].step = "purging"
  /\ \E f \in NextFiles(d) :
       /\ PurgeBlockers(d, f) = {}
       /\ work' = [work EXCEPT ![d][f].purged = seed[d].found \cap source[f].docs]
       /\ At(d, Following("purging", seed[d].known[f]))
  /\ UNCHANGED <<collections, tree, source>>

\* ingest_pending_source, or the rest of ingest_document.
AddDocument(d) ==
  /\ seed[d].step = "ingest"
  /\ \E f \in NextFiles(d) :
       /\ work' = [work EXCEPT ![d][f].docs = {<<tree[f], d>>}]
       /\ FileDone(d, f)
  /\ UNCHANGED <<collections, tree, source>>

\* MUTANT of NextLibrary: the end of the list is missed by one.
NextLibraryTooFar(d) ==
  /\ seed[d].step = "file" /\ seed[d].todo = {}
  /\ seed' = [seed EXCEPT ![d] =
       IF seed[d].library > Len(Libraries)
       THEN SeedAt("commit", 0)
       ELSE SeedAt("read", seed[d].library + 1)]
  /\ UNCHANGED <<collections, tree, source, work>>

NextLibrary(d) ==
  /\ seed[d].step = "file" /\ seed[d].todo = {}
  /\ seed' = [seed EXCEPT ![d] =
       IF seed[d].library = Len(Libraries)
       THEN SeedAt("commit", 0)
       ELSE SeedAt("read", seed[d].library + 1)]
  /\ UNCHANGED <<collections, tree, source, work>>

SeedCommit(d) ==
  /\ seed[d].step = "commit"
  /\ CommitRows(d)
  /\ source' = [f \in Files |->
       [content |-> Seen(d, f), docs |-> (source[f].docs \ work[d][f].purged) \cup work[d][f].docs]]
  /\ work' = [work EXCEPT ![d] = [f \in Files |-> NoWork]]
  /\ seed' = [seed EXCEPT ![d] = NoSeed]
  /\ UNCHANGED <<call, tree>>

\* The tree is unreadable, a file's pipeline fails, or the command is killed.
SeedFail(d) == seed[d].step # "idle" /\ SeedRollback(d)

\* A bound of the model: the tree changes only while no seeder runs.
Edit ==
  /\ \A d \in Seeders : seed[d].step = "idle"
  /\ \E f \in Files, x \in Contents \cup {None} : tree' = [tree EXCEPT ![f] = x]
  /\ UNCHANGED <<collections, source, work, seed>>

SeedStep(d) ==
  \/ SeedBegin(d) \/ ReadLibraryFiles(d) \/ FindCollection(d) \/ CreateCollection(d)
  \/ LoadSources(d) \/ TakeFile(d)
  \/ WriteRow(d) \/ SelectDocuments(d) \/ DeleteDocuments(d) \/ AddDocument(d)
  \/ NextLibrary(d) \/ SeedCommit(d) \/ SeedFail(d)

SeedNext ==
  \/ \E d \in Seeders : SeedStep(d)
  \/ \E c \in Callers : CallerStep(c) /\ UNCHANGED <<tree, source, work, seed>>
  \/ Edit

SeedSpec == SeedInit /\ [][SeedNext]_seedVars

-----------------------------------------------------------------------------
(* Properties.                                                             *)

\* A public source has one document, made of the content its row names, though two
\* seeding commands may delete and add documents of one row: the row's lock, taken
\* before the old documents are looked for, is what keeps them apart.
OneDocument ==
  \A f \in Files :
    IF source[f].content = None
    THEN source[f].docs = {}
    ELSE \E d \in Seeders : source[f].docs = {<<source[f].content, d>>}

\* A command that gets to its commit leaves every file of the tree in the library,
\* its earlier versions gone, whatever another command committed meanwhile.
SeedMirrorsTree ==
  \A d \in Seeders : seed[d].step = "commit" =>
    \A f \in Files : tree[f] # None => Seen(d, f) = tree[f]

\* Two seeding commands never wait for each other: both take the libraries in one
\* order and the files in sorted order.
Blockers(d) ==
  CASE seed[d].step = "create" -> InsertBlockers(d, Public(Libraries[seed[d].library]))
    [] seed[d].step = "write"  -> UNION {WriteBlockers(d, f, tree[f]) : f \in NextFiles(d)}
    [] seed[d].step = "purging" -> UNION {PurgeBlockers(d, f) : f \in NextFiles(d)}
    [] OTHER -> {}
SeedersNeverDeadlock == \A d, e \in Seeders : ~(e \in Blockers(d) /\ d \in Blockers(e))
=============================================================================
