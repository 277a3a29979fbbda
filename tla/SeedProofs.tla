----------------------------- MODULE SeedProofs -----------------------------
(***************************************************************************)
(* What PublicSeed and Collections do for any number of users, requests,   *)
(* seeding commands, files and contents, proved.                           *)
(*                                                                         *)
(* TableInv, ContentInv, LockInv and DocumentInv strengthen the properties *)
(* by what open transactions hold: the keys they have inserted are apart   *)
(* from each other and from the committed ones, what they have written is  *)
(* what the tree says, they have written it in one order, and they have    *)
(* deleted every document of a row they have got through.                  *)
(***************************************************************************)
EXTENDS PublicSeed, TLAPS

Processes == Callers \cup Seeders

Inserting(i) == inserting[i].by # None

\* Committed and inserted rows have different keys.
KeysApart ==
  \A i, j \in Ids : i # j =>
    /\ coll[i] # None => coll[i] # coll[j]
    /\ Inserting(i) /\ coll[j] # None => inserting[i].row # coll[j]
    /\ Inserting(i) /\ Inserting(j) => inserting[i].row # inserting[j].row

\* The libraries d has yet to create or find, and those it is done with.
Ahead(d) ==
  {n \in DOMAIN Libraries :
    \/ seed[d].step = "idle"
    \/ seed[d].step \in {"read", "find", "create"} /\ n >= seed[d].library
    \/ seed[d].step \in {"load"} \cup Filing /\ n > seed[d].library}
Done(d) ==
  {n \in DOMAIN Libraries :
    seed[d].step = "commit" \/ (seed[d].step # "idle" /\ n < seed[d].library)}

\* A process has inserted nothing that it may still insert.
OwnInserts ==
  \A i \in Ids :
    /\ \A c \in Callers : inserting[i].by = c => call[c].step = "commit"
    /\ \A d \in Seeders : inserting[i].by = d =>
         \A n \in Ahead(d) : inserting[i].row # Public(Libraries[n])

\* What is true of the table of collections.
TableInv == SeedTypeOK /\ KeysApart /\ OwnInserts

\* A row that d has written is what the tree says; between its runs d holds none and has
\* done nothing, and a file whose documents it replaces is one it holds.
WrittenIsTree(d) ==
  /\ \A f \in Written(d) :
       seed[d].step # "idle" /\ tree[f] # None /\ work[d][f].content = tree[f]
  /\ \A f \in Files : f \notin Written(d) => work[d][f] = NoWork
  /\ seed[d].step \in Rewriting => NextFiles(d) \subseteq Written(d)

Mirrored(d, f) == tree[f] # None => Seen(d, f) = tree[f]

\* The files of the libraries d is done with, and those it has got through here.
Progress(d) ==
  /\ \A n \in Done(d) : \A f \in In(n) : Mirrored(d, f)
  /\ seed[d].step \in Filing =>
       /\ \A f \in seed[d].todo : f \in Here(d) /\ tree[f] # None
       /\ \A f \in Here(d) \ seed[d].todo : Mirrored(d, f)
       /\ \A f \in Here(d) : Unchanged(d, f) => Mirrored(d, f)

\* What is true of the files and the rows made from them.
ContentInv == SeedTypeOK /\ \A d \in Seeders : WrittenIsTree(d) /\ Progress(d)

\* What d has written is behind it, in the libraries and within the one it is at.
OwnWrites(d) ==
  \A f \in Written(d) : \A n \in DOMAIN Libraries : f \in In(n) =>
    /\ n \notin Ahead(d)
    /\ n = seed[d].library =>
         /\ seed[d].step \in Filing
         /\ \A g \in seed[d].todo : f[2] < g[2] \/ (f = g /\ seed[d].step \in Rewriting)

\* The library d is at has no two files of one content.
Distinct(d) ==
  seed[d].step \in {"find", "create", "load"} \cup Filing =>
    \A f, g \in Here(d) : f # g /\ tree[f] = tree[g] => tree[f] = None

\* No row but its own has the content of the file d is about to write.
NoHolder(d) ==
  seed[d].step = "write" => \A f \in NextFiles(d) : Holding(d, f, tree[f]) = {}

\* No two seeders hold one row.
HeldByOne == \A d, e \in Seeders : d # e => Written(d) \cap Written(e) = {}

\* What is true of the rows the seeders hold.
LockInv ==
  /\ TableInv /\ ContentInv /\ HeldByOne
  /\ \A d \in Seeders : OwnWrites(d) /\ Distinct(d) /\ NoHolder(d)

\* d has written file f's row, and not yet added its document.
InHand(d, f) == seed[d].step \in Rewriting /\ f \in NextFiles(d)

\* Of a row that it holds d has deleted every document, once it has got that far, and
\* then added its own; what its DELETE has found is everything there is.
Replaced(d) ==
  \A f \in Written(d) :
    /\ IF InHand(d, f) THEN work[d][f].docs = {} ELSE work[d][f].docs = {<<tree[f], d>>}
    /\ ~InHand(d, f) \/ seed[d].step = "ingest" => work[d][f].purged = source[f].docs
    /\ InHand(d, f) /\ seed[d].step = "purging" => seed[d].found = source[f].docs

\* What is true of the documents.
DocumentInv == LockInv /\ OneDocument /\ \A d \in Seeders : Replaced(d)

-----------------------------------------------------------------------------
(* Types.                                                                  *)

\* The libraries are two, of different titles.
LEMMA LibraryFacts ==
  /\ Len(Libraries) = 2 /\ DOMAIN Libraries = 1..2
  /\ \A m, n \in DOMAIN Libraries : m # n => Libraries[m] # Libraries[n]
  /\ \A n \in DOMAIN Libraries : Public(Libraries[n]) \in Row
BY SeedAssumption DEF Libraries, Public, Row

\* None is not a process.
LEMMA NoneApart == None \notin Processes /\ Callers \cap Seeders = {}
BY CollectionsAssumption DEF Processes

\* In which order the statements of a file come.
LEMMA StatementOrder ==
  \A known : /\ Following("file", known) = "write"
             /\ Following("write", known) = IF known = None THEN "ingest" ELSE "purge"
             /\ Following("purge", known) = "purging"
             /\ Following("purging", known) = "ingest"
BY DEF Following

\* An INSERT leaves rows of the table's type.
LEMMA InsertTyped ==
  ASSUME CollectionsTypeOK, NEW p \in Processes, NEW r \in Row, InsertRow(p, r)
  PROVE  inserting' \in [Ids -> [by : Callers \cup Seeders, row : Row] \cup {NoInsert}]
<1>1. PICK i \in FreshIds : inserting' = [inserting EXCEPT ![i] = [by |-> p, row |-> r]]
  BY DEF InsertRow
<1>2. [by |-> p, row |-> r] \in [by : Callers \cup Seeders, row : Row]
  BY DEF Processes
<1> QED BY <1>1, <1>2 DEF CollectionsTypeOK

\* The end of a transaction leaves rows of the table's type.
LEMMA EndTyped ==
  ASSUME CollectionsTypeOK, NEW p, EndInserts(p)
  PROVE  inserting' \in [Ids -> [by : Callers \cup Seeders, row : Row] \cup {NoInsert}]
BY DEF CollectionsTypeOK, EndInserts

\* So does its commit.
LEMMA CommitTyped ==
  ASSUME CollectionsTypeOK, NEW p \in Processes, CommitRows(p)
  PROVE  coll' \in [Ids -> Row \cup {None}]
<1>1. \A i \in InsertedBy(p) : inserting[i].row \in Row
  BY NoneApart DEF CollectionsTypeOK, InsertedBy, NoInsert, Processes
<1> QED BY <1>1 DEF CollectionsTypeOK, CommitRows

\* A request keeps the types of the table and of the requests.
LEMMA CallerTyped ==
  ASSUME CollectionsTypeOK, NEW c \in Callers, CallerStep(c)
  PROVE  CollectionsTypeOK'
<1> DEFINE Calls == [step : {"idle", "insert", "commit", "delete", "conflict", "unknown"},
                     by : Users \cup Strangers \cup {None},
                     title : Titles \cup {None}, id : Ids \cup {None}]
<1>1. call \in [Callers -> Calls] /\ coll \in [Ids -> Row \cup {None}]
  BY DEF CollectionsTypeOK
<1>2. NoCall \in Calls /\ NoCall.step # "insert"
  BY DEF NoCall, Call
<1>3. CASE CreateBegin(c)
  <2>1. PICK u \in Users \cup Strangers, t \in Titles :
          call' = [call EXCEPT ![c] = Call("insert", u, t, None)]
    BY <1>3 DEF CreateBegin
  <2>3. Call("insert", u, t, None) \in Calls /\ Call("insert", u, t, None).title \in Titles
    BY DEF Call
  <2>4. /\ call' \in [Callers -> Calls]
        /\ \A b \in Callers : call'[b].step = "insert" => call'[b].title \in Titles
    BY <1>1, <2>1, <2>3 DEF CollectionsTypeOK
  <2> QED BY <1>3, <2>4 DEF CreateBegin, CollectionsTypeOK
<1>4. CASE CreateFlush(c)
  <2> DEFINE r == Private(call[c].by, call[c].title)
  <2>1. PICK s \in {"commit", "conflict", "unknown"} : call' = [call EXCEPT ![c].step = s]
    BY <1>4 DEF CreateFlush, Classify
  <2>2. /\ call' \in [Callers -> Calls]
        /\ \A b \in Callers : call'[b].step = "insert" => call'[b].title \in Titles
    BY <1>1, <2>1 DEF CollectionsTypeOK
  <2>3. inserting' \in [Ids -> [by : Callers \cup Seeders, row : Row] \cup {NoInsert}]
    <3>1. CASE UNCHANGED inserting
      BY <3>1 DEF CollectionsTypeOK
    <3>2. CASE call[c].by \in Users /\ InsertRow(c, r)
      <4>1. r \in Row
        BY <1>4, <3>2 DEF CreateFlush, CollectionsTypeOK, Private, Row
      <4> QED BY <3>2, <4>1, InsertTyped DEF Processes
    <3> QED BY <1>4, <3>1, <3>2 DEF CreateFlush
  <2> QED BY <1>4, <2>2, <2>3 DEF CreateFlush, CollectionsTypeOK
<1>5. CASE CreateCommit(c) \/ CreateRefused(c) \/ CallAborted(c) \/ DeleteCommit(c)
  <2>1. call' = [call EXCEPT ![c] = NoCall]
    BY <1>5 DEF CreateCommit, CreateRefused, CallAborted, DeleteCommit, Respond
  <2>2. /\ call' \in [Callers -> Calls]
        /\ \A b \in Callers : call'[b].step = "insert" => call'[b].title \in Titles
    BY <1>1, <1>2, <2>1 DEF CollectionsTypeOK
  <2>3. inserting' \in [Ids -> [by : Callers \cup Seeders, row : Row] \cup {NoInsert}]
    BY <1>5, EndTyped
    DEF CreateCommit, CommitRows, CreateRefused, CallAborted, DeleteCommit, CollectionsTypeOK
  <2>4. coll' \in [Ids -> Row \cup {None}]
    BY <1>5, CommitTyped
    DEF CreateCommit, CreateRefused, CallAborted, DeleteCommit, CollectionsTypeOK, Processes
  <2> QED BY <2>2, <2>3, <2>4 DEF CollectionsTypeOK
<1>6. CASE DeleteFind(c)
  <2>1. PICK u \in Users, i \in Ids :
          call' = [call EXCEPT ![c] = Call("delete", u, None, i)]
    BY <1>6 DEF DeleteFind
  <2>3. Call("delete", u, None, i) \in Calls /\ Call("delete", u, None, i).step # "insert"
    BY DEF Call
  <2>4. /\ call' \in [Callers -> Calls]
        /\ \A b \in Callers : call'[b].step = "insert" => call'[b].title \in Titles
    BY <1>1, <2>1, <2>3 DEF CollectionsTypeOK
  <2> QED BY <1>6, <2>4 DEF DeleteFind, CollectionsTypeOK
<1> QED BY <1>3, <1>4, <1>5, <1>6 DEF CallerStep

Seeds == [step : {"idle", "read", "find", "create", "load", "commit"} \cup Filing,
          library : 0..Len(Libraries), known : [Files -> Contents \cup {None}],
          todo : SUBSET Files, found : SUBSET Document]

\* An empty row, and a row nothing was done to.
LEMMA NoSourceTyped == NoSource \in Source /\ NoWork \in Work
BY DEF NoSource, Source, NoWork, Work

\* seed' has a seed's type, and a library where it needs one.
SeedsTyped ==
  /\ seed \in [Seeders -> Seeds]
  /\ \A d \in Seeders : seed[d].step \notin {"idle", "commit"} => seed[d].library # 0

\* A seeder that starts a library, or stops.
LEMMA SeedAtStep ==
  ASSUME SeedsTyped, NEW d \in Seeders, NEW step \in {"idle", "read", "commit"},
         NEW n \in 0..Len(Libraries), step = "read" => n # 0,
         seed' = [seed EXCEPT ![d] = SeedAt(step, n)]
  PROVE  SeedsTyped'
<1>1. SeedAt(step, n).step = step /\ SeedAt(step, n).library = n
  BY DEF SeedAt
<1>2. SeedAt(step, n) \in Seeds
  BY DEF SeedAt, Seeds
<1> HIDE DEF Seeds
<1> QED BY <1>1, <1>2 DEF SeedsTyped

\* A seeder that goes on within a library.
LEMMA GoOnStep ==
  ASSUME SeedsTyped, NEW d \in Seeders, seed[d].step \notin {"idle", "commit"},
         NEW step \in {"find", "load", "create"} \cup Filing,
         NEW known \in [Files -> Contents \cup {None}], NEW todo \in SUBSET Files,
         NEW found \in SUBSET Document, GoOn(d, step, known, todo, found)
  PROVE  SeedsTyped'
<1> DEFINE r == [step |-> step, library |-> seed[d].library, known |-> known, todo |-> todo,
                 found |-> found]
<1>1. r \in Seeds /\ r.library # 0
  BY DEF SeedsTyped, Seeds
<1>2. seed' = [seed EXCEPT ![d] = r]
  BY DEF GoOn
<1> HIDE DEF r, Seeds
<1> QED BY <1>1, <1>2 DEF SeedsTyped

\* The same for a step that changes nothing but where it is ...
LEMMA AtStep ==
  ASSUME SeedsTyped, NEW d \in Seeders, seed[d].step \notin {"idle", "commit"},
         NEW step \in {"find", "load", "create"} \cup Filing, At(d, step)
  PROVE  SeedsTyped'
<1>1. seed[d].known \in [Files -> Contents \cup {None}] /\ seed[d].todo \in SUBSET Files
  BY DEF SeedsTyped, Seeds
<1> QED BY <1>1, GoOnStep DEF At, Filing

\* ... and for one that ends a file.
LEMMA FileDoneStep ==
  ASSUME SeedsTyped, NEW d \in Seeders, seed[d].step \notin {"idle", "commit"},
         NEW f, FileDone(d, f)
  PROVE  SeedsTyped'
<1>1. seed[d].known \in [Files -> Contents \cup {None}] /\ seed[d].todo \ {f} \in SUBSET Files
  BY DEF SeedsTyped, Seeds
<1> QED BY <1>1, GoOnStep DEF FileDone, Filing

\* A rollback keeps the types.
LEMMA RollbackTyped ==
  ASSUME SeedTypeOK, NEW d \in Seeders, SeedRollback(d)
  PROVE  SeedTypeOK'
<1>1. CollectionsTypeOK'
  BY EndTyped DEF SeedTypeOK, CollectionsTypeOK, SeedRollback
<1>2. SeedsTyped'
  <2>1. seed' = [seed EXCEPT ![d] = SeedAt("idle", 0)] /\ 0 \in 0..Len(Libraries)
    BY LibraryFacts DEF SeedRollback, NoSeed
  <2>2. SeedsTyped
    BY DEF SeedTypeOK, SeedsTyped, Seeds
  <2> QED BY <2>1, <2>2, SeedAtStep
<1>3. work' \in [Seeders -> [Files -> Work]]
  BY NoSourceTyped DEF SeedTypeOK, SeedRollback
<1> QED BY <1>1, <1>2, <1>3 DEF SeedTypeOK, SeedRollback, SeedsTyped, Seeds

\* A seeder keeps the types.
LEMMA SeederTyped ==
  ASSUME SeedTypeOK, NEW d \in Seeders, SeedStep(d)
  PROVE  SeedTypeOK'
<1>1. /\ CollectionsTypeOK /\ SeedsTyped
      /\ tree \in [Files -> Contents \cup {None}] /\ source \in [Files -> Source]
      /\ work \in [Seeders -> [Files -> Work]]
  BY DEF SeedTypeOK, SeedsTyped, Seeds
<1>2. SUFFICES ASSUME ~SeedRollback(d)
               PROVE  SeedTypeOK'
  BY RollbackTyped
<1>3. SUFFICES /\ CollectionsTypeOK' /\ SeedsTyped' /\ UNCHANGED tree
               /\ source' \in [Files -> Source] /\ work' \in [Seeders -> [Files -> Work]]
  BY <1>1 DEF SeedTypeOK, SeedsTyped, Seeds
<1>4. UNCHANGED collections => CollectionsTypeOK'
  BY <1>1 DEF collections, CollectionsTypeOK
<1>5. CASE SeedBegin(d)
  <2>1. seed' = [seed EXCEPT ![d] = SeedAt("read", 1)] /\ 1 \in 0..Len(Libraries) /\ 1 # 0
    BY <1>5, LibraryFacts DEF SeedBegin
  <2>2. SeedsTyped'
    BY <1>1, <2>1, SeedAtStep
  <2> QED BY <1>1, <1>4, <1>5, <2>2 DEF SeedBegin
<1>6. CASE ReadLibraryFiles(d) \/ FindCollection(d)
  BY <1>1, <1>2, <1>4, <1>6, AtStep DEF ReadLibraryFiles, FindCollection
<1>7. CASE CreateCollection(d)
  <2> DEFINE r == Public(Libraries[seed[d].library])
  <2>1. InsertRow(d, r) /\ At(d, "load") /\ UNCHANGED <<coll, call, tree, source, work>>
    BY <1>2, <1>7 DEF CreateCollection
  <2>2. seed[d].library \in DOMAIN Libraries
    BY <1>1, <1>7, LibraryFacts DEF CreateCollection, SeedsTyped, Seeds
  <2>3. CollectionsTypeOK'
    BY <1>1, <2>1, <2>2, LibraryFacts, InsertTyped DEF Processes, CollectionsTypeOK
  <2>4. SeedsTyped'
    BY <1>1, <1>7, <2>1, AtStep DEF CreateCollection
  <2> QED BY <1>1, <2>1, <2>3, <2>4
<1>8. CASE LoadSources(d)
  <2>1. [f \in Files |-> IF f \in Here(d) THEN Seen(d, f) ELSE None] \in [Files -> Contents \cup {None}]
    BY <1>1 DEF Seen, Source, Work
  <2>2. {f \in Here(d) : tree[f] # None} \in SUBSET Files
    BY DEF Here, In
  <2>3. SeedsTyped'
    BY <1>1, <1>8, <2>1, <2>2, GoOnStep DEF LoadSources, Filing
  <2> QED BY <1>1, <1>4, <1>8, <2>3 DEF LoadSources
<1>9. CASE TakeFile(d)
  <2>1. CASE At(d, "write") /\ UNCHANGED <<collections, tree, source, work>>
    BY <1>1, <1>4, <1>9, <2>1, AtStep DEF TakeFile, Filing
  <2>2. CASE /\ \E f \in NextFiles(d) : FileDone(d, f)
             /\ UNCHANGED <<collections, tree, source, work>>
    <3>1. SeedsTyped'
      BY <1>1, <1>9, <2>2, FileDoneStep DEF TakeFile
    <3> QED BY <1>1, <1>4, <2>2, <3>1
  <2> QED BY <1>2, <1>9, <2>1, <2>2, StatementOrder DEF TakeFile
<1>20. ASSUME NEW f \in NextFiles(d), seed[d].step \notin {"idle", "commit"}
       PROVE  /\ f \in Files /\ tree[f] \in Contents \cup {None}
              /\ work[d][f] \in Work /\ source[f] \in Source /\ seed[d].found \subseteq Document
  BY <1>1, <1>20 DEF NextFiles, SeedsTyped, Seeds
<1>10. CASE WriteRow(d)
  <2>1. PICK f \in NextFiles(d), step \in {"purge", "ingest"} :
          /\ work' = [work EXCEPT ![d][f].content = tree[f]]
          /\ At(d, step)
          /\ UNCHANGED <<collections, tree, source>>
    BY <1>2, <1>10, StatementOrder DEF WriteRow
  <2>2. SeedsTyped'
    BY <1>1, <1>10, <2>1, AtStep DEF WriteRow, Filing, Rewriting
  <2>3. [work[d][f] EXCEPT !.content = tree[f]] \in Work
    BY <1>10, <1>20, <2>1 DEF WriteRow, Work
  <2>4. work' \in [Seeders -> [Files -> Work]]
    BY <1>1, <2>1, <2>3
  <2> QED BY <1>1, <1>4, <2>1, <2>2, <2>4
<1>13. CASE SelectDocuments(d)
  <2>1. PICK f \in NextFiles(d) : GoOn(d, "purging", seed[d].known, seed[d].todo, source[f].docs)
    BY <1>13, StatementOrder DEF SelectDocuments
  <2>2. /\ seed[d].known \in [Files -> Contents \cup {None}] /\ seed[d].todo \in SUBSET Files
        /\ source[f].docs \in SUBSET Document
    BY <1>1, <1>13, <1>20, <2>1 DEF SelectDocuments, SeedsTyped, Seeds, Source
  <2>3. SeedsTyped'
    BY <1>1, <1>13, <2>1, <2>2, GoOnStep DEF SelectDocuments, Filing, Rewriting
  <2> QED BY <1>1, <1>4, <1>13, <2>3 DEF SelectDocuments
<1>14. CASE DeleteDocuments(d)
  <2>1. PICK f \in NextFiles(d) :
          /\ work' = [work EXCEPT ![d][f].purged = seed[d].found \cap source[f].docs]
          /\ At(d, "ingest")
    BY <1>14, StatementOrder DEF DeleteDocuments
  <2>2. SeedsTyped'
    BY <1>1, <1>14, <2>1, AtStep DEF DeleteDocuments, Filing, Rewriting
  <2>3. [work[d][f] EXCEPT !.purged = seed[d].found \cap source[f].docs] \in Work
    BY <1>14, <1>20, <2>1 DEF DeleteDocuments, Work
  <2>4. work' \in [Seeders -> [Files -> Work]]
    BY <1>1, <2>1, <2>3
  <2> QED BY <1>1, <1>4, <1>14, <2>2, <2>4 DEF DeleteDocuments
<1>15. CASE AddDocument(d)
  <2>1. PICK f \in NextFiles(d) :
          /\ work' = [work EXCEPT ![d][f].docs = {<<tree[f], d>>}]
          /\ FileDone(d, f)
    BY <1>15 DEF AddDocument
  <2>2. SeedsTyped'
    BY <1>1, <1>15, <2>1, FileDoneStep DEF AddDocument
  <2>3. [work[d][f] EXCEPT !.docs = {<<tree[f], d>>}] \in Work
    BY <1>15, <1>20, <2>1 DEF AddDocument, Work, Document
  <2>4. work' \in [Seeders -> [Files -> Work]]
    BY <1>1, <2>1, <2>3
  <2> QED BY <1>1, <1>4, <1>15, <2>2, <2>4 DEF AddDocument
<1>11. CASE NextLibrary(d)
  <2>1. seed[d].library \in 0..Len(Libraries)
    BY <1>1 DEF SeedsTyped, Seeds
  <2>2. CASE seed' = [seed EXCEPT ![d] = SeedAt("commit", 0)]
    <3>1. 0 \in 0..Len(Libraries)
      BY LibraryFacts
    <3>2. SeedsTyped'
      BY <1>1, <2>2, <3>1, SeedAtStep
    <3> QED BY <1>1, <1>4, <1>11, <3>2 DEF NextLibrary
  <2>3. CASE /\ seed[d].library # Len(Libraries)
             /\ seed' = [seed EXCEPT ![d] = SeedAt("read", seed[d].library + 1)]
    <3>1. seed[d].library + 1 \in 0..Len(Libraries) /\ seed[d].library + 1 # 0
      BY <2>1, <2>3, LibraryFacts
    <3>2. SeedsTyped'
      BY <1>1, <2>3, <3>1, SeedAtStep
    <3> QED BY <1>1, <1>4, <1>11, <3>2 DEF NextLibrary
  <2> QED BY <1>11, <2>2, <2>3 DEF NextLibrary
<1>12. CASE SeedCommit(d)
  <2>1. CollectionsTypeOK'
    BY <1>1, <1>12, CommitTyped, EndTyped DEF SeedCommit, CommitRows, CollectionsTypeOK, Processes
  <2>2. SeedsTyped'
    <3>1. seed' = [seed EXCEPT ![d] = SeedAt("idle", 0)] /\ 0 \in 0..Len(Libraries)
      BY <1>12, LibraryFacts DEF SeedCommit, NoSeed
    <3> QED BY <1>1, <3>1, SeedAtStep
  <2>3. source' \in [Files -> Source] /\ work' \in [Seeders -> [Files -> Work]]
    <3>1. \A f \in Files :
            [content |-> Seen(d, f),
             docs |-> (source[f].docs \ work[d][f].purged) \cup work[d][f].docs] \in Source
      BY <1>1 DEF Seen, Source, Work
    <3> QED BY <1>1, <1>12, <3>1, NoSourceTyped DEF SeedCommit
  <2> QED BY <1>12, <2>1, <2>2, <2>3 DEF SeedCommit
<1> QED BY <1>2, <1>5, <1>6, <1>7, <1>8, <1>9, <1>10, <1>11, <1>12, <1>13, <1>14, <1>15
        DEF SeedStep, SeedFail

\* The initial state is typed.
LEMMA InitTyped == SeedInit => SeedTypeOK
<1> SUFFICES ASSUME SeedInit PROVE SeedTypeOK
  OBVIOUS
<1>1. CollectionsTypeOK
  BY DEF SeedInit, CollectionsInit, CollectionsTypeOK, NoCall, Call
<1>2. NoSeed \in Seeds /\ NoSeed.step = "idle"
  BY LibraryFacts DEF NoSeed, SeedAt, Seeds
<1>3. tree \in [Files -> Contents \cup {None}] /\ source \in [Files -> Source]
  BY NoSourceTyped DEF SeedInit
<1>4. work \in [Seeders -> [Files -> Work]]
  BY NoSourceTyped DEF SeedInit
<1>5. seed \in [Seeders -> Seeds] /\ \A d \in Seeders : seed[d].step = "idle"
  BY <1>2 DEF SeedInit
<1> QED BY <1>1, <1>3, <1>4, <1>5 DEF SeedTypeOK, Seeds

\* Every step keeps the types.
LEMMA NextTyped == SeedTypeOK /\ [SeedNext]_seedVars => SeedTypeOK'
<1> SUFFICES ASSUME SeedTypeOK, [SeedNext]_seedVars PROVE SeedTypeOK'
  OBVIOUS
<1>1. ASSUME NEW d \in Seeders, SeedStep(d) PROVE SeedTypeOK'
  BY <1>1, SeederTyped
<1>2. ASSUME NEW c \in Callers, CallerStep(c), UNCHANGED <<tree, source, work, seed>>
      PROVE  SeedTypeOK'
  BY <1>2, CallerTyped DEF SeedTypeOK
<1>3. CASE Edit
  <2>1. CollectionsTypeOK' /\ UNCHANGED <<source, work, seed>>
    BY <1>3 DEF Edit, collections, SeedTypeOK, CollectionsTypeOK
  <2>2. tree' \in [Files -> Contents \cup {None}]
    BY <1>3 DEF Edit, SeedTypeOK
  <2> QED BY <2>1, <2>2 DEF SeedTypeOK
<1>4. CASE UNCHANGED seedVars
  BY <1>4 DEF seedVars, collections, SeedTypeOK, CollectionsTypeOK
<1> QED BY <1>1, <1>2, <1>3, <1>4 DEF SeedNext

\* What is in the tables and where each request and seeder is stays in range.
THEOREM Typing == SeedSpec => []SeedTypeOK
<1> QED BY InitTyped, NextTyped, PTL DEF SeedSpec

-----------------------------------------------------------------------------
(* One library per name.                                                   *)

\* An INSERT that waits for its rivals and finds no row brings a key of its own.
LEMMA InsertApart ==
  ASSUME CollectionsTypeOK, KeysApart, NEW p \in Processes, NEW r,
         ~Taken(r), InsertBlockers(p, r) = {},
         \A i \in Ids : inserting[i].by = p => inserting[i].row # r,
         InsertRow(p, r), UNCHANGED coll
  PROVE  KeysApart'
<1>1. PICK k \in FreshIds : inserting' = [inserting EXCEPT ![k] = [by |-> p, row |-> r]]
  BY DEF InsertRow
<1>2. \A i \in Ids : coll[i] # None => coll[i] # r
  BY DEF Taken, SameKey
<1>3. ASSUME NEW i \in Ids, Inserting(i)
      PROVE  inserting[i].row # r
  <2>1. inserting[i].by \in Processes
    BY <1>3 DEF Inserting, CollectionsTypeOK, NoInsert, Processes
  <2> QED BY <2>1 DEF InsertBlockers, SameKey, Processes
<1>4. \A i \in Ids : i # k => inserting'[i] = inserting[i]
  BY <1>1 DEF CollectionsTypeOK
<1>5. k \in Ids /\ inserting'[k].row = r
  BY <1>1 DEF CollectionsTypeOK, FreshIds
<1> QED BY <1>2, <1>3, <1>4, <1>5 DEF KeysApart, Inserting

\* The end of a transaction takes its rows away.
LEMMA EndApart ==
  ASSUME KeysApart, NEW p, EndInserts(p), UNCHANGED coll
  PROVE  KeysApart'
BY DEF KeysApart, EndInserts, Inserting, NoInsert

\* Its commit turns them into committed ones.
LEMMA CommitApart ==
  ASSUME CollectionsTypeOK, KeysApart, NEW p \in Processes, CommitRows(p)
  PROVE  KeysApart'
<1>1. \A i \in InsertedBy(p) : i \in Ids /\ Inserting(i) /\ coll'[i] = inserting[i].row
  BY NoneApart DEF InsertedBy, Inserting, CommitRows
<1>2. \A i \in Ids : i \notin InsertedBy(p) => coll'[i] = coll[i]
  BY DEF CommitRows
<1>3. \A i \in Ids : Inserting(i)' => Inserting(i) /\ inserting'[i] = inserting[i]
  BY DEF CommitRows, EndInserts, Inserting, NoInsert
<1> QED BY <1>1, <1>2, <1>3 DEF KeysApart

\* A request keeps keys apart, and holds a row only when it is about to commit.
LEMMA CallerApart ==
  ASSUME SeedTypeOK, KeysApart, OwnInserts, NEW c \in Callers, CallerStep(c), UNCHANGED seed
  PROVE  KeysApart' /\ OwnInserts'
<1>1. call \in [Callers -> [step : {"idle", "insert", "commit", "delete", "conflict", "unknown"},
                            by : Users \cup Strangers \cup {None},
                            title : Titles \cup {None}, id : Ids \cup {None}]]
      /\ CollectionsTypeOK /\ c \in Processes
  BY DEF SeedTypeOK, CollectionsTypeOK, Processes
<1>2. \A b \in Callers \ {c} : call'[b] = call[b]
  BY <1>1
  DEF CallerStep, CreateBegin, CreateFlush, CreateCommit, CreateRefused, CallAborted,
      DeleteFind, DeleteCommit, Respond
<1>3. \A d \in Seeders : Ahead(d)' = Ahead(d)
  BY DEF Ahead
<1>4. CASE CreateBegin(c) \/ DeleteFind(c) \/ CreateRefused(c)
  <2>1. \A i \in Ids : inserting[i].by # c
    BY <1>4 DEF CreateBegin, DeleteFind, CreateRefused, OwnInserts
  <2>2. UNCHANGED <<coll, inserting>>
    BY <1>4 DEF CreateBegin, DeleteFind, CreateRefused
  <2> QED BY <1>2, <1>3, <2>1, <2>2 DEF KeysApart, OwnInserts, Inserting
<1>5. CASE CreateFlush(c)
  <2> DEFINE r == Private(call[c].by, call[c].title)
  <2>1. \A i \in Ids : inserting[i].by # c
    BY <1>5 DEF CreateFlush, OwnInserts
  <2>2. UNCHANGED coll
    BY <1>5 DEF CreateFlush
  <2>3. CASE UNCHANGED inserting
    BY <1>2, <1>3, <2>1, <2>2, <2>3 DEF KeysApart, OwnInserts, Inserting
  <2>4. CASE ~Taken(r) /\ InsertRow(c, r) /\ call' = [call EXCEPT ![c].step = "commit"]
    <3>1. KeysApart'
      BY <1>1, <1>5, <2>1, <2>2, <2>4, InsertApart DEF CreateFlush
    <3>2. call'[c].step = "commit"
      BY <1>1, <2>4
    <3>3. PICK k \in FreshIds : inserting' = [inserting EXCEPT ![k] = [by |-> c, row |-> r]]
      BY <2>4 DEF InsertRow
    <3>4. \A i \in Ids : inserting'[i] = inserting[i] \/ inserting'[i].by = c
      BY <1>1, <3>3 DEF CollectionsTypeOK
    <3>5. OwnInserts'
      BY <1>2, <1>3, <3>2, <3>4, NoneApart DEF OwnInserts
    <3> QED BY <3>1, <3>5
  <2> QED BY <1>5, <2>3, <2>4 DEF CreateFlush
<1>6. CASE CreateCommit(c) \/ CallAborted(c)
  <2>1. EndInserts(c)
    BY <1>6 DEF CreateCommit, CommitRows, CallAborted
  <2>2. KeysApart'
    BY <1>1, <1>6, CommitApart, EndApart DEF CreateCommit, CallAborted
  <2>3. \A i \in Ids : \/ inserting'[i] = inserting[i] /\ inserting[i].by # c
                     \/ inserting'[i] = NoInsert
    BY <2>1 DEF EndInserts, InsertedBy
  <2>4. OwnInserts'
    BY <1>2, <1>3, <2>3, NoneApart DEF OwnInserts, NoInsert, Processes
  <2> QED BY <2>2, <2>4
<1>7. CASE DeleteCommit(c)
  <2>1. \A i \in Ids : inserting[i].by # c
    BY <1>7 DEF DeleteCommit, OwnInserts
  <2>2. \A i \in Ids : coll'[i] \in {None, coll[i]}
    BY <1>1, <1>7 DEF DeleteCommit, CollectionsTypeOK
  <2>3. UNCHANGED inserting
    BY <1>7 DEF DeleteCommit
  <2>4. KeysApart'
    BY <2>2, <2>3 DEF KeysApart, Inserting
  <2> QED BY <1>2, <1>3, <2>1, <2>3, <2>4 DEF OwnInserts
<1> QED BY <1>4, <1>5, <1>6, <1>7 DEF CallerStep

\* Where a seeder's step takes it, and that it takes no other one anywhere.
LEMMA GoOnFacts ==
  ASSUME SeedTypeOK, NEW d \in Seeders, NEW step, NEW known, NEW todo, NEW found,
         GoOn(d, step, known, todo, found)
  PROVE  /\ \A e \in Seeders \ {d} : seed'[e] = seed[e]
         /\ seed'[d].step = step /\ seed'[d].library = seed[d].library
         /\ seed'[d].known = known /\ seed'[d].todo = todo /\ seed'[d].found = found
BY DEF SeedTypeOK, GoOn

\* The same for a step between libraries.
LEMMA SeedAtFacts ==
  ASSUME SeedTypeOK, NEW d \in Seeders, NEW step, NEW n, seed' = [seed EXCEPT ![d] = SeedAt(step, n)]
  PROVE  /\ \A e \in Seeders \ {d} : seed'[e] = seed[e]
         /\ seed'[d].step = step /\ seed'[d].library = n /\ seed'[d].todo = {}
BY DEF SeedTypeOK, SeedAt

\* No step within a run takes a seeder back to a library, and creating a collection
\* takes it past its own.
LEMMA AheadShrinks ==
  ASSUME SeedTypeOK, NEW d \in Seeders, SeedStep(d), ~SeedRollback(d), ~SeedCommit(d)
  PROVE  /\ \A e \in Seeders : Ahead(e)' \subseteq Ahead(e)
         /\ CreateCollection(d) => seed[d].library \in Ahead(d) /\ seed[d].library \notin Ahead(d)'
<1>1. /\ DOMAIN Libraries = 1..2 /\ Len(Libraries) = 2
      /\ seed[d].library \in 0..2
      /\ seed[d].step \notin {"idle", "commit"} => seed[d].library # 0
  BY LibraryFacts DEF SeedTypeOK
<1>2. CASE SeedBegin(d)
  <2>1. /\ \A e \in Seeders \ {d} : seed'[e] = seed[e]
        /\ seed'[d].step = "read" /\ seed[d].step = "idle"
    BY <1>2, SeedAtFacts DEF SeedBegin
  <2> QED BY <1>2, <2>1 DEF Ahead, SeedBegin, CreateCollection
<1>3. ASSUME NEW step \in {"find", "load", "create"} \cup Filing, NEW known, NEW todo,
             NEW found, GoOn(d, step, known, todo, found), seed[d].step \notin {"idle", "commit"},
             step \in {"find", "create"} => seed[d].step \in {"read", "find", "create"},
             CreateCollection(d) => seed[d].step = "create" /\ step = "load"
      PROVE  /\ \A e \in Seeders : Ahead(e)' \subseteq Ahead(e)
             /\ CreateCollection(d) => seed[d].library \in Ahead(d) /\ seed[d].library \notin Ahead(d)'
  <2>1. /\ \A e \in Seeders \ {d} : seed'[e] = seed[e]
        /\ seed'[d].step = step /\ seed'[d].library = seed[d].library
    BY <1>3, GoOnFacts
  <2>2. \A e \in Seeders \ {d} : Ahead(e)' = Ahead(e)
    BY <2>1 DEF Ahead
  <2>3. seed[d].step \in {"read", "find", "create", "load"} \cup Filing
    BY <1>3 DEF SeedTypeOK
  <2>4. ASSUME NEW n \in Ahead(d)'
        PROVE  n \in Ahead(d)
    <3>1. n \in 1..2 /\ n >= seed[d].library
      BY <1>1, <1>3, <2>1, <2>4 DEF Ahead, Filing, Rewriting
    <3>2. seed[d].step \notin {"read", "find", "create"} => n > seed[d].library
      BY <1>1, <1>3, <2>1, <2>4 DEF Ahead, Filing, Rewriting
    <3> QED BY <1>1, <2>3, <3>1, <3>2 DEF Ahead
  <2>5. CreateCollection(d) => seed[d].library \in Ahead(d) /\ seed[d].library \notin Ahead(d)'
    BY <1>1, <1>3, <2>1 DEF Ahead
  <2> QED BY <2>2, <2>4, <2>5
<1>5. CASE ReadLibraryFiles(d)
  <2>1. GoOn(d, "find", seed[d].known, seed[d].todo, {}) /\ seed[d].step = "read"
    BY <1>5 DEF ReadLibraryFiles, At
  <2> QED BY <1>3, <2>1 DEF CreateCollection
<1>6. CASE FindCollection(d)
  <2>1. PICK step \in {"create", "load"} : GoOn(d, step, seed[d].known, seed[d].todo, {})
    BY <1>6 DEF FindCollection, At
  <2> QED BY <1>3, <1>6, <2>1 DEF CreateCollection, FindCollection
<1>7. CASE CreateCollection(d)
  <2>1. GoOn(d, "load", seed[d].known, seed[d].todo, {}) /\ seed[d].step = "create"
    BY <1>7 DEF CreateCollection, At
  <2> QED BY <1>3, <2>1
<1>8. CASE \/ LoadSources(d) \/ TakeFile(d) \/ WriteRow(d)
           \/ SelectDocuments(d) \/ DeleteDocuments(d) \/ AddDocument(d)
  <2>1. PICK step \in Filing : \E known, todo, found : GoOn(d, step, known, todo, found)
    BY <1>8, StatementOrder
    DEF LoadSources, TakeFile, WriteRow, SelectDocuments, DeleteDocuments, AddDocument, At,
        FileDone, Filing, Rewriting
  <2>2. seed[d].step \in {"load"} \cup Filing
    BY <1>8 DEF LoadSources, TakeFile, WriteRow, SelectDocuments, DeleteDocuments, AddDocument,
       Filing, Rewriting
  <2>3. step \notin {"find", "create"} /\ seed[d].step \notin {"idle", "create", "commit"}
    BY <2>2 DEF Filing, Rewriting
  <2> QED BY <1>3, <2>1, <2>3 DEF CreateCollection
<1>4. CASE NextLibrary(d)
  <2>1. /\ \A e \in Seeders \ {d} : seed'[e] = seed[e]
        /\ \/ seed'[d].step = "commit"
           \/ seed'[d].step = "read" /\ seed'[d].library = seed[d].library + 1
    BY <1>1, <1>4 DEF NextLibrary, SeedAt, SeedTypeOK
  <2> QED BY <1>1, <1>4, <2>1 DEF Ahead, NextLibrary, CreateCollection, Filing, Rewriting
<1> QED BY <1>2, <1>4, <1>5, <1>6, <1>7, <1>8 DEF SeedStep, SeedFail

\* A seeder keeps keys apart, and its own rows behind it.
LEMMA SeederApart ==
  ASSUME SeedTypeOK, KeysApart, OwnInserts, NEW d \in Seeders, SeedStep(d)
  PROVE  KeysApart' /\ OwnInserts'
<1> USE NoneApart
<1>1. CollectionsTypeOK /\ d \in Processes /\ \A c \in Callers : c # d
  BY DEF SeedTypeOK, Processes
<1>2. UNCHANGED call
  BY DEF SeedStep, SeedBegin, ReadLibraryFiles, FindCollection, CreateCollection, LoadSources,
     TakeFile, WriteRow, SelectDocuments, DeleteDocuments, AddDocument, NextLibrary, SeedCommit,
     SeedFail, SeedRollback, collections
<1>3. CASE SeedRollback(d) \/ SeedCommit(d)
  <2>1. EndInserts(d) /\ \A e \in Seeders \ {d} : seed'[e] = seed[e]
    BY <1>3 DEF SeedRollback, SeedCommit, CommitRows, SeedTypeOK
  <2>2. KeysApart'
    BY <1>1, <1>3, CommitApart, EndApart DEF SeedRollback, SeedCommit
  <2>3. \A i \in Ids : \/ inserting'[i] = inserting[i] /\ inserting[i].by # d
                     \/ inserting'[i] = NoInsert
    BY <2>1 DEF EndInserts, InsertedBy
  <2>4. \A e \in Seeders \ {d} : Ahead(e)' = Ahead(e)
    BY <2>1 DEF Ahead
  <2>5. OwnInserts'
    BY <1>2, <2>3, <2>4 DEF OwnInserts, NoInsert, Processes
  <2> QED BY <2>2, <2>5
<1>4. CASE ~SeedRollback(d) /\ CreateCollection(d)
  <2> DEFINE r == Public(Libraries[seed[d].library])
  <2>1. /\ InsertBlockers(d, r) = {} /\ ~Taken(r) /\ InsertRow(d, r) /\ UNCHANGED coll
        /\ seed[d].step = "create"
    BY <1>4 DEF CreateCollection
  <2>2. /\ \A e \in Seeders : Ahead(e)' \subseteq Ahead(e)
        /\ seed[d].library \in Ahead(d) /\ seed[d].library \notin Ahead(d)'
    BY <1>4, <2>1, AheadShrinks DEF SeedCommit
  <2>3. \A i \in Ids : inserting[i].by = d => inserting[i].row # r
    BY <2>2 DEF OwnInserts
  <2>4. KeysApart'
    BY <1>1, <2>1, <2>3, InsertApart
  <2>5. PICK k \in FreshIds : inserting' = [inserting EXCEPT ![k] = [by |-> d, row |-> r]]
    BY <2>1 DEF InsertRow
  <2>6. \A i \in Ids : inserting'[i] = inserting[i] \/ inserting'[i] = [by |-> d, row |-> r]
    BY <1>1, <2>5 DEF CollectionsTypeOK
  <2>7. \A n \in Ahead(d)' : r # Public(Libraries[n])
    BY <2>2, LibraryFacts DEF Public, Ahead
  <2>8. OwnInserts'
    BY <1>1, <1>2, <2>2, <2>6, <2>7 DEF OwnInserts
  <2> QED BY <2>4, <2>8
<1>5. CASE ~SeedRollback(d) /\ ~SeedCommit(d) /\ ~CreateCollection(d)
  <2>1. UNCHANGED <<coll, inserting>>
    BY <1>5 DEF SeedStep, SeedBegin, ReadLibraryFiles, FindCollection, LoadSources,
       TakeFile, WriteRow, SelectDocuments, DeleteDocuments, AddDocument, NextLibrary, SeedFail, collections
  <2>2. \A e \in Seeders : Ahead(e)' \subseteq Ahead(e)
    BY <1>5, AheadShrinks
  <2> QED BY <1>2, <2>1, <2>2 DEF KeysApart, OwnInserts, Inserting
<1> QED BY <1>3, <1>4, <1>5

\* It holds initially ...
LEMMA InitApart == SeedInit => TableInv
<1> SUFFICES ASSUME SeedInit PROVE KeysApart /\ OwnInserts
  BY InitTyped DEF TableInv
<1>1. \A i \in Ids : coll[i] = None /\ inserting[i].by = None
  BY DEF SeedInit, CollectionsInit, NoInsert
<1> QED BY <1>1, NoneApart DEF KeysApart, OwnInserts, Inserting, Processes

\* ... and every step keeps it.
LEMMA NextApart == TableInv /\ [SeedNext]_seedVars => TableInv'
<1> SUFFICES ASSUME TableInv, [SeedNext]_seedVars PROVE TableInv'
  OBVIOUS
<1>1. SeedTypeOK /\ KeysApart /\ OwnInserts /\ SeedTypeOK'
  BY NextTyped DEF TableInv
<1>2. ASSUME NEW d \in Seeders, SeedStep(d) PROVE KeysApart' /\ OwnInserts'
  BY <1>1, <1>2, SeederApart
<1>3. ASSUME NEW c \in Callers, CallerStep(c), UNCHANGED <<tree, source, work, seed>>
      PROVE  KeysApart' /\ OwnInserts'
  BY <1>1, <1>3, CallerApart
<1>4. CASE Edit \/ UNCHANGED seedVars
  <2>1. UNCHANGED <<coll, inserting, call, seed>>
    BY <1>4 DEF Edit, seedVars, collections
  <2>2. \A d \in Seeders : Ahead(d)' = Ahead(d)
    BY <2>1 DEF Ahead
  <2>3. KeysApart'
    BY <1>1, <2>1 DEF KeysApart, Inserting
  <2>4. OwnInserts'
    BY <1>1, <2>1, <2>2 DEF OwnInserts
  <2> QED BY <1>1, <2>3, <2>4 DEF TableInv
<1> QED BY <1>1, <1>2, <1>3, <1>4 DEF SeedNext, TableInv

\* An owner has one library of a kind and name, and there is one public one, however
\* many requests and seeding commands create it at the same time.
THEOREM OneLibrary == SeedSpec => []OneLibraryPerName
<1>1. TableInv => OneLibraryPerName
  BY DEF TableInv, KeysApart, OneLibraryPerName
<1> QED BY <1>1, InitApart, NextApart, PTL DEF SeedSpec

\* A caller is told that a name is taken only while it owns a library of that name.
THEOREM RealConflicts == SeedSpec => ConflictIsReal
<1>1. ASSUME SeedTypeOK, [SeedNext]_seedVars, NEW c \in Callers,
             call[c].step = "insert", call'[c].step = "conflict"
      PROVE  \E i \in Ids : coll[i] = Private(call[c].by, call[c].title)
  <2>1. ASSUME NEW d \in Seeders, SeedStep(d) PROVE UNCHANGED call
    BY <2>1
    DEF SeedStep, SeedBegin, ReadLibraryFiles, FindCollection, CreateCollection, LoadSources,
        TakeFile, WriteRow, SelectDocuments, DeleteDocuments, AddDocument, NextLibrary, SeedCommit,
     SeedFail, SeedRollback, collections
  <2>2. Edit \/ UNCHANGED seedVars => UNCHANGED call
    BY DEF Edit, seedVars, collections
  <2>3. PICK b \in Callers : CallerStep(b)
    BY <1>1, <2>1, <2>2 DEF SeedNext
  <2>4. CreateFlush(b) /\ b = c
    <3>1. \A a \in Callers \ {b} : call'[a] = call[a]
      BY <1>1, <2>3
      DEF CallerStep, CreateBegin, CreateFlush, CreateCommit, CreateRefused, CallAborted,
          DeleteFind, DeleteCommit, Respond, SeedTypeOK, CollectionsTypeOK
    <3>2. b = c
      BY <1>1, <3>1
    <3>3. CASE CreateCommit(c) \/ CreateRefused(c) \/ CallAborted(c) \/ DeleteCommit(c)
      <4>1. call'[c].step = "idle"
        BY <1>1, <3>3
        DEF CreateCommit, CreateRefused, CallAborted, DeleteCommit, Respond, NoCall, Call,
            SeedTypeOK, CollectionsTypeOK
      <4> QED BY <1>1, <4>1
    <3>4. CASE CreateBegin(c) \/ DeleteFind(c)
      BY <1>1, <3>4 DEF CreateBegin, DeleteFind
    <3> QED BY <2>3, <3>2, <3>3, <3>4 DEF CallerStep
  <2> QED BY <1>1, <2>4 DEF CreateFlush, Taken, SameKey, Classify, SeedTypeOK, CollectionsTypeOK
<1>2. SeedTypeOK /\ [SeedNext]_seedVars
        => [\A c \in Callers :
              call[c].step = "insert" /\ call'[c].step = "conflict"
                => \E i \in Ids : coll[i] = Private(call[c].by, call[c].title)]_collections
  BY <1>1
<1> QED BY <1>2, InitTyped, NextTyped, PTL DEF SeedSpec, ConflictIsReal

-----------------------------------------------------------------------------
(* Sources that say what the files say.                                    *)

\* Two files of one library have different places in its order.
LEMMA Ordered ==
  \A n \in DOMAIN Libraries : \A f, g \in In(n) : /\ f[2] \in Nat /\ g[2] \in Nat
                                                  /\ f # g => f[2] # g[2]
BY SeedAssumption DEF In

\* So there is one next file.
LEMMA OneNext ==
  ASSUME SeedTypeOK, NEW d \in Seeders, Progress(d), seed[d].step \in Filing, NEW f \in NextFiles(d)
  PROVE  /\ f \in Files /\ f \in seed[d].todo /\ f \in Here(d) /\ tree[f] # None
         /\ \A g \in NextFiles(d) : g = f
         /\ \A g \in seed[d].todo \ {f} : f[2] < g[2]
         /\ seed[d].library \in DOMAIN Libraries
<1>1. seed[d].library \in DOMAIN Libraries
  BY LibraryFacts DEF SeedTypeOK, Filing, Rewriting
<1>2. \A g \in seed[d].todo : g \in Here(d) /\ tree[g] # None /\ g \in Files
  BY DEF Progress, SeedTypeOK
<1>3. f \in seed[d].todo /\ \A g \in seed[d].todo : f[2] <= g[2]
  BY DEF NextFiles
<1>4. \A g \in seed[d].todo : f[2] \in Nat /\ g[2] \in Nat /\ (f # g => f[2] # g[2])
  BY <1>1, <1>2, <1>3, Ordered DEF Here
<1>5. \A g \in NextFiles(d) : g \in seed[d].todo /\ g[2] <= f[2]
  BY <1>3 DEF NextFiles
<1> QED BY <1>1, <1>2, <1>3, <1>4, <1>5

\* The row's statement is one step of a file ...
LEMMA WriteStep ==
  ASSUME SeedTypeOK, NEW d \in Seeders, Progress(d), WriteRow(d), ~SeedRollback(d)
  PROVE  \E f \in NextFiles(d) :
           /\ seed[d].step = "write"
           /\ WriteBlockers(d, f, tree[f]) = {}
           /\ seed[d].known[f] = None => source[f] = NoSource
           /\ At(d, IF seed[d].known[f] = None THEN "ingest" ELSE "purge")
           /\ \A g \in Files \ {f} : work'[d][g] = work[d][g]
           /\ work'[d][f] = [work[d][f] EXCEPT !.content = tree[f]]
           /\ \A e \in Seeders \ {d} : work'[e] = work[e]
           /\ UNCHANGED <<tree, source>>
<1>1. PICK f \in NextFiles(d) :
        /\ WriteBlockers(d, f, tree[f]) = {}
        /\ seed[d].known[f] = None => source[f] = NoSource
        /\ work' = [work EXCEPT ![d][f].content = tree[f]]
        /\ At(d, IF seed[d].known[f] = None THEN "ingest" ELSE "purge")
        /\ UNCHANGED <<tree, source>>
  BY StatementOrder DEF WriteRow
<1>2. seed[d].step = "write" /\ f \in Files
  BY DEF WriteRow, NextFiles, SeedTypeOK
<1>3. /\ \A g \in Files \ {f} : work'[d][g] = work[d][g]
      /\ work'[d][f] = [work[d][f] EXCEPT !.content = tree[f]]
      /\ \A e \in Seeders \ {d} : work'[e] = work[e]
  BY <1>1, <1>2 DEF SeedTypeOK
<1> QED BY <1>1, <1>2, <1>3

\* ... and those of its documents are the rest.
Left(d, f, step) == IF step = "file" THEN seed[d].todo \ {f} ELSE seed[d].todo
Replaces(d) == SelectDocuments(d) \/ DeleteDocuments(d) \/ AddDocument(d)
LEMMA ReplaceStep ==
  ASSUME SeedTypeOK, NEW d \in Seeders, Replaces(d)
  PROVE  /\ UNCHANGED <<tree, source>>
         /\ \A e \in Seeders \ {d} : work'[e] = work[e]
         /\ \E f \in NextFiles(d) :
              /\ f \in Files
              /\ \A g \in Files \ {f} : work'[d][g] = work[d][g]
              /\ \/ /\ seed[d].step = "purge"
                    /\ work'[d][f] = work[d][f]
                    /\ GoOn(d, "purging", seed[d].known, seed[d].todo, source[f].docs)
                 \/ /\ seed[d].step = "purging"
                    /\ work'[d][f] = [work[d][f] EXCEPT !.purged = seed[d].found \cap source[f].docs]
                    /\ GoOn(d, "ingest", seed[d].known, seed[d].todo, {})
                 \/ /\ seed[d].step = "ingest"
                    /\ work'[d][f] = [work[d][f] EXCEPT !.docs = {<<tree[f], d>>}]
                    /\ GoOn(d, "file", seed[d].known, seed[d].todo \ {f}, {})
<1>1. UNCHANGED <<tree, source>>
  BY DEF Replaces, SelectDocuments, DeleteDocuments, AddDocument
<1>2. NextFiles(d) \subseteq Files
  BY DEF NextFiles, SeedTypeOK
<1>3. CASE SelectDocuments(d)
  BY <1>1, <1>2, <1>3, StatementOrder DEF SelectDocuments
<1>4. CASE DeleteDocuments(d)
  <2>1. PICK f \in NextFiles(d) :
          /\ work' = [work EXCEPT ![d][f].purged = seed[d].found \cap source[f].docs]
          /\ GoOn(d, "ingest", seed[d].known, seed[d].todo, {})
    BY <1>4, StatementOrder DEF DeleteDocuments, At
  <2>2. /\ \A g \in Files \ {f} : work'[d][g] = work[d][g]
        /\ work'[d][f] = [work[d][f] EXCEPT !.purged = seed[d].found \cap source[f].docs]
        /\ \A e \in Seeders \ {d} : work'[e] = work[e]
    BY <1>2, <2>1 DEF SeedTypeOK
  <2> QED BY <1>1, <1>2, <1>4, <2>1, <2>2 DEF DeleteDocuments
<1>5. CASE AddDocument(d)
  <2>1. PICK f \in NextFiles(d) :
          /\ work' = [work EXCEPT ![d][f].docs = {<<tree[f], d>>}]
          /\ GoOn(d, "file", seed[d].known, seed[d].todo \ {f}, {})
    BY <1>5 DEF AddDocument, FileDone
  <2>2. /\ \A g \in Files \ {f} : work'[d][g] = work[d][g]
        /\ work'[d][f] = [work[d][f] EXCEPT !.docs = {<<tree[f], d>>}]
        /\ \A e \in Seeders \ {d} : work'[e] = work[e]
    BY <1>2, <2>1 DEF SeedTypeOK
  <2> QED BY <1>1, <1>2, <1>5, <2>1, <2>2 DEF AddDocument
<1> QED BY <1>3, <1>4, <1>5 DEF Replaces

\* Whichever it is, the file is behind it or goes on.
LEMMA ReplaceMoves ==
  ASSUME SeedTypeOK, NEW d \in Seeders, Replaces(d)
  PROVE  \E f \in NextFiles(d), step \in {"purging", "ingest", "file"} :
           /\ seed[d].step \in Rewriting /\ f \in Files
           /\ \E found : GoOn(d, step, seed[d].known, Left(d, f, step), found)
           /\ \A g \in Files \ {f} : work'[d][g] = work[d][g]
           /\ work'[d][f].content = work[d][f].content
           /\ UNCHANGED <<tree, source>>
<1>1. PICK f \in NextFiles(d) :
        /\ f \in Files
        /\ \A g \in Files \ {f} : work'[d][g] = work[d][g]
        /\ \/ /\ seed[d].step = "purge"
              /\ work'[d][f] = work[d][f]
              /\ GoOn(d, "purging", seed[d].known, seed[d].todo, source[f].docs)
           \/ /\ seed[d].step = "purging"
              /\ work'[d][f] = [work[d][f] EXCEPT !.purged = seed[d].found \cap source[f].docs]
              /\ GoOn(d, "ingest", seed[d].known, seed[d].todo, {})
           \/ /\ seed[d].step = "ingest"
              /\ work'[d][f] = [work[d][f] EXCEPT !.docs = {<<tree[f], d>>}]
              /\ GoOn(d, "file", seed[d].known, seed[d].todo \ {f}, {})
  BY ReplaceStep
<1>2. UNCHANGED <<tree, source>> /\ work[d][f] \in Work
  BY <1>1, ReplaceStep DEF SeedTypeOK
<1>3. work'[d][f].content = work[d][f].content /\ seed[d].step \in Rewriting
  BY <1>1, <1>2 DEF Work, Rewriting
<1>4. CASE GoOn(d, "purging", seed[d].known, seed[d].todo, source[f].docs)
  BY <1>1, <1>2, <1>3, <1>4 DEF Left
<1>5. CASE GoOn(d, "ingest", seed[d].known, seed[d].todo, {})
  BY <1>1, <1>2, <1>3, <1>5 DEF Left
<1>6. CASE GoOn(d, "file", seed[d].known, seed[d].todo \ {f}, {})
  BY <1>1, <1>2, <1>3, <1>6 DEF Left
<1> QED BY <1>1, <1>4, <1>5, <1>6

\* It holds initially: there is nothing yet.
LEMMA InitContent == SeedInit => ContentInv
<1> SUFFICES ASSUME SeedInit PROVE ContentInv
  OBVIOUS
<1>1. ASSUME NEW d \in Seeders PROVE WrittenIsTree(d) /\ Progress(d)
  <2>1. \A f \in Files : work[d][f] = NoWork /\ f \notin Written(d)
    BY DEF SeedInit, Written, NoWork
  <2>2. seed[d].step = "idle"
    BY DEF SeedInit, NoSeed, SeedAt
  <2> QED BY <2>1, <2>2 DEF WrittenIsTree, Progress, Done, Written, Filing, Rewriting
<1> QED BY <1>1, InitTyped DEF ContentInv

\* What a process sees of a file stays what the tree says when the file's committed
\* row changes only to what the tree says.
LEMMA StillMirrored ==
  ASSUME NEW e \in Seeders, NEW f \in Files, Mirrored(e, f), UNCHANGED tree,
         work'[e][f] = work[e][f],
         source'[f] = source[f] \/ source'[f].content = tree[f]
  PROVE  Mirrored(e, f)'
BY DEF Mirrored, Seen, Written

\* So another seeder's progress stays.
LEMMA OthersProgress ==
  ASSUME NEW e \in Seeders, WrittenIsTree(e), Progress(e), UNCHANGED tree,
         work'[e] = work[e], seed'[e] = seed[e],
         \A f \in Files : source'[f] = source[f] \/ source'[f].content = tree[f]
  PROVE  WrittenIsTree(e)' /\ Progress(e)'
<1>1. \A f \in Files : Mirrored(e, f) => Mirrored(e, f)'
  BY StillMirrored
<1>2. WrittenIsTree(e)'
  BY DEF WrittenIsTree, Written, NextFiles
<1>3. Done(e)' = Done(e) /\ Here(e)' = Here(e)
  BY DEF Done, Here
<1>4. \A n : In(n) \subseteq Files
  BY DEF In
<1>5. Progress(e)'
  BY <1>1, <1>3, <1>4 DEF Progress, Here, Unchanged
<1> QED BY <1>2, <1>5

\* A step in which a seeder writes nothing keeps what it has written ...
LEMMA NoWrite ==
  ASSUME NEW d \in Seeders, WrittenIsTree(d), UNCHANGED <<tree, source, work>>,
         seed[d].step = "idle" \/ seed'[d].step # "idle", seed'[d].step \notin Rewriting
  PROVE  /\ WrittenIsTree(d)'
         /\ \A f \in Files : Mirrored(d, f)' = Mirrored(d, f)
<1>1. Written(d)' = Written(d)
  BY DEF Written
<1>2. WrittenIsTree(d)'
  BY <1>1 DEF WrittenIsTree, Written
<1>3. \A f \in Files : Mirrored(d, f)' = Mirrored(d, f)
  BY <1>1 DEF Mirrored, Seen
<1> QED BY <1>2, <1>3

\* ... and what it has got through, whichever step that is.
LEMMA OwnProgress ==
  ASSUME ContentInv, NEW d \in Seeders, SeedStep(d), UNCHANGED <<tree, source, work>>,
         ~SeedRollback(d), ~SeedCommit(d), ~WriteRow(d), ~Replaces(d)
  PROVE  WrittenIsTree(d)' /\ Progress(d)'
<1>1. /\ SeedTypeOK /\ WrittenIsTree(d) /\ Progress(d)
      /\ seed[d].library \in 0..2 /\ DOMAIN Libraries = 1..2 /\ Len(Libraries) = 2
      /\ \A n : In(n) \subseteq Files
  BY LibraryFacts DEF ContentInv, SeedTypeOK, In
<1>2. ASSUME seed[d].step = "idle" \/ seed'[d].step # "idle", seed'[d].step \notin Rewriting
      PROVE  WrittenIsTree(d)' /\ \A f \in Files : Mirrored(d, f)' = Mirrored(d, f)
  BY <1>1, <1>2, NoWrite
<1>3. CASE SeedBegin(d)
  <2>1. seed[d].step = "idle" /\ seed'[d].step = "read" /\ seed'[d].library = 1
    BY <1>1, <1>3 DEF SeedBegin, SeedAt, SeedTypeOK
  <2> QED BY <1>1, <1>2, <2>1 DEF Progress, Done, Filing, Rewriting
<1>4. CASE ReadLibraryFiles(d) \/ FindCollection(d) \/ CreateCollection(d)
  <2>1. PICK step \in {"find", "create", "load"} :
          GoOn(d, step, seed[d].known, seed[d].todo, {})
    BY <1>4 DEF ReadLibraryFiles, FindCollection, CreateCollection, At
  <2>2. seed'[d].step \in {"find", "create", "load"} /\ seed'[d].library = seed[d].library
    BY <1>1, <2>1, GoOnFacts
  <2>3. seed[d].step \in {"read", "find", "create"}
    BY <1>4 DEF ReadLibraryFiles, FindCollection, CreateCollection
  <2>4. Done(d)' = Done(d)
    BY <2>2, <2>3 DEF Done
  <2> QED BY <1>1, <1>2, <2>2, <2>4 DEF Progress, Filing, Rewriting
<1>5. CASE LoadSources(d)
  <2> DEFINE known == [f \in Files |-> IF f \in Here(d) THEN Seen(d, f) ELSE None]
             todo == {f \in Here(d) : tree[f] # None}
  <2>1. GoOn(d, "file", known, todo, {}) /\ seed[d].step = "load"
    BY <1>5 DEF LoadSources
  <2>2. /\ seed'[d].step = "file" /\ seed'[d].library = seed[d].library
        /\ seed'[d].known = known /\ seed'[d].todo = todo
    BY <1>1, <2>1, GoOnFacts
  <2>3. Done(d)' = Done(d) /\ Here(d)' = Here(d) /\ Here(d) \subseteq Files
    BY <1>1, <2>1, <2>2 DEF Done, Here
  <2>4. \A f \in Here(d) : Unchanged(d, f)' => Mirrored(d, f)
    BY <2>2, <2>3 DEF Unchanged, Mirrored
  <2>5. \A f \in Here(d) \ todo : Mirrored(d, f)
    BY DEF Mirrored
  <2> QED BY <1>1, <1>2, <2>2, <2>3, <2>4, <2>5 DEF Progress, Filing, Rewriting
<1>6. CASE TakeFile(d)
  <2>1. PICK f \in NextFiles(d) :
          \/ GoOn(d, "file", seed[d].known, seed[d].todo \ {f}, {}) /\ Unchanged(d, f)
          \/ GoOn(d, "write", seed[d].known, seed[d].todo, {})
    BY <1>6, StatementOrder DEF TakeFile, At, FileDone
  <2>2. /\ seed'[d].step \in {"file", "write"} /\ seed'[d].library = seed[d].library
        /\ seed'[d].known = seed[d].known
        /\ \/ seed'[d].todo = seed[d].todo \ {f} /\ Unchanged(d, f)
           \/ seed'[d].todo = seed[d].todo
    BY <1>1, <2>1, GoOnFacts
  <2>3. seed[d].step = "file"
    BY <1>6 DEF TakeFile
  <2>4. Done(d)' = Done(d) /\ Here(d)' = Here(d) /\ Here(d) \subseteq Files
    BY <1>1, <2>2, <2>3 DEF Done, Here
  <2>5. \A g \in Here(d) : Unchanged(d, g)' = Unchanged(d, g)
    BY <2>2 DEF Unchanged
  <2>6. \A g \in Here(d) \ seed'[d].todo : Mirrored(d, g)
    BY <1>1, <2>2, <2>3 DEF Progress, Filing, Rewriting
  <2>7. seed'[d].todo \subseteq seed[d].todo
    BY <2>2
  <2> QED BY <1>1, <1>2, <2>2, <2>3, <2>4, <2>5, <2>6, <2>7 DEF Progress, Filing, Rewriting
<1>7. CASE NextLibrary(d)
  <2>1. /\ seed[d].step = "file" /\ seed[d].todo = {}
        /\ \/ seed'[d].step = "commit" /\ seed[d].library = 2
           \/ seed'[d].step = "read" /\ seed'[d].library = seed[d].library + 1
    BY <1>1, <1>7 DEF NextLibrary, SeedAt, SeedTypeOK
  <2>2. \A f \in In(seed[d].library) : Mirrored(d, f)
    BY <1>1, <2>1 DEF Progress, Here, Filing, Rewriting
  <2>3. Done(d)' \subseteq Done(d) \cup {seed[d].library}
    BY <1>1, <2>1 DEF Done
  <2> QED BY <1>1, <1>2, <2>1, <2>2, <2>3 DEF Progress, Filing, Rewriting
<1> QED BY <1>3, <1>4, <1>5, <1>6, <1>7 DEF SeedStep, SeedFail, Replaces

\* Writing a file's row makes what the seeder sees of it what the tree says ...
LEMMA WriteProgress ==
  ASSUME ContentInv, NEW d \in Seeders, WriteRow(d), ~SeedRollback(d)
  PROVE  WrittenIsTree(d)' /\ Progress(d)'
<1>1. /\ SeedTypeOK /\ WrittenIsTree(d) /\ Progress(d)
      /\ \A n : In(n) \subseteq Files
  BY DEF ContentInv, In
<1>2. PICK f \in NextFiles(d), step \in {"ingest", "purge"} :
        /\ seed[d].step = "write"
        /\ GoOn(d, step, seed[d].known, seed[d].todo, {})
        /\ \A g \in Files \ {f} : work'[d][g] = work[d][g]
        /\ work'[d][f] = [work[d][f] EXCEPT !.content = tree[f]]
        /\ UNCHANGED <<tree, source>>
  BY <1>1, WriteStep DEF At
<1>3. f \in Files /\ f \in Here(d) /\ tree[f] # None /\ \A g \in NextFiles(d) : g = f
  BY <1>1, <1>2, OneNext DEF Filing
<1>4. /\ seed'[d].step = step /\ seed'[d].library = seed[d].library
      /\ seed'[d].known = seed[d].known /\ seed'[d].todo = seed[d].todo
  BY <1>1, <1>2, GoOnFacts
<1>5. work'[d][f].content = tree[f]
  BY <1>1, <1>2, <1>3 DEF SeedTypeOK, Work
<1>6. Written(d)' = Written(d) \cup {f} /\ NextFiles(d)' \subseteq {f}
  <2>1. Written(d)' = Written(d) \cup {f}
    BY <1>2, <1>3, <1>5 DEF Written
  <2>2. NextFiles(d)' = NextFiles(d)
    BY <1>4 DEF NextFiles
  <2> QED BY <1>3, <2>1, <2>2
<1>7. WrittenIsTree(d)'
  <2>1. \A g \in Written(d) \cup {f} : tree[g] # None /\ work'[d][g].content = tree[g]
    BY <1>1, <1>2, <1>3, <1>5 DEF WrittenIsTree, Written
  <2>2. \A g \in Files : g \notin Written(d) \cup {f} => work'[d][g] = NoWork
    BY <1>1, <1>2 DEF WrittenIsTree
  <2>3. seed'[d].step # "idle"
    BY <1>4
  <2> QED BY <1>2, <1>6, <2>1, <2>2, <2>3 DEF WrittenIsTree
<1>8. Mirrored(d, f)'
  BY <1>2, <1>5, <1>6 DEF Mirrored, Seen
<1>9. \A g \in Files : Mirrored(d, g) => Mirrored(d, g)'
  BY <1>2, <1>8, StillMirrored
<1>10. Done(d)' = Done(d) /\ Here(d)' = Here(d) /\ Here(d) \subseteq Files
  BY <1>1, <1>2, <1>4 DEF Done, Here
<1>11. \A g \in Here(d) : Unchanged(d, g)' = Unchanged(d, g)
  BY <1>2, <1>4 DEF Unchanged
<1>12. Progress(d)'
  BY <1>1, <1>2, <1>4, <1>9, <1>10, <1>11 DEF Progress, Filing, Rewriting
<1> QED BY <1>7, <1>12

\* ... and replacing its documents does not change that.
LEMMA ReplaceProgress ==
  ASSUME ContentInv, NEW d \in Seeders, Replaces(d)
  PROVE  WrittenIsTree(d)' /\ Progress(d)'
<1>1. /\ SeedTypeOK /\ WrittenIsTree(d) /\ Progress(d)
      /\ \A n : In(n) \subseteq Files
  BY DEF ContentInv, In
<1>2. PICK f \in NextFiles(d), step \in {"purging", "ingest", "file"} :
        /\ seed[d].step \in Rewriting /\ f \in Files
        /\ \E found : GoOn(d, step, seed[d].known, Left(d, f, step), found)
        /\ \A g \in Files \ {f} : work'[d][g] = work[d][g]
        /\ work'[d][f].content = work[d][f].content
        /\ UNCHANGED <<tree, source>>
  BY <1>1, ReplaceMoves
<1>3. f \in Written(d) /\ work[d][f].content = tree[f]
  BY <1>1, <1>2 DEF WrittenIsTree
<1>4. /\ seed'[d].step = step /\ seed'[d].library = seed[d].library
      /\ seed'[d].known = seed[d].known /\ seed'[d].todo = Left(d, f, step)
  BY <1>1, <1>2, GoOnFacts
<1>5. Written(d)' = Written(d)
  BY <1>2 DEF Written
<1>6. step # "file" => NextFiles(d)' = NextFiles(d)
  BY <1>2, <1>4 DEF NextFiles, Left
<1>7. WrittenIsTree(d)'
  <2>1. \A g \in Written(d) : tree[g] # None /\ work'[d][g].content = tree[g]
    BY <1>1, <1>2, <1>3 DEF WrittenIsTree, Written
  <2>2. \A g \in Files : g \notin Written(d) => work'[d][g] = NoWork
    BY <1>1, <1>2, <1>3 DEF WrittenIsTree
  <2>3. seed'[d].step \in Rewriting => NextFiles(d)' \subseteq Written(d)
    BY <1>1, <1>2, <1>4, <1>6 DEF WrittenIsTree, Rewriting
  <2>4. seed'[d].step # "idle"
    BY <1>4
  <2> QED BY <1>2, <1>5, <2>1, <2>2, <2>3, <2>4 DEF WrittenIsTree
<1>8. \A g \in Files : Mirrored(d, g)' = Mirrored(d, g)
  BY <1>2, <1>5 DEF Mirrored, Seen
<1>9. Mirrored(d, f)
  BY <1>3 DEF Mirrored, Seen
<1>10. Done(d)' = Done(d) /\ Here(d)' = Here(d) /\ Here(d) \subseteq Files
  BY <1>1, <1>2, <1>4 DEF Done, Here, Rewriting
<1>11. \A g \in Here(d) : Unchanged(d, g)' = Unchanged(d, g)
  BY <1>2, <1>4 DEF Unchanged
<1>12. Left(d, f, step) \subseteq seed[d].todo /\ seed[d].todo \ Left(d, f, step) \subseteq {f}
  BY DEF Left
<1>13. Progress(d)'
  BY <1>1, <1>2, <1>4, <1>8, <1>9, <1>10, <1>11, <1>12 DEF Progress, Filing
<1> QED BY <1>7, <1>13

\* The end of a run leaves nothing to be held.
LEMMA EndProgress ==
  ASSUME SeedTypeOK, NEW d \in Seeders,
         work' = [work EXCEPT ![d] = [f \in Files |-> NoWork]],
         seed' = [seed EXCEPT ![d] = NoSeed]
  PROVE  WrittenIsTree(d)' /\ Progress(d)'
<1>1. /\ Written(d)' = {} /\ seed'[d].step = "idle"
      /\ \A f \in Files : work'[d][f] = NoWork
  BY DEF SeedTypeOK, Written, NoSeed, SeedAt, NoWork
<1> QED BY <1>1 DEF WrittenIsTree, Progress, Done, Filing, Rewriting

\* A seeder's step leaves the others and the tree alone ...
LEMMA OthersStay ==
  ASSUME SeedTypeOK, NEW d \in Seeders, SeedStep(d)
  PROVE  /\ UNCHANGED tree
         /\ \A e \in Seeders \ {d} : seed'[e] = seed[e] /\ work'[e] = work[e]
<1>1. UNCHANGED tree
  BY DEF SeedStep, SeedBegin, ReadLibraryFiles, FindCollection, CreateCollection, LoadSources,
     TakeFile, WriteRow, SelectDocuments, DeleteDocuments, AddDocument, NextLibrary, SeedCommit,
     SeedFail, SeedRollback
<1>2. \A e \in Seeders \ {d} : seed'[e] = seed[e] /\ work'[e] = work[e]
  BY DEF SeedStep, SeedBegin, ReadLibraryFiles, FindCollection, CreateCollection, LoadSources,
     TakeFile, WriteRow, SelectDocuments, DeleteDocuments, AddDocument, NextLibrary, SeedCommit,
     SeedFail, SeedRollback, At, FileDone, GoOn, SeedTypeOK
<1> QED BY <1>1, <1>2

\* ... and the sources too, but that its commit makes those it holds what the tree says.
LEMMA SourcesFollow ==
  ASSUME SeedTypeOK, NEW d \in Seeders, WrittenIsTree(d), SeedStep(d)
  PROVE  /\ ~SeedCommit(d) => UNCHANGED source
         /\ \A f \in Files \ Written(d) : source'[f] = source[f]
         /\ \A f \in Files : source'[f] = source[f] \/ source'[f].content = tree[f]
<1>1. CASE SeedCommit(d)
  <2>1. \A f \in Files :
          source'[f] = [content |-> Seen(d, f),
                        docs |-> (source[f].docs \ work[d][f].purged) \cup work[d][f].docs]
    BY <1>1 DEF SeedCommit
  <2>2. \A f \in Written(d) : f \in Files /\ Seen(d, f) = tree[f]
    BY DEF Seen, WrittenIsTree, Written
  <2>3. ASSUME NEW f \in Files \ Written(d) PROVE source'[f] = source[f]
    <3>1. work[d][f] = NoWork /\ source[f] \in Source
      BY <2>3 DEF WrittenIsTree, SeedTypeOK
    <3>2. source'[f] = [content |-> source[f].content, docs |-> (source[f].docs \ {}) \cup {}]
      BY <2>1, <2>3, <3>1 DEF NoWork, Seen
    <3> QED BY <3>1, <3>2 DEF Source
  <2>4. ASSUME NEW f \in Written(d) PROVE source'[f].content = tree[f]
    <3>1. f \in Files /\ Seen(d, f) = tree[f]
      BY <2>2, <2>4
    <3>2. source'[f] = [content |-> Seen(d, f),
                        docs |-> (source[f].docs \ work[d][f].purged) \cup work[d][f].docs]
      BY <2>1, <3>1
    <3> QED BY <3>1, <3>2
  <2> QED BY <1>1, <2>3, <2>4
<1>2. CASE ~SeedCommit(d)
  BY <1>2
  DEF SeedStep, SeedBegin, ReadLibraryFiles, FindCollection, CreateCollection, LoadSources,
      TakeFile, WriteRow, SelectDocuments, DeleteDocuments, AddDocument, NextLibrary,
      SeedFail, SeedRollback
<1> QED BY <1>1, <1>2

\* The other steps do nothing to the rows.
LEMMA NothingDone ==
  ASSUME NEW d \in Seeders, SeedStep(d),
         ~SeedRollback(d), ~SeedCommit(d), ~WriteRow(d), ~Replaces(d)
  PROVE  UNCHANGED <<tree, source, work>>
BY DEF SeedStep, SeedBegin, ReadLibraryFiles, FindCollection, CreateCollection, LoadSources,
   TakeFile, Replaces, NextLibrary, SeedFail

\* A seeder keeps sources and files together.
LEMMA SeederContent ==
  ASSUME ContentInv, SeedTypeOK', NEW d \in Seeders, SeedStep(d)
  PROVE  ContentInv'
<1>1. SeedTypeOK /\ \A e \in Seeders : WrittenIsTree(e) /\ Progress(e)
  BY DEF ContentInv
<1>2. /\ UNCHANGED tree
      /\ \A e \in Seeders \ {d} : seed'[e] = seed[e] /\ work'[e] = work[e]
  BY <1>1, OthersStay
<1>3. \A e \in Seeders \ {d} : WrittenIsTree(e)' /\ Progress(e)'
  BY <1>1, <1>2, SourcesFollow, OthersProgress
<1>4. WrittenIsTree(d)' /\ Progress(d)'
  <2>1. CASE SeedRollback(d) \/ SeedCommit(d)
    BY <1>1, <2>1, EndProgress DEF SeedRollback, SeedCommit
  <2>2. CASE ~SeedRollback(d) /\ WriteRow(d)
    BY <2>2, WriteProgress
  <2>3. CASE Replaces(d)
    BY <2>3, ReplaceProgress
  <2>4. CASE ~SeedRollback(d) /\ ~SeedCommit(d) /\ ~WriteRow(d) /\ ~Replaces(d)
    BY <2>4, NothingDone, OwnProgress
  <2> QED BY <2>1, <2>2, <2>3, <2>4
<1> QED BY <1>3, <1>4 DEF ContentInv

\* Every step keeps them together: the tree changes only between runs.
LEMMA NextContent == ContentInv /\ [SeedNext]_seedVars => ContentInv'
<1> SUFFICES ASSUME ContentInv, [SeedNext]_seedVars PROVE ContentInv'
  OBVIOUS
<1>1. /\ SeedTypeOK /\ SeedTypeOK'
      /\ \A e \in Seeders : WrittenIsTree(e) /\ Progress(e)
  BY NextTyped DEF ContentInv
<1>2. ASSUME NEW d \in Seeders, SeedStep(d) PROVE ContentInv'
  BY <1>1, <1>2, SeederContent
<1>3. CASE UNCHANGED <<tree, source, work, seed>>
  BY <1>1, <1>3, OthersProgress DEF ContentInv
<1>4. CASE Edit
  <2>1. \A e \in Seeders : seed'[e].step = "idle" /\ Written(e)' = {} /\ work'[e] = work[e]
                           /\ Written(e) = {}
    BY <1>1, <1>4 DEF Edit, WrittenIsTree, Written
  <2> QED BY <1>1, <2>1 DEF ContentInv, WrittenIsTree, Progress, Done, Filing, Rewriting
<1> QED BY <1>2, <1>3, <1>4 DEF SeedNext, seedVars

\* A command that gets to its commit leaves every file of the tree in the library.
THEOREM Mirror == SeedSpec => []SeedMirrorsTree
<1>1. ContentInv => SeedMirrorsTree
  <2> SUFFICES ASSUME ContentInv, NEW d \in Seeders, seed[d].step = "commit", NEW f \in Files,
                      tree[f] # None
               PROVE  Seen(d, f) = tree[f]
    BY DEF SeedMirrorsTree
  <2>1. PICK n \in DOMAIN Libraries : f[1] = Libraries[n]
    BY SeedAssumption
  <2>2. n \in Done(d) /\ f \in In(n)
    BY <2>1 DEF Done, In
  <2> QED BY <2>2 DEF ContentInv, Progress, Mirrored
<1> QED BY <1>1, InitContent, NextContent, PTL DEF SeedSpec

-----------------------------------------------------------------------------
(* Seeders that never wait for each other.                                 *)

\* It holds initially: there is nothing yet.
LEMMA InitLock == SeedInit => LockInv
<1> SUFFICES ASSUME SeedInit PROVE LockInv
  OBVIOUS
<1>1. \A d \in Seeders : Written(d) = {} /\ seed[d].step = "idle"
  BY DEF SeedInit, Written, NoSeed, SeedAt, NoWork
<1> QED BY <1>1, InitApart, InitContent
        DEF LockInv, HeldByOne, OwnWrites, Distinct, NoHolder, Filing, Rewriting

\* What the others hold, and what they know, stays.
LEMMA OthersLock ==
  ASSUME LockInv, NEW e \in Seeders, UNCHANGED tree, work'[e] = work[e], seed'[e] = seed[e],
         \A f \in Files : source'[f] = source[f] \/ source'[f].content = tree[f]
  PROVE  OwnWrites(e)' /\ Distinct(e)' /\ NoHolder(e)' /\ Written(e)' = Written(e)
<1>1. Written(e)' = Written(e) /\ Ahead(e)' = Ahead(e) /\ Here(e)' = Here(e)
      /\ NextFiles(e)' = NextFiles(e)
  BY DEF Written, Ahead, Here, NextFiles
<1>2. OwnWrites(e)' /\ Distinct(e)'
  BY <1>1 DEF LockInv, OwnWrites, Distinct
<1>3. ASSUME seed[e].step = "write", NEW f \in NextFiles(e), NEW g \in Here(e) \ {f}
      PROVE  Seen(e, g)' # tree[f]
  <2>1. f \in Here(e) /\ tree[f] # None
    BY <1>3 DEF LockInv, ContentInv, Progress, NextFiles, Filing
  <2>2. tree[g] # tree[f]
    BY <1>3, <2>1 DEF LockInv, Distinct, Filing
  <2>3. Seen(e, g) # tree[f]
    BY <1>3 DEF LockInv, NoHolder, Holding
  <2>4. g \in Files
    BY <1>3 DEF Here, In
  <2> QED BY <1>1, <2>2, <2>3, <2>4 DEF Seen
<1>4. NoHolder(e)'
  BY <1>1, <1>3 DEF NoHolder, Holding
<1> QED BY <1>1, <1>2, <1>4

\* The end of a run leaves nothing to be held.
LEMMA EndLock ==
  ASSUME SeedTypeOK, NEW d \in Seeders,
         work' = [work EXCEPT ![d] = [f \in Files |-> NoWork]],
         seed' = [seed EXCEPT ![d] = NoSeed]
  PROVE  OwnWrites(d)' /\ Distinct(d)' /\ NoHolder(d)' /\ Written(d)' = {}
<1>1. Written(d)' = {} /\ seed'[d].step = "idle"
  BY DEF SeedTypeOK, Written, NoSeed, SeedAt, NoWork
<1> QED BY <1>1 DEF OwnWrites, Distinct, NoHolder, Filing, Rewriting

\* A step that writes nothing keeps what the seeder holds behind it ...
LEMMA OwnOrder ==
  ASSUME LockInv, NEW d \in Seeders, SeedStep(d), UNCHANGED <<tree, source, work>>,
         ~SeedRollback(d), ~SeedCommit(d), ~WriteRow(d), ~Replaces(d)
  PROVE  OwnWrites(d)'
<1>1. SeedTypeOK /\ WrittenIsTree(d) /\ OwnWrites(d) /\ Progress(d)
  BY DEF LockInv, ContentInv
<1>2. Written(d)' = Written(d) /\ Ahead(d)' \subseteq Ahead(d)
  BY <1>1, AheadShrinks DEF Written
<1>3. seed[d].library \in 0..2 /\ DOMAIN Libraries = 1..2 /\ Len(Libraries) = 2
  BY <1>1, LibraryFacts DEF SeedTypeOK
<1>4. CASE SeedBegin(d)
  BY <1>1, <1>2, <1>4 DEF SeedBegin, WrittenIsTree, OwnWrites
<1>5. CASE ReadLibraryFiles(d) \/ FindCollection(d) \/ CreateCollection(d) \/ LoadSources(d)
  <2>1. PICK step, known, todo : GoOn(d, step, known, todo, {})
    BY <1>5 DEF ReadLibraryFiles, FindCollection, CreateCollection, LoadSources, At
  <2>2. seed'[d].library = seed[d].library
    BY <1>1, <2>1, GoOnFacts
  <2>3. seed[d].step \in {"read", "find", "create", "load"}
    BY <1>5 DEF ReadLibraryFiles, FindCollection, CreateCollection, LoadSources
  <2> QED BY <1>1, <1>2, <2>2, <2>3 DEF OwnWrites, Filing, Rewriting
<1>6. CASE TakeFile(d)
  <2>1. PICK step \in {"file", "write"}, f \in Files :
          \/ GoOn(d, step, seed[d].known, seed[d].todo \ {f}, {})
          \/ GoOn(d, step, seed[d].known, seed[d].todo, {})
    BY <1>1, <1>6, StatementOrder DEF TakeFile, At, FileDone, NextFiles, SeedTypeOK
  <2>2. /\ seed'[d].step = step /\ seed'[d].library = seed[d].library
        /\ seed'[d].todo \subseteq seed[d].todo
    BY <1>1, <2>1, GoOnFacts
  <2>3. seed[d].step = "file"
    BY <1>6 DEF TakeFile
  <2> QED BY <1>1, <1>2, <2>2, <2>3 DEF OwnWrites, Filing, Rewriting
<1>7. CASE NextLibrary(d)
  <2>1. /\ \/ seed'[d].step = "commit" /\ seed'[d].library = 0
           \/ /\ seed'[d].step = "read" /\ seed'[d].library = seed[d].library + 1
              /\ seed[d].library + 1 \in Ahead(d)
    BY <1>1, <1>3, <1>7 DEF NextLibrary, SeedAt, SeedTypeOK, Ahead, Filing, Rewriting
  <2> QED BY <1>1, <1>2, <1>3, <2>1 DEF OwnWrites
<1> QED BY <1>4, <1>5, <1>6, <1>7 DEF SeedStep, SeedFail, Replaces

\* ... and has checked what the next write needs.
LEMMA OwnChecks ==
  ASSUME LockInv, NEW d \in Seeders, SeedStep(d), UNCHANGED <<tree, source, work>>,
         ~SeedRollback(d), ~SeedCommit(d), ~WriteRow(d), ~Replaces(d)
  PROVE  Distinct(d)' /\ NoHolder(d)'
<1>1. SeedTypeOK /\ Distinct(d) /\ Progress(d)
  BY DEF LockInv, ContentInv
<1>2. CASE SeedBegin(d) \/ NextLibrary(d)
  <2>1. seed'[d].step \in {"read", "commit"}
    BY <1>1, <1>2 DEF SeedBegin, NextLibrary, SeedAt, SeedTypeOK
  <2> QED BY <2>1 DEF Distinct, NoHolder, Filing, Rewriting
<1>3. CASE ReadLibraryFiles(d)
  <2>1. GoOn(d, "find", seed[d].known, seed[d].todo, {})
    BY <1>3 DEF ReadLibraryFiles, At
  <2>2. seed'[d].step = "find" /\ seed'[d].library = seed[d].library
    BY <1>1, <2>1, GoOnFacts
  <2>3. \A f, g \in Here(d) : f # g /\ tree[f] = tree[g] => tree[f] = None
    BY <1>3 DEF ReadLibraryFiles
  <2> QED BY <2>2, <2>3 DEF Distinct, NoHolder, Here
<1>4. CASE FindCollection(d) \/ CreateCollection(d) \/ LoadSources(d)
  <2>1. PICK step \in {"create", "load", "file"} : \E known, todo : GoOn(d, step, known, todo, {})
    BY <1>4 DEF FindCollection, CreateCollection, LoadSources, At
  <2>2. seed'[d].step = step /\ seed'[d].library = seed[d].library
    BY <1>1, <2>1, GoOnFacts
  <2>3. seed[d].step \in {"find", "create", "load"}
    BY <1>4 DEF FindCollection, CreateCollection, LoadSources
  <2> QED BY <1>1, <2>2, <2>3 DEF Distinct, NoHolder, Here
<1>5. CASE TakeFile(d)
  <2>1. PICK f \in NextFiles(d) :
          \/ GoOn(d, "file", seed[d].known, seed[d].todo \ {f}, {})
          \/ GoOn(d, "write", seed[d].known, seed[d].todo, {}) /\ Holding(d, f, tree[f]) = {}
    BY <1>5, StatementOrder DEF TakeFile, At, FileDone
  <2>2. /\ seed'[d].library = seed[d].library
        /\ \/ seed'[d].step = "file"
           \/ /\ seed'[d].step = "write" /\ seed'[d].todo = seed[d].todo
              /\ Holding(d, f, tree[f]) = {}
    BY <1>1, <2>1, GoOnFacts
  <2>3. seed[d].step = "file" /\ Here(d)' = Here(d)
    BY <1>5, <2>2 DEF TakeFile, Here
  <2>4. Distinct(d)'
    BY <1>1, <2>2, <2>3 DEF Distinct, Filing
  <2>5. \A g \in NextFiles(d) : g = f
    BY <1>1, <2>1, <2>3, OneNext DEF Filing
  <2>6. ASSUME seed'[d].step = "write" PROVE NoHolder(d)'
    <3>1. NextFiles(d)' = NextFiles(d) /\ Holding(d, f, tree[f])' = Holding(d, f, tree[f])
      BY <2>2, <2>3, <2>6 DEF NextFiles, Holding, Seen, Written
    <3> QED BY <2>2, <2>5, <2>6, <3>1 DEF NoHolder
  <2> QED BY <2>4, <2>6 DEF NoHolder
<1> QED BY <1>2, <1>3, <1>4, <1>5 DEF SeedStep, SeedFail, Replaces

\* Writing a file's row takes no row that another holds, and the next one in order.
LEMMA WriteLock ==
  ASSUME LockInv, NEW d \in Seeders, WriteRow(d), ~SeedRollback(d)
  PROVE  /\ OwnWrites(d)' /\ Distinct(d)' /\ NoHolder(d)'
         /\ \A e \in Seeders \ {d} : Written(d)' \cap Written(e) = {}
<1>1. /\ SeedTypeOK /\ OwnWrites(d) /\ Distinct(d) /\ Progress(d)
      /\ \A e \in Seeders \ {d} : Written(d) \cap Written(e) = {}
  BY DEF LockInv, HeldByOne, ContentInv
<1>2. PICK f \in NextFiles(d), step \in {"ingest", "purge"} :
        /\ seed[d].step = "write"
        /\ WriteBlockers(d, f, tree[f]) = {}
        /\ GoOn(d, step, seed[d].known, seed[d].todo, {})
        /\ \A g \in Files \ {f} : work'[d][g] = work[d][g]
        /\ UNCHANGED <<tree, source>>
  BY <1>1, WriteStep DEF At
<1>3. /\ f \in Files /\ f \in Here(d) /\ seed[d].library \in DOMAIN Libraries
      /\ \A g \in seed[d].todo \ {f} : f[2] < g[2]
  BY <1>1, <1>2, OneNext DEF Filing
<1>4. /\ seed'[d].step = step /\ seed'[d].library = seed[d].library
      /\ seed'[d].todo = seed[d].todo
  BY <1>1, <1>2, GoOnFacts
<1>5. Written(d)' \subseteq Written(d) \cup {f}
  BY <1>2 DEF Written
<1>6. Here(d)' = Here(d) /\ Ahead(d)' = Ahead(d) /\ seed[d].library \notin Ahead(d)
  BY <1>1, <1>2, <1>3, <1>4, LibraryFacts DEF Here, Ahead, Filing, Rewriting
<1>7. \A n \in DOMAIN Libraries : f \in In(n) => n = seed[d].library
  BY <1>3, LibraryFacts DEF In, Here
<1>8. OwnWrites(d)'
  <2>1. ASSUME NEW g \in Written(d)', NEW n \in DOMAIN Libraries, g \in In(n)
        PROVE  /\ n \notin Ahead(d)
               /\ n = seed[d].library => \A h \in seed[d].todo : g[2] < h[2] \/ g = h
    <3>1. CASE g = f
      BY <1>3, <1>6, <1>7, <2>1, <3>1
    <3>2. CASE g \in Written(d)
      BY <1>1, <2>1, <3>2 DEF OwnWrites
    <3> QED BY <1>5, <2>1, <3>1, <3>2
  <2>2. seed'[d].step \in Rewriting /\ seed'[d].step \in Filing
    BY <1>4 DEF Rewriting, Filing
  <2> QED BY <1>4, <1>6, <2>1, <2>2 DEF OwnWrites
<1>9. Distinct(d)' /\ NoHolder(d)'
  BY <1>1, <1>2, <1>4, <1>6 DEF Distinct, NoHolder, Filing
<1>10. \A e \in Seeders \ {d} : f \notin Written(e)
  BY <1>2 DEF WriteBlockers
<1> QED BY <1>1, <1>5, <1>8, <1>9, <1>10

\* Replacing its documents takes no row, and leaves the file behind once it is done.
LEMMA ReplaceLock ==
  ASSUME LockInv, NEW d \in Seeders, Replaces(d)
  PROVE  /\ OwnWrites(d)' /\ Distinct(d)' /\ NoHolder(d)'
         /\ Written(d)' = Written(d)
<1>1. SeedTypeOK /\ OwnWrites(d) /\ Distinct(d) /\ Progress(d)
  BY DEF LockInv, ContentInv
<1>2. PICK f \in NextFiles(d), step \in {"purging", "ingest", "file"} :
        /\ seed[d].step \in Rewriting
        /\ \E found : GoOn(d, step, seed[d].known, Left(d, f, step), found)
        /\ \A g \in Files \ {f} : work'[d][g] = work[d][g]
        /\ work'[d][f].content = work[d][f].content
        /\ UNCHANGED <<tree, source>>
  BY <1>1, ReplaceMoves
<1>3. /\ f \in Here(d) /\ seed[d].library \in DOMAIN Libraries
      /\ \A g \in seed[d].todo \ {f} : f[2] < g[2]
  BY <1>1, <1>2, OneNext DEF Filing
<1>4. /\ seed'[d].step = step /\ seed'[d].library = seed[d].library
      /\ seed'[d].todo = Left(d, f, step)
  BY <1>1, <1>2, GoOnFacts
<1>5. Written(d)' = Written(d)
  BY <1>2 DEF Written
<1>6. Here(d)' = Here(d) /\ Ahead(d)' = Ahead(d)
  BY <1>2, <1>4 DEF Here, Ahead, Filing, Rewriting
<1>7. OwnWrites(d)'
  <2>1. ASSUME NEW g \in Written(d), NEW n \in DOMAIN Libraries, g \in In(n), n = seed[d].library,
               NEW h \in Left(d, f, step)
        PROVE  g[2] < h[2] \/ (g = h /\ step \in Rewriting)
    <3>1. h \in seed[d].todo /\ (step = "file" => h # f)
      BY <2>1 DEF Left
    <3>2. g[2] < h[2] \/ g = h
      BY <1>1, <2>1, <3>1 DEF OwnWrites
    <3>3. step # "file" => step \in Rewriting
      BY DEF Rewriting
    <3>4. ASSUME g = h, step = "file" PROVE FALSE
      <4>1. f[2] < g[2] /\ f \in seed[d].todo
        BY <1>2, <1>3, <3>1, <3>4 DEF NextFiles
      <4>2. g[2] < f[2]
        BY <1>1, <2>1, <3>1, <3>4, <4>1 DEF OwnWrites
      <4>3. f[2] \in Nat /\ g[2] \in Nat
        BY <1>3, <2>1, Ordered DEF Here
      <4> QED BY <4>1, <4>2, <4>3
    <3> QED BY <3>2, <3>3, <3>4
  <2>2. seed'[d].step \in Filing
    BY <1>4 DEF Rewriting, Filing
  <2> QED BY <1>1, <1>4, <1>5, <1>6, <2>1, <2>2 DEF OwnWrites
<1>8. Distinct(d)' /\ NoHolder(d)'
  BY <1>1, <1>2, <1>4, <1>6 DEF Distinct, NoHolder, Filing
<1> QED BY <1>5, <1>7, <1>8

\* A seeder keeps what all of them hold.
LEMMA SeederLock ==
  ASSUME LockInv, NEW d \in Seeders, SeedStep(d)
  PROVE  /\ \A b, e \in Seeders : b # e => Written(b)' \cap Written(e)' = {}
         /\ \A e \in Seeders : OwnWrites(e)' /\ Distinct(e)' /\ NoHolder(e)'
<1>1. /\ SeedTypeOK /\ \A e \in Seeders : WrittenIsTree(e)
      /\ \A b, e \in Seeders : b # e => Written(b) \cap Written(e) = {}
  BY DEF LockInv, HeldByOne, ContentInv
<1>2. UNCHANGED tree /\ \A e \in Seeders \ {d} : seed'[e] = seed[e] /\ work'[e] = work[e]
  BY <1>1, OthersStay
<1>3. \A f \in Files : source'[f] = source[f] \/ source'[f].content = tree[f]
  BY <1>1, SourcesFollow
<1>4. \A e \in Seeders \ {d} : /\ OwnWrites(e)' /\ Distinct(e)' /\ NoHolder(e)'
                               /\ Written(e)' = Written(e)
  BY <1>2, <1>3, OthersLock
<1>5. /\ OwnWrites(d)' /\ Distinct(d)' /\ NoHolder(d)'
      /\ \A e \in Seeders \ {d} : Written(d)' \cap Written(e) = {}
  <2>1. CASE SeedRollback(d) \/ SeedCommit(d)
    BY <1>1, <2>1, EndLock DEF SeedRollback, SeedCommit
  <2>2. CASE ~SeedRollback(d) /\ WriteRow(d)
    BY <2>2, WriteLock
  <2>3. CASE Replaces(d)
    BY <1>1, <2>3, ReplaceLock
  <2>4. CASE ~SeedRollback(d) /\ ~SeedCommit(d) /\ ~WriteRow(d) /\ ~Replaces(d)
    <3>1. UNCHANGED <<tree, source, work>>
      BY <2>4, NothingDone
    <3>2. Written(d)' = Written(d)
      BY <3>1 DEF Written
    <3> QED BY <1>1, <2>4, <3>1, <3>2, OwnOrder, OwnChecks
  <2> QED BY <2>1, <2>2, <2>3, <2>4
<1> QED BY <1>1, <1>4, <1>5

\* Every step keeps it: the tree changes only between runs.
LEMMA NextLock == LockInv /\ [SeedNext]_seedVars => LockInv'
<1> SUFFICES ASSUME LockInv, [SeedNext]_seedVars PROVE LockInv'
  OBVIOUS
<1>1. TableInv' /\ ContentInv'
  BY NextApart, NextContent DEF LockInv
<1>2. ASSUME NEW d \in Seeders, SeedStep(d) PROVE LockInv'
  BY <1>1, <1>2, SeederLock DEF LockInv, HeldByOne
<1>3. CASE UNCHANGED <<tree, source, work, seed>>
  <2>1. \A e \in Seeders : /\ OwnWrites(e)' /\ Distinct(e)' /\ NoHolder(e)'
                           /\ Written(e)' = Written(e)
    BY <1>3, OthersLock
  <2> QED BY <1>1, <2>1 DEF LockInv, HeldByOne
<1>4. CASE Edit
  <2>1. \A e \in Seeders : seed'[e].step = "idle" /\ Written(e)' = {}
    BY <1>4 DEF Edit, LockInv, ContentInv, WrittenIsTree, Written
  <2> QED BY <1>1, <2>1 DEF LockInv, HeldByOne, OwnWrites, Distinct, NoHolder, Filing, Rewriting
<1> QED BY <1>2, <1>3, <1>4 DEF SeedNext, seedVars

\* Who makes a seeder wait is past the library it waits in, or in it with the row that
\* it waits for written.
LEMMA WhoWaits ==
  ASSUME LockInv, NEW d \in Seeders, NEW e \in Seeders, e \in Blockers(d)
  PROVE  /\ seed[d].step \in {"create", "write"} /\ seed[d].library \in DOMAIN Libraries
         /\ seed[d].library \notin Ahead(e)
         /\ seed[d].step = "write" /\ seed[e].library = seed[d].library
              => \E f \in NextFiles(d) : f \in Written(e)
<1>1. SeedTypeOK /\ OwnInserts /\ OwnWrites(e) /\ Distinct(d) /\ NoHolder(d) /\ Progress(d)
  BY DEF LockInv, TableInv, ContentInv
<1>2. seed[d].step \in {"create", "write"}
  <2>1. ASSUME seed[d].step = "purging" PROVE FALSE
    <3>1. PICK f \in NextFiles(d) : e \in PurgeBlockers(d, f)
      BY <2>1 DEF Blockers
    <3>2. e # d /\ f \in Written(d) /\ f \in Files
      BY <2>1, <3>1 DEF PurgeBlockers, LockInv, ContentInv, WrittenIsTree, Rewriting, Written
    <3>3. work[e][f] # NoWork
      BY <3>1 DEF PurgeBlockers, NoWork
    <3>4. f \in Written(e)
      BY <3>2, <3>3 DEF LockInv, ContentInv, WrittenIsTree
    <3> QED BY <3>2, <3>4 DEF LockInv, HeldByOne
  <2> QED BY <2>1 DEF Blockers
<1>3. seed[d].library \in DOMAIN Libraries
  BY <1>1, <1>2, LibraryFacts DEF SeedTypeOK
<1>4. CASE seed[d].step = "create"
  <2>1. e \in InsertBlockers(d, Public(Libraries[seed[d].library]))
    BY <1>4 DEF Blockers
  <2>2. PICK i \in Ids : inserting[i].by = e
                         /\ inserting[i].row = Public(Libraries[seed[d].library])
    BY <2>1 DEF InsertBlockers, SameKey
  <2>3. seed[d].library \notin Ahead(e)
    BY <1>1, <2>2 DEF OwnInserts
  <2> QED BY <1>2, <1>3, <1>4, <2>3
<1>5. CASE seed[d].step = "write"
  <2>1. PICK f \in NextFiles(d) : e \in WriteBlockers(d, f, tree[f])
    BY <1>5 DEF Blockers
  <2>2. f \in seed[d].todo /\ f \in Here(d) /\ f \in Files /\ tree[f] # None
    BY <1>1, <1>5, <2>1 DEF NextFiles, Progress, SeedTypeOK, Filing
  <2>3. f \in Written(e)
    <3>1. SUFFICES ASSUME NEW g \in Written(e) \cap Here(d), g # f,
                          tree[f] \in {work[e][g].content, source[g].content}
                   PROVE  FALSE
      BY <2>1 DEF WriteBlockers
    <3>2. e # d
      BY <2>1 DEF WriteBlockers
    <3>3. tree[g] # tree[f]
      BY <1>1, <1>5, <2>2, <3>1 DEF Distinct, Filing
    <3>4. work[e][g].content = tree[g]
      BY <3>1 DEF LockInv, ContentInv, WrittenIsTree
    <3>5. g \notin Written(d)
      BY <3>1, <3>2 DEF LockInv, HeldByOne
    <3>6. Seen(d, g) = tree[f]
      BY <3>1, <3>3, <3>4, <3>5 DEF Seen
    <3>7. g \in Holding(d, f, tree[f])
      BY <3>1, <3>6 DEF Holding
    <3> QED BY <1>1, <1>5, <2>1, <3>7 DEF NoHolder
  <2>4. seed[d].library \notin Ahead(e)
    BY <1>1, <1>3, <2>2, <2>3 DEF OwnWrites, Here
  <2> QED BY <1>2, <1>3, <2>1, <2>3, <2>4
<1> QED BY <1>2, <1>4, <1>5

\* Two seeding commands never wait for each other: both take the libraries in one order
\* and the files in sorted order.
THEOREM NoDeadlock == SeedSpec => []SeedersNeverDeadlock
<1>1. LockInv => SeedersNeverDeadlock
  <2> SUFFICES ASSUME LockInv, NEW d \in Seeders, NEW e \in Seeders,
                      e \in Blockers(d), d \in Blockers(e)
               PROVE  FALSE
    BY DEF SeedersNeverDeadlock
  <2>1. /\ seed[d].step \in {"create", "write"} /\ seed[e].step \in {"create", "write"}
        /\ seed[d].library \in DOMAIN Libraries /\ seed[e].library \in DOMAIN Libraries
        /\ seed[d].library \notin Ahead(e) /\ seed[e].library \notin Ahead(d)
    BY WhoWaits
  <2>2. /\ seed[d].library = seed[e].library
        /\ seed[d].step = "write" /\ seed[e].step = "write"
    BY <2>1, LibraryFacts DEF Ahead, Filing, Rewriting
  <2>3. PICK f \in NextFiles(d) : f \in Written(e)
    BY <2>2, WhoWaits
  <2>4. PICK g \in NextFiles(e) : g \in Written(d)
    BY <2>2, WhoWaits
  <2>5. f \in In(seed[e].library) /\ g \in In(seed[d].library)
        /\ f \in seed[d].todo /\ g \in seed[e].todo
    BY <2>2, <2>3, <2>4 DEF LockInv, ContentInv, Progress, NextFiles, Here, Filing
  <2>6. f[2] < g[2] /\ g[2] < f[2]
    BY <2>1, <2>2, <2>3, <2>4, <2>5 DEF LockInv, OwnWrites, Rewriting
  <2>7. f[2] \in Nat /\ g[2] \in Nat
    BY <2>1, <2>5, Ordered
  <2> QED BY <2>6, <2>7
<1> QED BY <1>1, InitLock, NextLock, PTL DEF SeedSpec

-----------------------------------------------------------------------------
(* Documents.                                                              *)

\* It holds initially: there is nothing yet.
LEMMA InitDocuments == SeedInit => DocumentInv
<1> SUFFICES ASSUME SeedInit PROVE OneDocument /\ \A d \in Seeders : Replaced(d)
  BY InitLock DEF DocumentInv
<1>1. \A d \in Seeders : Written(d) = {}
  BY DEF SeedInit, Written, NoWork
<1> QED BY <1>1 DEF SeedInit, OneDocument, NoSource, Replaced

\* What others have done to the documents of a row they hold stays what is to be done.
LEMMA OthersReplaced ==
  ASSUME NEW e \in Seeders, Replaced(e), UNCHANGED tree, work'[e] = work[e], seed'[e] = seed[e],
         \A f \in Written(e) : source'[f] = source[f]
  PROVE  Replaced(e)'
<1>1. Written(e)' = Written(e) /\ \A f : InHand(e, f)' = InHand(e, f)
  BY DEF Written, InHand, NextFiles
<1> QED BY <1>1 DEF Replaced

\* Of a row that it has just written a seeder has deleted and added nothing; it was not
\* in its hands before.
LEMMA WriteReplaced ==
  ASSUME DocumentInv, NEW d \in Seeders, WriteRow(d), ~SeedRollback(d)
  PROVE  Replaced(d)'
<1>1. /\ SeedTypeOK /\ OwnWrites(d) /\ Progress(d) /\ WrittenIsTree(d) /\ Replaced(d)
  BY DEF DocumentInv, LockInv, ContentInv
<1>2. PICK f \in NextFiles(d) :
        /\ seed[d].step = "write"
        /\ seed[d].known[f] = None => source[f] = NoSource
        /\ GoOn(d, IF seed[d].known[f] = None THEN "ingest" ELSE "purge",
                seed[d].known, seed[d].todo, {})
        /\ \A g \in Files \ {f} : work'[d][g] = work[d][g]
        /\ work'[d][f] = [work[d][f] EXCEPT !.content = tree[f]]
        /\ UNCHANGED <<tree, source>>
  BY <1>1, WriteStep DEF At
<1>3. /\ f \in Files /\ f \in seed[d].todo /\ f \in Here(d) /\ seed[d].library \in DOMAIN Libraries
      /\ \A g \in NextFiles(d) : g = f
  BY <1>1, <1>2, OneNext DEF Filing
<1>4. /\ seed'[d].step = IF seed[d].known[f] = None THEN "ingest" ELSE "purge"
      /\ NextFiles(d)' = NextFiles(d)
  BY <1>1, <1>2, GoOnFacts DEF NextFiles
<1>5. f \notin Written(d)
  <2>1. f[2] \in Nat
    BY <1>3, Ordered DEF Here
  <2> QED BY <1>1, <1>2, <1>3, <2>1 DEF OwnWrites, Here, Rewriting
<1>6. work'[d][f].docs = {} /\ work'[d][f].purged = {}
  BY <1>1, <1>2, <1>3, <1>5 DEF WrittenIsTree, NoWork
<1>7. InHand(d, f)' /\ \A g \in Files \ {f} : ~InHand(d, g) /\ ~InHand(d, g)'
  BY <1>2, <1>3, <1>4 DEF InHand, Rewriting
<1>8. Written(d)' \subseteq Written(d) \cup {f} /\ Written(d) \subseteq Files
  BY <1>2 DEF Written
<1>9. \A g \in Written(d) \ {f} :
        work'[d][g].docs = {<<tree[g], d>>} /\ work'[d][g].purged = source[g].docs
  BY <1>1, <1>2, <1>7, <1>8 DEF Replaced
<1>10. seed'[d].step # "purging" /\ (seed'[d].step = "ingest" => source[f].docs = {})
  BY <1>2, <1>4 DEF NoSource
<1> QED BY <1>2, <1>6, <1>7, <1>8, <1>9, <1>10 DEF Replaced

\* While a seeder holds a row, what its DELETE finds is all there is, and its own comes
\* after.
LEMMA ReplaceReplaced ==
  ASSUME DocumentInv, NEW d \in Seeders, Replaces(d)
  PROVE  Replaced(d)'
<1>1. /\ SeedTypeOK /\ Progress(d) /\ WrittenIsTree(d) /\ Replaced(d) /\ work[d] \in [Files -> Work]
  BY DEF DocumentInv, LockInv, ContentInv, SeedTypeOK
<1>2. PICK f \in NextFiles(d) :
        /\ f \in Files
        /\ \A g \in Files \ {f} : work'[d][g] = work[d][g]
        /\ \/ /\ seed[d].step = "purge"
              /\ work'[d][f] = work[d][f]
              /\ GoOn(d, "purging", seed[d].known, seed[d].todo, source[f].docs)
           \/ /\ seed[d].step = "purging"
              /\ work'[d][f] = [work[d][f] EXCEPT !.purged = seed[d].found \cap source[f].docs]
              /\ GoOn(d, "ingest", seed[d].known, seed[d].todo, {})
           \/ /\ seed[d].step = "ingest"
              /\ work'[d][f] = [work[d][f] EXCEPT !.docs = {<<tree[f], d>>}]
              /\ GoOn(d, "file", seed[d].known, seed[d].todo \ {f}, {})
  BY <1>1, ReplaceStep
<1>3. UNCHANGED <<tree, source>>
  BY <1>1, ReplaceStep
<1>4. seed[d].step \in Rewriting /\ seed[d].step \in Filing
  BY <1>2 DEF Rewriting, Filing
<1>5. (\A g \in NextFiles(d) : g = f) /\ f \in Written(d) /\ InHand(d, f)
  BY <1>1, <1>2, <1>4, OneNext DEF WrittenIsTree, InHand
<1>6. Written(d)' \subseteq Written(d) /\ Written(d) \subseteq Files
  BY <1>1, <1>2, <1>5 DEF Written, Work
<1>7. ASSUME NEW g \in Written(d) \ {f}
      PROVE  /\ ~InHand(d, g)'
             /\ work'[d][g].docs = {<<tree[g], d>>} /\ work'[d][g].purged = source[g].docs
  <2>1. ~InHand(d, g)
    BY <1>5, <1>7 DEF InHand
  <2>2. seed'[d].step \in Rewriting => NextFiles(d)' = NextFiles(d)
    BY <1>1, <1>2, GoOnFacts DEF NextFiles, Rewriting
  <2> QED BY <1>1, <1>2, <1>5, <1>6, <1>7, <2>1, <2>2 DEF Replaced, InHand
<1>8. CASE seed[d].step = "purge"
  <2>1. seed'[d].step = "purging" /\ seed'[d].found = source[f].docs /\ NextFiles(d)' = NextFiles(d)
    BY <1>1, <1>2, <1>8, GoOnFacts DEF NextFiles
  <2>2. InHand(d, f)' /\ work'[d][f].docs = {}
    BY <1>1, <1>2, <1>5, <1>8, <2>1 DEF Replaced, InHand, Rewriting
  <2> QED BY <1>3, <1>6, <1>7, <2>1, <2>2 DEF Replaced
<1>9. CASE seed[d].step = "purging"
  <2>1. seed'[d].step = "ingest" /\ NextFiles(d)' = NextFiles(d)
    BY <1>1, <1>2, <1>9, GoOnFacts DEF NextFiles
  <2>2. work[d][f].docs = {} /\ seed[d].found = source[f].docs
    BY <1>1, <1>5, <1>9 DEF Replaced
  <2>3. work'[d][f].docs = {} /\ work'[d][f].purged = source[f].docs
    <3>1. work'[d][f] = [work[d][f] EXCEPT !.purged = seed[d].found \cap source[f].docs]
      BY <1>2, <1>9
    <3>2. work[d][f] \in Work
      BY <1>1, <1>2
    <3> QED BY <2>2, <3>1, <3>2 DEF Work
  <2>4. InHand(d, f)'
    BY <1>2, <2>1 DEF InHand, Rewriting
  <2> QED BY <1>3, <1>6, <1>7, <2>1, <2>3, <2>4 DEF Replaced
<1>10. CASE seed[d].step = "ingest"
  <2>1. seed'[d].step = "file"
    BY <1>1, <1>2, <1>10, GoOnFacts
  <2>2. work[d][f].purged = source[f].docs
    BY <1>1, <1>5, <1>10 DEF Replaced
  <2>3. work'[d][f].docs = {<<tree[f], d>>} /\ work'[d][f].purged = source[f].docs
    BY <1>1, <1>2, <1>10, <2>2 DEF Work
  <2>4. ~InHand(d, f)'
    BY <2>1 DEF InHand, Rewriting
  <2> QED BY <1>3, <1>6, <1>7, <2>1, <2>3, <2>4 DEF Replaced
<1> QED BY <1>4, <1>8, <1>9, <1>10 DEF Rewriting

\* A seeder keeps documents and rows together.
LEMMA SeederDocuments ==
  ASSUME DocumentInv, NEW d \in Seeders, SeedStep(d)
  PROVE  OneDocument' /\ \A e \in Seeders : Replaced(e)'
<1>1. /\ SeedTypeOK /\ OneDocument /\ HeldByOne
      /\ \A e \in Seeders : WrittenIsTree(e) /\ Replaced(e)
  BY DEF DocumentInv, LockInv, ContentInv
<1>2. UNCHANGED tree /\ \A e \in Seeders \ {d} : seed'[e] = seed[e] /\ work'[e] = work[e]
  BY <1>1, OthersStay
<1>3. /\ ~SeedCommit(d) => UNCHANGED source
      /\ \A f \in Files \ Written(d) : source'[f] = source[f]
  BY <1>1, SourcesFollow
<1>4. \A e \in Seeders \ {d} : Replaced(e)'
  <2>1. \A e \in Seeders \ {d} : \A f \in Written(e) : f \in Files \ Written(d)
    BY <1>1 DEF HeldByOne, Written
  <2> QED BY <1>1, <1>2, <1>3, <2>1, OthersReplaced
<1>5. CASE SeedRollback(d) \/ SeedCommit(d)
  <2>1. Written(d)' = {}
    BY <1>1, <1>5, EndLock DEF SeedRollback, SeedCommit
  <2>2. ASSUME SeedCommit(d), NEW f \in Written(d)
        PROVE  source'[f].content # None /\ source'[f].docs = {<<source'[f].content, d>>}
    <3>1. source'[f] = [content |-> Seen(d, f),
                        docs |-> (source[f].docs \ work[d][f].purged) \cup work[d][f].docs]
      BY <2>2 DEF SeedCommit, Written
    <3>2. Seen(d, f) = tree[f] /\ tree[f] # None
      BY <1>1, <2>2 DEF Seen, WrittenIsTree
    <3>3. ~InHand(d, f)
      BY <2>2 DEF SeedCommit, InHand, Rewriting
    <3>4. work[d][f].docs = {<<tree[f], d>>} /\ work[d][f].purged = source[f].docs
      BY <1>1, <2>2, <3>3 DEF Replaced
    <3> QED BY <3>1, <3>2, <3>4
  <2>3. OneDocument'
    BY <1>1, <1>3, <1>5, <2>2 DEF OneDocument, SeedRollback
  <2> QED BY <1>4, <2>1, <2>3 DEF Replaced
<1>6. ASSUME ~SeedCommit(d), Replaced(d)' PROVE OneDocument' /\ \A e \in Seeders : Replaced(e)'
  BY <1>1, <1>3, <1>4, <1>6 DEF OneDocument
<1>7. CASE ~SeedRollback(d) /\ ~SeedCommit(d) /\ WriteRow(d)
  BY <1>6, <1>7, WriteReplaced
<1>8. CASE ~SeedCommit(d) /\ Replaces(d)
  BY <1>6, <1>8, ReplaceReplaced
<1>9. CASE ~SeedRollback(d) /\ ~SeedCommit(d) /\ ~WriteRow(d) /\ ~Replaces(d)
  <2>1. UNCHANGED <<tree, source, work>>
    BY <1>9, NothingDone
  <2>2. seed[d].step \notin Rewriting /\ seed'[d].step \notin Rewriting
    BY <1>1, <1>9, StatementOrder
    DEF SeedStep, SeedBegin, ReadLibraryFiles, FindCollection, CreateCollection, LoadSources,
        TakeFile, NextLibrary, SeedFail, At, FileDone, GoOn, SeedAt, Rewriting, SeedTypeOK, Replaces
  <2>3. Written(d)' = Written(d) /\ \A f : ~InHand(d, f) /\ ~InHand(d, f)'
    BY <2>1, <2>2 DEF Written, InHand
  <2>4. Replaced(d)'
    BY <1>1, <2>1, <2>3 DEF Replaced
  <2> QED BY <1>6, <1>9, <2>4
<1> QED BY <1>5, <1>7, <1>8, <1>9

\* Every step keeps it.
LEMMA NextDocuments == DocumentInv /\ [SeedNext]_seedVars => DocumentInv'
<1> SUFFICES ASSUME DocumentInv, [SeedNext]_seedVars
             PROVE  OneDocument' /\ \A d \in Seeders : Replaced(d)'
  BY NextLock DEF DocumentInv
<1>1. ASSUME NEW d \in Seeders, SeedStep(d) PROVE OneDocument' /\ \A e \in Seeders : Replaced(e)'
  BY <1>1, SeederDocuments
<1>2. CASE UNCHANGED <<tree, source, work, seed>>
  BY <1>2, OthersReplaced DEF DocumentInv, OneDocument
<1>3. CASE Edit
  <2>1. \A e \in Seeders : Written(e)' = {}
    BY <1>3 DEF Edit, DocumentInv, LockInv, ContentInv, WrittenIsTree, Written
  <2>2. OneDocument'
    BY <1>3 DEF Edit, DocumentInv, OneDocument
  <2> QED BY <2>1, <2>2 DEF Replaced
<1> QED BY <1>1, <1>2, <1>3 DEF SeedNext, seedVars

\* A public source has one document, made of the content its row names: a seeding command
\* looks for the old documents of a row while it holds the row, so it finds those of a
\* command that held it before.
THEOREM Documents == SeedSpec => []OneDocument
<1>1. DocumentInv => OneDocument
  BY DEF DocumentInv
<1> QED BY <1>1, InitDocuments, NextDocuments, PTL DEF SeedSpec
=============================================================================
