--------------------------- MODULE AlgorithmProofs ---------------------------
(***************************************************************************)
(* The algorithms keep their promises for inputs of every length, and for  *)
(* every value of the constants.                                           *)
(***************************************************************************)
EXTENDS Algorithms, ChunkerProofs, CleanerProofs

-----------------------------------------------------------------------------
(* The inputs.                                                             *)

Result == [run : {1, 2}, case : Cases, values : Scores]

\* An input is of one of the kinds, and of what that kind is made of.
InputShape ==
  \/ input \in [of : {"text"}, data : Seq(Classes)]
  \/ input \in [of : {"pages"}, data : Seq(LineTexts)]
  \/ input \in [of : {"ranking"}, data : Seq(Distances)]
  \/ input \in [of : {"outcomes"}, data : Seq(Outcomes)]
  \/ /\ input \in [of : {"upload"}, data : Seq(FileSuffixes \cup FileTypes \cup (1..ReadChunkBytes))]
     /\ \A i \in DOMAIN input.data : i > 2 => input.data[i] \in 1..ReadChunkBytes
  \/ /\ input \in [of : {"runs"}, data : Seq(Result)]
     /\ \A i, j \in DOMAIN input.data :
          /\ input.data[i].run = input.data[j].run
          /\ input.data[i].case = input.data[j].case
          => i = j

LEMMA Appended ==
  ASSUME NEW S, NEW s \in Seq(S), NEW x \in S
  PROVE  /\ Append(s, x) \in Seq(S)
         /\ DOMAIN Append(s, x) = 1..Len(s) + 1
         /\ Append(s, x)[Len(s) + 1] = x
         /\ \A i \in DOMAIN s : Append(s, x)[i] = s[i]
         /\ DOMAIN s = 1..Len(s) /\ Len(s) \in Nat
OBVIOUS

LEMMA ShapeStays ==
  ASSUME InputShape, [Next]_vars PROVE InputShape'
<1> USE DEF Grow
<1>1. CASE GrowText
  <2>1. input \in [of : {"text"}, data : Seq(Classes)]
    BY <1>1 DEF GrowText, InputShape
  <2>2. PICK item \in Classes : input' = [input EXCEPT !.data = Append(@, item)]
    BY <1>1 DEF GrowText
  <2>3. Append(input.data, item) \in Seq(Classes)
    BY <2>1
  <2>4. input' \in [of : {"text"}, data : Seq(Classes)]
    BY <2>1, <2>2, <2>3
  <2> QED BY <2>4 DEF InputShape
<1>2. CASE GrowPages
  <2> DEFINE S == LineTexts
  <2>1. input \in [of : {"pages"}, data : Seq(S)]
    BY <1>2 DEF GrowPages, InputShape
  <2>2. PICK item \in S : input' = [input EXCEPT !.data = Append(@, item)]
    BY <1>2 DEF GrowPages
  <2> HIDE DEF S
  <2>3. Append(input.data, item) \in Seq(S)
    BY <2>1
  <2>4. input' \in [of : {"pages"}, data : Seq(S)]
    BY <2>1, <2>2, <2>3
  <2> QED BY <2>4 DEF S, InputShape
<1>3. CASE GrowRanking
  <2>1. input \in [of : {"ranking"}, data : Seq(Distances)]
    BY <1>3 DEF GrowRanking, InputShape
  <2>2. PICK item \in Distances : input' = [input EXCEPT !.data = Append(@, item)]
    BY <1>3 DEF GrowRanking
  <2>3. Append(input.data, item) \in Seq(Distances)
    BY <2>1
  <2>4. input' \in [of : {"ranking"}, data : Seq(Distances)]
    BY <2>1, <2>2, <2>3
  <2> QED BY <2>4 DEF InputShape
<1>4. CASE GrowOutcomes
  <2>1. input \in [of : {"outcomes"}, data : Seq(Outcomes)]
    BY <1>4 DEF GrowOutcomes, InputShape
  <2>2. PICK item \in Outcomes : input' = [input EXCEPT !.data = Append(@, item)]
    BY <1>4 DEF GrowOutcomes
  <2>3. Append(input.data, item) \in Seq(Outcomes)
    BY <2>1
  <2>4. input' \in [of : {"outcomes"}, data : Seq(Outcomes)]
    BY <2>1, <2>2, <2>3
  <2> QED BY <2>4 DEF InputShape
<1>5. CASE GrowReads
  <2> DEFINE S == FileSuffixes \cup FileTypes \cup (1..ReadChunkBytes)
  <2>1. /\ input \in [of : {"upload"}, data : Seq(S)]
        /\ \A i \in DOMAIN input.data : i > 2 => input.data[i] \in 1..ReadChunkBytes
    BY <1>5 DEF GrowReads, InputShape
  <2> DEFINE l == Len(input.data)
  <2>0. l \in Nat
    BY <2>1
  <2>2. PICK item \in S : /\ input' = [input EXCEPT !.data = Append(@, item)]
                          /\ l >= 2 => item \in 1..ReadChunkBytes
    <3>1. \/ l = 0 /\ Grow("upload", FileSuffixes)
          \/ l = 1 /\ Grow("upload", FileTypes)
          \/ l >= 2 /\ Grow("upload", 1..ReadChunkBytes)
      BY <1>5 DEF GrowReads
    <3> HIDE DEF l
    <3> QED BY <2>0, <3>1
  <2> HIDE DEF S
  <2> DEFINE d == input.data
             e == Append(d, item)
  <2>3. d \in Seq(S)
    BY <2>1
  <2> HIDE DEF d
  <2>4. /\ e \in Seq(S) /\ DOMAIN e = 1..Len(d) + 1 /\ e[Len(d) + 1] = item
        /\ \A i \in DOMAIN d : e[i] = d[i]
        /\ DOMAIN d = 1..Len(d) /\ Len(d) \in Nat
    BY <2>3, Appended
  <2> HIDE DEF e
  <2>5. \A i \in DOMAIN e : i > 2 => e[i] \in 1..ReadChunkBytes
    BY <2>1, <2>2, <2>4 DEF d, l
  <2>6. input' \in [of : {"upload"}, data : Seq(S)] /\ input'.data = e
    BY <2>1, <2>2, <2>4 DEF d, e
  <2> QED BY <2>5, <2>6 DEF S, InputShape
<1>6. CASE GrowRuns
  <2> DEFINE Distinct(d) == \A i, j \in DOMAIN d :
               d[i].run = d[j].run /\ d[i].case = d[j].case => i = j
             d == input.data
  <2>1. input \in [of : {"runs"}, data : Seq(Result)] /\ Distinct(d)
    BY <1>6 DEF GrowRuns, InputShape
  <2>2. PICK item \in Result :
          /\ input' = [input EXCEPT !.data = Append(@, item)]
          /\ \A i \in DOMAIN d : <<d[i].run, d[i].case>> # <<item.run, item.case>>
    <3>1. PICK run \in {1, 2}, case \in Cases, values \in Scores :
            /\ \A i \in DOMAIN d : <<d[i].run, d[i].case>> # <<run, case>>
            /\ input' = [input EXCEPT !.data =
                          Append(@, [run |-> run, case |-> case, values |-> values])]
      BY <1>6 DEF GrowRuns
    <3>2. [run |-> run, case |-> case, values |-> values] \in Result
      BY DEF Result
    <3> QED BY <3>1, <3>2
  <2> DEFINE e == Append(d, item)
  <2>3. d \in Seq(Result)
    BY <2>1
  <2> HIDE DEF d
  <2>4. /\ e \in Seq(Result) /\ DOMAIN e = 1..Len(d) + 1 /\ e[Len(d) + 1] = item
        /\ \A i \in DOMAIN d : e[i] = d[i]
        /\ DOMAIN d = 1..Len(d) /\ Len(d) \in Nat
    BY <2>3, Appended
  <2> HIDE DEF e
  <2>5. Distinct(e)
    <3> SUFFICES ASSUME NEW i \in DOMAIN e, NEW j \in DOMAIN e,
                        e[i].run = e[j].run, e[i].case = e[j].case
                 PROVE  i = j
      OBVIOUS
    <3>1. \A k \in DOMAIN e : \/ k \in DOMAIN d /\ e[k] = d[k]
                              \/ k = Len(d) + 1 /\ e[k] = item
      BY <2>4
    <3> QED BY <2>1, <2>2, <3>1
  <2>6. input' \in [of : {"runs"}, data : Seq(Result)] /\ input'.data = e
    BY <2>1, <2>2, <2>4 DEF d, e
  <2> QED BY <2>5, <2>6 DEF InputShape
<1>7. CASE UNCHANGED vars
  BY <1>7 DEF vars, InputShape
<1> QED BY <1>1, <1>2, <1>3, <1>4, <1>5, <1>6, <1>7 DEF Next

THEOREM Shape == Spec => []InputShape
<1>1. Init => InputShape
  <2> SUFFICES ASSUME Init PROVE InputShape
    OBVIOUS
  <2>1. PICK kind \in {"text", "pages", "ranking", "outcomes", "upload", "runs"} :
          input = [of |-> kind, data |-> <<>>]
    BY DEF Init
  <2>2. input.data = <<>> /\ DOMAIN input.data = {} /\ input.of = kind
    BY <2>1
  <2>3. \A S : input \in [of : {kind}, data : Seq(S)]
    BY <2>1
  <2> QED BY <2>2, <2>3 DEF InputShape
<1>2. InputShape /\ [Next]_vars => InputShape'
  BY ShapeStays
<1> QED BY <1>1, <1>2, PTL DEF Spec

-----------------------------------------------------------------------------
(* Uploads.                                                                *)

\* The loop of _read_limited_upload, over any of the reads.
LEMMA ReadsFold ==
  ASSUME NEW reads \in Seq(Nat)
  PROVE  \E it : /\ ReadLimitedUpload(reads) = it[DOMAIN reads]
                 /\ it[{}] = [buffered |-> 0, refused |-> FALSE]
                 /\ \A s \in SUBSET DOMAIN reads : s # {} =>
                      it[s] = Read(it[s \ {Max(s)}], reads[Max(s)])
<1> DEFINE n == Len(reads)
           D == 1..n
           V == [buffered : Nat, refused : BOOLEAN]
           base == [buffered |-> 0, refused |-> FALSE]
           step == [x \in D |-> [v \in V |-> Read(v, reads[x])]]
           it == CHOOSE it : it = [s \in SUBSET D |->
                   IF s = {} THEN base ELSE Read(it[s \ {Max(s)}], reads[Max(s)])]
<1>1. DOMAIN reads = D /\ n \in Nat /\ base \in V
  OBVIOUS
<1>2. Steps(step, n, V)
  BY BytesAssumption DEF Read, Steps
<1>3. \A x \in D, v \in V : step[x][v] = Read(v, reads[x])
  OBVIOUS
<1> HIDE DEF step, base, V, n
<1>4. PICK f : FoldsLeft(f, n, V, base, step)
  BY <1>1, <1>2, FoldLeftExists
<1>5. \A s \in SUBSET D :
        f[s] = IF s = {} THEN base ELSE Read(f[s \ {Max(s)}], reads[Max(s)])
  BY <1>3, <1>4 DEF FoldsLeft
<1>6. f = [s \in SUBSET D |-> IF s = {} THEN base ELSE Read(f[s \ {Max(s)}], reads[Max(s)])]
  BY <1>4, <1>5 DEF FoldsLeft
<1>7. it = [s \in SUBSET D |-> IF s = {} THEN base ELSE Read(it[s \ {Max(s)}], reads[Max(s)])]
  BY <1>6, Zenon
<1>8. ReadLimitedUpload(reads) = it[D]
  BY <1>1, Zenon DEF ReadLimitedUpload, FoldLeft, MapThenFoldSet, base
<1> HIDE DEF it
<1> QED BY <1>1, <1>7, <1>8 DEF base

\* The buffer after reads of so many bytes in all.
Counts(upload, total) ==
  /\ total \in Nat
  /\ upload \in [buffered : Nat, refused : BOOLEAN]
  /\ upload.refused <=> total > UploadMaxBytes
  /\ ~upload.refused => upload.buffered = total
  /\ upload.buffered <= UploadMaxBytes + ReadChunkBytes

LEMMA ReadCounts ==
  ASSUME NEW upload, NEW total, Counts(upload, total), NEW bytes \in 1..ReadChunkBytes
  PROVE  Counts(Read(upload, bytes), total + bytes)
<1>1. CASE upload.refused
  BY <1>1, BytesAssumption DEF Counts, Read
<1>2. CASE ~upload.refused
  <2> DEFINE more == total + bytes
  <2>1. /\ upload.buffered = total /\ total \in Nat /\ total <= UploadMaxBytes
        /\ more \in Nat /\ more <= UploadMaxBytes + ReadChunkBytes
    BY <1>2, BytesAssumption DEF Counts
  <2> DEFINE over == more > UploadMaxBytes
  <2>2. Read(upload, bytes) = [buffered |-> more, refused |-> over]
    BY <1>2, <2>1 DEF Read
  <2>3. over \in BOOLEAN /\ (over <=> more > UploadMaxBytes)
    BY <2>1, BytesAssumption
  <2> HIDE DEF more, over
  <2>4. CASE over = TRUE
    <3>1. Read(upload, bytes) = [buffered |-> more, refused |-> TRUE]
      BY <2>2, <2>4
    <3> QED BY <2>1, <2>3, <2>4, <3>1 DEF Counts, more
  <2>5. CASE over = FALSE
    <3>1. Read(upload, bytes) = [buffered |-> more, refused |-> FALSE]
      BY <2>2, <2>5
    <3> QED BY <2>1, <2>3, <2>5, <3>1 DEF Counts, more
  <2> QED BY <2>3, <2>4, <2>5
<1> QED BY <1>1, <1>2

\* What has been read, and whether it is too much.
LEMMA UploadIsCounted ==
  ASSUME NEW reads \in Seq(1..ReadChunkBytes)
  PROVE  LET upload == ReadLimitedUpload(reads) IN
         /\ upload.refused = (SumFunction(reads) > UploadMaxBytes)
         /\ upload.buffered <= UploadMaxBytes + ReadChunkBytes
<1> DEFINE D == DOMAIN reads
           S(s) == SumFunctionOnSet(reads, s)
<1>1. reads \in Seq(Nat)
  BY BytesAssumption
<1>2. PICK it : /\ ReadLimitedUpload(reads) = it[D]
                /\ it[{}] = [buffered |-> 0, refused |-> FALSE]
                /\ \A s \in SUBSET D : s # {} =>
                     it[s] = Read(it[s \ {Max(s)}], reads[Max(s)])
  BY <1>1, ReadsFold
<1>3. IsFiniteSet(D) /\ D \subseteq Nat /\ \A x \in D : reads[x] \in 1..ReadChunkBytes
  BY SequencePlaces
<1> HIDE DEF D
<1> DEFINE P == {s \in SUBSET D : Counts(it[s], S(s))}
<1>4. \A s \in SUBSET D : (\A t \in SUBSET s : t # s => t \in P) => s \in P
  <2> SUFFICES ASSUME NEW s \in SUBSET D, \A t \in SUBSET s : t # s => t \in P
               PROVE  Counts(it[s], S(s))
    OBVIOUS
  <2>1. CASE s = {}
    <3>1. S({}) = 0 /\ it[s] = [buffered |-> 0, refused |-> FALSE]
      BY <1>2, <2>1, SumOfNone
    <3> QED BY <2>1, <3>1, BytesAssumption DEF Counts
  <2>2. CASE s # {}
    <3> DEFINE m == Max(s)
               t == s \ {m}
    <3>1. IsFiniteSet(s) /\ s \in SUBSET Nat
      BY <1>3, FS_Subset
    <3>2. m \in s
      BY <2>2, <3>1, MaxIsGreatest
    <3> HIDE DEF m
    <3>3. Counts(it[t], S(t))
      BY <3>2
    <3> HIDE DEF P
    <3>4. reads[m] \in 1..ReadChunkBytes /\ \A x \in s : reads[x] \in Int
      BY <1>3, <3>2
    <3>5. S(s) = reads[m] + S(t)
      BY <3>1, <3>2, <3>4, SumAdds
    <3>6. it[s] = Read(it[t], reads[m])
      BY <1>2, <2>2 DEF m
    <3> HIDE DEF t
    <3>7. S(s) = S(t) + reads[m]
      BY <3>3, <3>4, <3>5 DEF Counts
    <3> QED BY <3>3, <3>4, <3>6, <3>7, ReadCounts
  <2> QED BY <2>1, <2>2
<1> HIDE DEF P
<1>5. D \in P
  BY <1>3, <1>4, SubsetInduction
<1>6. Counts(it[D], S(D))
  BY <1>5 DEF P
<1>7. it[D].refused = (S(D) > UploadMaxBytes)
  BY <1>6 DEF Counts
<1> QED BY <1>2, <1>6, <1>7 DEF D, SumFunction, Counts

LEMMA UploadBounded ==
  ASSUME NEW suffix, NEW mime, NEW reads \in Seq(1..ReadChunkBytes)
  PROVE  UploadIsBounded(suffix, mime, reads)
<1>1. ValidMetadata(suffix, mime) =>
        /\ suffix \in ParsedSuffixes
        /\ Served(suffix).type \in MimeTypes(suffix) \cup {"text/plain"}
        /\ Disposition(suffix, FALSE) = "inline" => Served(suffix).type # "text/html"
  BY DEF ValidMetadata, Served, MimeTypes, ParsedSuffixes, Disposition, Word,
         MarkdownParser, TextParser, HTMLParser, PDFParser, WordParser
<1> QED BY <1>1, UploadIsCounted DEF UploadIsBounded

\* However a file is cut into reads, it is refused exactly when it is longer than the
\* limit, never more than a read above the limit is held, and what is let in has a
\* parser and is served as what it may be.
THEOREM UploadsBounded == Spec => []UploadsAreBounded
<1>1. InputShape => UploadsAreBounded
  <2> SUFFICES ASSUME InputShape, input.of = "upload", Len(input.data) >= 2
               PROVE  UploadIsBounded(input.data[1], input.data[2],
                                      SubSeq(input.data, 3, Len(input.data)))
    BY DEF UploadsAreBounded
  <2> DEFINE d == input.data
             S == FileSuffixes \cup FileTypes \cup (1..ReadChunkBytes)
  <2>1. d \in Seq(S) /\ \A i \in DOMAIN d : i > 2 => d[i] \in 1..ReadChunkBytes
    BY DEF InputShape
  <2> HIDE DEF d, S
  <2>2. SubSeq(d, 3, Len(d)) \in Seq(1..ReadChunkBytes)
    BY <2>1
  <2> QED BY <2>2, UploadBounded DEF d
<1> QED BY <1>1, Shape, PTL

-----------------------------------------------------------------------------
(* The order of retrieval.                                                 *)

\* The numbers in S have keys that can be compared.
Keyed(S, key) == \A x \in S : x \in Nat /\ key[x] \in Int

\* Ranked puts S in order: every element has one rank, and those before it have the
\* ranks before it.
LEMMA RankedIsOrder ==
  ASSUME NEW S, IsFiniteSet(S), NEW key, Keyed(S, key)
  PROVE  LET n == Cardinality(S)
             r == Ranked(S, key) IN
         /\ n \in Nat /\ r \in [1..n -> S]
         /\ OneToOne(r, 1..n)
         /\ \A x \in S : \E i \in 1..n : r[i] = x
         /\ \A i, j \in 1..n : i < j => r[i] \in Before(r[j], S, key)
<1> DEFINE n == Cardinality(S)
           r == Ranked(S, key)
           B(x) == Before(x, S, key)
           Rank == [x \in S |-> Cardinality(B(x)) + 1]
<1>1. n \in Nat
  BY FS_CardinalityType
<1>2. ASSUME NEW x \in S PROVE IsFiniteSet(B(x)) /\ B(x) \in SUBSET S /\ x \notin B(x)
  <2>1. B(x) \in SUBSET S /\ x \notin B(x)
    BY DEF Before, Keyed
  <2> QED BY <2>1, FS_Subset
<1>3. ASSUME NEW x \in S, NEW y \in B(x) PROVE Cardinality(B(y)) < Cardinality(B(x))
  <2>1. y \in S /\ key[y] \in Int /\ key[x] \in Int /\ y \notin B(y)
    BY <1>2 DEF Before, Keyed
  <2>2. ASSUME NEW z \in B(y) PROVE z \in B(x)
    <3> DEFINE kx == key[x]
               ky == key[y]
               kz == key[z]
    <3>1. /\ z \in S /\ x \in Nat /\ y \in Nat /\ z \in Nat
          /\ kx \in Int /\ ky \in Int /\ kz \in Int
      BY <2>1 DEF Before, Keyed
    <3>2. ky < kx \/ (ky = kx /\ y < x)
      BY DEF Before
    <3>3. kz < ky \/ (kz = ky /\ z < y)
      BY DEF Before
    <3> HIDE DEF kx, ky, kz
    <3>4. kz < kx \/ (kz = kx /\ z < x)
      BY <3>1, <3>2, <3>3
    <3> QED BY <3>1, <3>4 DEF Before, kx, kz
  <2>3. y \in B(x) \ B(y)
    BY <2>1
  <2> QED BY <1>2, <2>2, <2>3, ProperPartCounts
<1>4. ASSUME NEW x \in S, NEW y \in S, x # y PROVE x \in B(y) \/ y \in B(x)
  BY <1>4 DEF Before, Keyed
<1>5. ASSUME NEW x \in S PROVE Cardinality(B(x)) \in Nat /\ Cardinality(B(x)) < n
  BY <1>2, ProperPartCounts
<1>6. Rank \in [S -> 1..n]
  BY <1>1, <1>5
<1>7. \A x \in S : Rank[x] = Cardinality(B(x)) + 1
  OBVIOUS
<1> HIDE DEF Rank, B
<1>8. OneToOne(Rank, S)
  BY <1>3, <1>4, <1>5, <1>7 DEF OneToOne
<1>9. IsFiniteSet(1..n) /\ Cardinality(1..n) = n
  BY <1>1, FS_Interval
<1>10. \A i \in 1..n : \E x \in S : Rank[x] = i
  <2> DEFINE ranks == 1..n
  <2>1. /\ Maps(Rank, S, ranks)
        /\ IsFiniteSet(ranks) /\ Cardinality(S) = Cardinality(ranks)
    BY <1>6, <1>9 DEF Maps
  <2> HIDE DEF ranks
  <2>2. \A i \in ranks : \E x \in S : Rank[x] = i
    BY <1>8, <2>1, InjectionIsOnto
  <2> QED BY <2>2 DEF ranks
<1>11. ASSUME NEW i \in 1..n PROVE r[i] \in S /\ Rank[r[i]] = i
  <2>1. \E x \in S : Cardinality(Before(x, S, key)) = i - 1
    BY <1>1, <1>5, <1>7, <1>10 DEF B
  <2>2. r[i] = CHOOSE x \in S : Cardinality(Before(x, S, key)) = i - 1
    BY DEF Ranked
  <2>3. r[i] \in S /\ Cardinality(Before(r[i], S, key)) = i - 1
    BY <2>1, <2>2
  <2> HIDE DEF r
  <2>4. Rank[r[i]] = (i - 1) + 1
    BY <1>7, <2>3 DEF B
  <2> QED BY <1>1, <2>3, <2>4
<1>12. r \in [1..n -> S]
  BY <1>11 DEF Ranked
<1> HIDE DEF r, n
<1>13. OneToOne(r, 1..n)
  BY <1>11 DEF OneToOne
<1>14. \A x \in S : \E i \in 1..n : r[i] = x
  BY <1>6, <1>8, <1>11 DEF OneToOne
<1>15. ASSUME NEW i \in 1..n, NEW j \in 1..n, i < j PROVE r[i] \in B(r[j])
  <2>1. r[i] \in S /\ r[j] \in S /\ r[i] # r[j]
    BY <1>11, <1>15
  <2>2. r[j] \notin B(r[i])
    <3> SUFFICES ASSUME r[j] \in B(r[i]) PROVE FALSE
      OBVIOUS
    <3> DEFINE bi == Cardinality(B(r[i]))
               bj == Cardinality(B(r[j]))
    <3>1. bj < bi /\ bi \in Nat /\ bj \in Nat
      BY <1>3, <1>5, <2>1
    <3>2. bi + 1 = i /\ bj + 1 = j
      BY <1>7, <1>11
    <3> HIDE DEF bi, bj
    <3> QED BY <1>1, <1>15, <3>1, <3>2
  <2> QED BY <1>4, <2>1, <2>2
<1> QED BY <1>1, <1>12, <1>13, <1>14, <1>15 DEF r, n, B

\* What is retrieved: visible chunks, each once, at most as many as asked for.
LEMMA RetrievedInOrder ==
  ASSUME NEW S, IsFiniteSet(S), NEW key, Keyed(S, key), NEW k \in Nat
  PROVE  LET n == Min({k, Cardinality(S)})
             r == Retrieve(key, S, k) IN
         /\ n \in Nat /\ n <= k /\ n <= Cardinality(S) /\ (n = k \/ n = Cardinality(S))
         /\ DOMAIN r = 1..n /\ Len(r) = n
         /\ Maps(r, 1..n, S) /\ OneToOne(r, 1..n)
         /\ \A i \in 1..n : r[i] = Ranked(S, key)[i]
<1> DEFINE c == Cardinality(S)
           n == Min({k, c})
           q == Ranked(S, key)
<1>1. c \in Nat /\ q \in [1..c -> S] /\ OneToOne(q, 1..c)
  BY RankedIsOrder
<1>2. n \in {k, c} /\ n <= k /\ n <= c
  BY <1>1, MinIsLeast
<1>3. Retrieve(key, S, k) = SubSeq(q, 1, n)
  BY DEF Retrieve
<1> HIDE DEF c, n, q
<1>4. n \in Nat
  BY <1>1, <1>2
<1>5. SubSeq(q, 1, n) = [i \in 1..n |-> q[i]] /\ Len(SubSeq(q, 1, n)) = n
  BY <1>1, <1>4
<1>6. \A i \in 1..n : i \in 1..c
  BY <1>1, <1>2, <1>4
<1> QED BY <1>1, <1>2, <1>3, <1>4, <1>5, <1>6 DEF c, n, q, Maps, OneToOne

LEMMA LabelsFit ==
  ASSUME NEW retrieved, NEW n \in Nat, DOMAIN retrieved = 1..n, Len(retrieved) = n,
         NEW known, Maps(retrieved, 1..n, known), NEW distance, NEW expected
  PROVE  AttributionAgrees(retrieved, distance, expected, known)
<1> DEFINE hits == Positions(retrieved, expected, Len(retrieved))
           label == Attribution(retrieved, distance, expected, known)
           mrr == ReciprocalRank(retrieved, expected, Len(retrieved))
           first == Min(hits)
<1>1. hits \in SUBSET Nat /\ (hits # {} => expected \cap known # {})
  BY DEF Positions, Maps
<1>2. hits # {} => first \in Nat
  BY <1>1, MinIsLeast
<1>3. hits = {} => mrr[1] = 0
  BY DEF ReciprocalRank
<1>4. hits # {} => mrr[1] = 1 /\ mrr[2] = first
  BY DEF ReciprocalRank
<1>5. label = IF expected \cap known = {} THEN "not_in_kb"
              ELSE IF hits = {} THEN "not_recalled"
              ELSE IF FlatTop(retrieved, distance) THEN "ambiguous"
              ELSE IF first > 3 THEN "low_rank"
              ELSE "hit"
  BY DEF Attribution
<1> HIDE DEF hits, label, mrr, first
<1>6. /\ label \in {"not_in_kb", "not_recalled"} <=> mrr[1] = 0
      /\ label = "low_rank" => mrr[2] > 3
      /\ label = "hit" => mrr[2] <= 3
  BY <1>1, <1>2, <1>3, <1>4, <1>5
<1> QED BY <1>6 DEF AttributionAgrees, label, mrr

\* The chunks of a ranking, by their distances.
LEMMA RankingIsKeyed ==
  ASSUME NEW d \in Seq(Distances), NEW visible \in SUBSET DOMAIN d
  PROVE  IsFiniteSet(visible) /\ Keyed(visible, d)
<1>1. IsFiniteSet(DOMAIN d) /\ DOMAIN d \subseteq Nat /\ \A x \in DOMAIN d : d[x] \in Distances
  BY SequencePlaces
<1>2. ASSUME NEW x \in visible PROVE x \in Nat /\ d[x] \in Int
  <2>1. x \in DOMAIN d
    OBVIOUS
  <2>2. Distances \subseteq Int
    BY RankingAssumption
  <2> QED BY <1>1, <2>1, <2>2, Zenon
<1>3. IsFiniteSet(visible)
  BY <1>1, FS_Subset
<1> QED BY <1>2, <1>3 DEF Keyed

\* The label that explains a case never contradicts its metrics, however many chunks
\* there are and however close their distances.
THEOREM LabelsTellTruth == Spec => []LabelFitsMetrics
<1>1. InputShape => LabelFitsMetrics
  <2> DEFINE d == input.data
  <2> SUFFICES ASSUME InputShape, input.of = "ranking",
                      NEW visible \in SUBSET DOMAIN d, NEW expected, NEW k \in Cutoffs
               PROVE  AttributionAgrees(Retrieve(d, visible, k), d, expected, visible)
    BY DEF LabelFitsMetrics
  <2>1. d \in Seq(Distances)
    BY DEF InputShape
  <2> HIDE DEF d
  <2>2. k \in Nat
    BY RankingAssumption
  <2> QED BY <2>1, <2>2, RankingIsKeyed, RetrievedInOrder, LabelsFit
<1> QED BY <1>1, Shape, PTL
-----------------------------------------------------------------------------
(* The gain of ranks.                                                      *)

LEMMA GainAdds ==
  ASSUME NEW P \in SUBSET DOMAIN Gain
  PROVE  /\ IsFiniteSet(P) /\ P \in SUBSET Nat /\ Cardinality(P) \in Nat
         /\ GainOf(P) \in Int
         /\ P = {} => GainOf(P) = 0
         /\ \A x \in P : /\ Gain[x] \in Int /\ Gain[x] > 0
                         /\ GainOf(P) = Gain[x] + GainOf(P \ {x})
<1>1. Gain \in Seq(Nat \ {0})
  BY GainAssumption
<1>2. /\ IsFiniteSet(DOMAIN Gain) /\ DOMAIN Gain \subseteq Nat
      /\ \A x \in DOMAIN Gain : Gain[x] \in Nat \ {0}
  BY <1>1, SequencePlaces
<1>3. IsFiniteSet(P) /\ P \in SUBSET Nat /\ \A x \in P : Gain[x] \in Int /\ Gain[x] > 0
  BY <1>2, FS_Subset
<1>4. /\ GainOf(P) \in Int
      /\ \A x \in P : GainOf(P) = Gain[x] + GainOf(P \ {x})
  BY <1>3, SumAdds DEF GainOf
<1>5. Cardinality(P) \in Nat
  BY <1>3, FS_CardinalityType
<1>6. P = {} => GainOf(P) = 0
  BY SumOfNone DEF GainOf
<1> QED BY <1>3, <1>4, <1>5, <1>6

LEMMA GainIsPositive ==
  ASSUME NEW P \in SUBSET DOMAIN Gain
  PROVE  GainOf(P) >= 0 /\ (GainOf(P) = 0 <=> P = {})
<1> DEFINE Good == {s \in SUBSET P : GainOf(s) >= 0 /\ (GainOf(s) = 0 <=> s = {})}
<1>1. \A s \in SUBSET P : (\A t \in SUBSET s : t # s => t \in Good) => s \in Good
  <2> SUFFICES ASSUME NEW s \in SUBSET P, \A t \in SUBSET s : t # s => t \in Good
               PROVE  GainOf(s) >= 0 /\ (GainOf(s) = 0 <=> s = {})
    OBVIOUS
  <2>1. CASE s = {}
    BY <2>1, GainAdds
  <2>2. CASE s # {}
    <3>1. PICK x \in s : TRUE
      BY <2>2
    <3> DEFINE t == s \ {x}
    <3>2. s \in SUBSET DOMAIN Gain /\ t \in SUBSET DOMAIN Gain
      OBVIOUS
    <3>3. GainOf(s) = Gain[x] + GainOf(t) /\ Gain[x] \in Int /\ Gain[x] > 0 /\ GainOf(t) \in Int
      BY <3>2, GainAdds
    <3>4. GainOf(t) >= 0
      OBVIOUS
    <3> HIDE DEF t, Good
    <3> QED BY <2>2, <3>3, <3>4
  <2> QED BY <2>1, <2>2
<1> HIDE DEF Good
<1>2. IsFiniteSet(P)
  BY GainAdds
<1>3. P \in Good
  BY <1>1, <1>2, SubsetInduction
<1> QED BY <1>3 DEF Good

\* The first ranks gain more than as many others ...
LEMMA FirstGainMost ==
  ASSUME NEW P \in SUBSET DOMAIN Gain
  PROVE  LET a == Cardinality(P) IN
         /\ a \in Nat /\ (1..a) \in SUBSET DOMAIN Gain
         /\ GainOf(P) <= GainOf(1..a)
         /\ GainOf(P) = GainOf(1..a) <=> P = 1..a
<1> DEFINE Good == {s \in SUBSET P :
             LET a == Cardinality(s) IN
             /\ a \in Nat /\ (1..a) \in SUBSET DOMAIN Gain
             /\ GainOf(s) <= GainOf(1..a)
             /\ GainOf(s) = GainOf(1..a) <=> s = 1..a}
<1>0. /\ DOMAIN Gain = 1..Len(Gain) /\ Len(Gain) \in Nat
  BY GainAssumption
<1>1. \A s \in SUBSET P : (\A t \in SUBSET s : t # s => t \in Good) => s \in Good
  <2> SUFFICES ASSUME NEW s \in SUBSET P, \A t \in SUBSET s : t # s => t \in Good
               PROVE  s \in Good
    OBVIOUS
  <2>1. CASE s = {}
    <3>1. Cardinality(s) = 0 /\ 1..0 = {}
      BY <2>1, FS_EmptySet
    <3> QED BY <2>1, <3>1, GainAdds
  <2>2. CASE s # {}
    <3> DEFINE p == Max(s)
               t == s \ {p}
               a == Cardinality(s)
               b == Cardinality(t)
    <3>1. s \in SUBSET DOMAIN Gain /\ IsFiniteSet(s) /\ s \in SUBSET Nat /\ a \in Nat
      BY GainAdds
    <3>2. p \in s /\ \A x \in s : x <= p
      BY <2>2, <3>1, MaxIsGreatest
    <3>3. a = b + 1 /\ b \in Nat
      <4>1. b = a - 1
        BY <3>1, <3>2, FS_RemoveElement
      <4>2. a # 0
        BY <2>2, <3>1, EmptyCounts
      <4> HIDE DEF a, b
      <4> QED BY <3>1, <4>1, <4>2
    <3>4. t \in Good
      BY <3>2
    <3>5. GainOf(s) = Gain[p] + GainOf(t) /\ GainOf(t) \in Int /\ Gain[p] \in Int
      BY <3>1, <3>2, GainAdds
    <3>6. (1..b) \in SUBSET DOMAIN Gain /\ GainOf(t) <= GainOf(1..b)
      BY <3>4
    <3> HIDE DEF p, t, Good
    <3>7. s \subseteq 1..p /\ p \in Nat /\ p \in DOMAIN Gain
      BY <1>0, <3>1, <3>2
    <3>8. IsFiniteSet(1..p) /\ Cardinality(1..p) = p
      BY <3>7, FS_Interval
    <3>9. a <= p /\ (a = p => s = 1..p)
      <4> DEFINE all == 1..p
      <4>1. s \in SUBSET all /\ IsFiniteSet(all) /\ Cardinality(all) = p
        BY <3>7, <3>8
      <4> HIDE DEF all
      <4>2. a <= p /\ (a = p => s = all)
        BY <4>1, FS_Subset
      <4> QED BY <4>2 DEF all
    <3> HIDE DEF a, b
    <3>10. /\ (1..a) \in SUBSET DOMAIN Gain /\ a \in 1..a
           /\ (1..a) \ {a} = 1..b
      BY <1>0, <3>1, <3>3, <3>7, <3>9
    <3>11. GainOf(1..a) = Gain[a] + GainOf(1..b) /\ Gain[a] \in Int /\ GainOf(1..b) \in Int
      <4> DEFINE I == 1..a
                 J == 1..b
      <4>1. I \in SUBSET DOMAIN Gain /\ a \in I /\ I \ {a} = J /\ J \in SUBSET DOMAIN Gain
        BY <3>6, <3>10
      <4> HIDE DEF I, J
      <4>2. GainOf(I) = Gain[a] + GainOf(J) /\ Gain[a] \in Int /\ GainOf(J) \in Int
        BY <4>1, GainAdds
      <4> QED BY <4>2 DEF I, J
    <3>12. a < p => Gain[a] > Gain[p]
      <4>1. a \in DOMAIN Gain /\ p \in DOMAIN Gain
        BY <3>7, <3>10
      <4> QED BY <4>1, GainAssumption
    <3>13. CASE a = p
      <4>1. s = 1..a
        BY <3>9, <3>13
      <4>2. GainOf(s) = GainOf(1..a)
        BY <4>1
      <4>3. GainOf(s) \in Int
        BY <3>5
      <4> QED BY <3>1, <3>10, <4>1, <4>2, <4>3 DEF Good, a
    <3>14. CASE a < p
      <4> DEFINE gs == GainOf(s)
                 ga == GainOf(1..a)
                 gt == GainOf(t)
                 gb == GainOf(1..b)
                 x == Gain[p]
                 y == Gain[a]
      <4>1. /\ gs = x + gt /\ ga = y + gb /\ y > x /\ gt <= gb
            /\ gt \in Int /\ gb \in Int /\ x \in Int /\ y \in Int
        BY <3>5, <3>6, <3>11, <3>12, <3>14
      <4>2. s # 1..a
        BY <3>1, <3>2, <3>7, <3>14
      <4> HIDE DEF gs, ga, gt, gb, x, y
      <4>3. gs < ga /\ gs <= ga /\ gs # ga
        BY <4>1
      <4> QED BY <3>1, <3>10, <4>2, <4>3 DEF Good, a, gs, ga
    <3> QED BY <3>1, <3>7, <3>9, <3>13, <3>14
  <2> QED BY <2>1, <2>2
<1> HIDE DEF Good
<1>2. IsFiniteSet(P)
  BY GainAdds
<1>3. P \in Good
  BY <1>1, <1>2, SubsetInduction
<1> QED BY <1>3, Zenon DEF Good

\* ... and the first m more than fewer of them.
LEMMA MoreGainMore ==
  ASSUME NEW a \in Nat, NEW m \in Nat, a < m, (1..m) \in SUBSET DOMAIN Gain
  PROVE  GainOf(1..a) < GainOf(1..m)
<1> DEFINE G(i) == GainOf(1..i)
           S == {d \in Nat : a + d + 1 <= m => G(a) < G(a + d + 1)}
<1>1. ASSUME NEW i \in Nat, i + 1 <= m PROVE G(i) < G(i + 1) /\ G(i) \in Int /\ G(i + 1) \in Int
  <2> DEFINE I == 1..(i + 1)
             J == 1..i
  <2>1. I \in SUBSET DOMAIN Gain /\ (i + 1) \in I /\ I \ {i + 1} = J /\ J \in SUBSET DOMAIN Gain
    BY <1>1
  <2> HIDE DEF I, J
  <2>2. /\ GainOf(I) = Gain[i + 1] + GainOf(J)
        /\ Gain[i + 1] \in Int /\ Gain[i + 1] > 0 /\ GainOf(J) \in Int
    BY <2>1, GainAdds
  <2>3. GainOf(J) < GainOf(I) /\ GainOf(J) \in Int /\ GainOf(I) \in Int
    BY <2>2
  <2> QED BY <2>3 DEF I, J
<1> HIDE DEF G
<1>2. 0 \in S
  BY <1>1
<1>3. ASSUME NEW d \in Nat, d \in S PROVE d + 1 \in S
  <2> SUFFICES ASSUME a + (d + 1) + 1 <= m PROVE G(a) < G(a + (d + 1) + 1)
    OBVIOUS
  <2>1. G(a) < G(a + d + 1)
    BY <1>3
  <2> DEFINE i == a + d + 1
  <2>2. i \in Nat /\ i + 1 <= m /\ a + (d + 1) + 1 = i + 1 /\ a + 1 <= m
    OBVIOUS
  <2> HIDE DEF S, i
  <2>3. G(i) < G(i + 1) /\ G(i) \in Int /\ G(i + 1) \in Int /\ G(a) \in Int
    BY <1>1, <2>2
  <2> QED BY <2>1, <2>2, <2>3 DEF i
<1> HIDE DEF S
<1>4. Nat \subseteq S
  BY <1>2, <1>3, NatSetInduction
<1>5. m - a - 1 \in Nat /\ a + (m - a - 1) + 1 = m
  OBVIOUS
<1>6. m - a - 1 \in S
  BY <1>4, <1>5
<1> QED BY <1>5, <1>6 DEF S, G

LEMMA IdealGainIsMost ==
  ASSUME NEW P \in SUBSET DOMAIN Gain, NEW m \in Nat, (1..m) \in SUBSET DOMAIN Gain,
         Cardinality(P) <= m
  PROVE  /\ GainOf(P) <= GainOf(1..m)
         /\ GainOf(P) = GainOf(1..m) <=> (1..m) \subseteq P
<1> DEFINE a == Cardinality(P)
           first == 1..a
           most == 1..m
           gp == GainOf(P)
           ga == GainOf(first)
           gm == GainOf(most)
<1>1. a \in Nat /\ first \in SUBSET DOMAIN Gain /\ gp <= ga /\ (gp = ga <=> P = first)
  BY FirstGainMost
<1>2. IsFiniteSet(P) /\ gp \in Int /\ ga \in Int /\ gm \in Int
  BY <1>1, GainAdds
<1>3. a < m => ga < gm
  BY <1>1, MoreGainMore
<1>4. most \subseteq P => most = P
  <2>1. IsFiniteSet(most) /\ Cardinality(most) = m
    BY FS_Interval
  <2> HIDE DEF most
  <2>2. most \subseteq P => Cardinality(most) <= a /\ (a = m => most = P)
    BY <1>2, <2>1, FS_Subset
  <2> QED BY <1>1, <2>1, <2>2
<1>5. a = m => first = most
  OBVIOUS
<1>6. first = most => a = m
  BY <1>1
<1>7. a <= m
  OBVIOUS
<1> HIDE DEF a, gp, ga, gm, first, most
<1>8. gp <= gm /\ (gp = gm <=> most \subseteq P)
  <2>1. CASE a < m
    <3>1. gp < gm
      BY <1>1, <1>2, <1>3, <2>1
    <3>2. most \subseteq P => gp = gm
      BY <1>4 DEF gp, gm
    <3> QED BY <1>2, <3>1, <3>2
  <2>2. CASE a = m
    <3>1. first = most /\ ga = gm
      BY <1>5, <2>2 DEF ga, gm
    <3> QED BY <1>1, <1>2, <1>4, <3>1
  <2> QED BY <1>1, <1>7, <2>1, <2>2
<1> QED BY <1>8 DEF gp, gm, most

\* The ranks of the expected chunks, where k results were asked for and n found.
LEMMA HitsAreRecalled ==
  ASSUME NEW r, NEW k \in Nat, NEW n \in Nat, n <= k, DOMAIN r = 1..n, Len(r) = n,
         NEW S, Maps(r, 1..n, S), OneToOne(r, 1..n), NEW expected, IsFiniteSet(expected)
  PROVE  LET hits == Positions(r, expected, k) IN
         /\ hits \in SUBSET (1..n) /\ IsFiniteSet(hits)
         /\ Cardinality(hits) \in Nat /\ Cardinality(hits) <= Cardinality(expected)
         /\ Cardinality(expected) \in Nat
         /\ Cardinality(hits) <= k
         /\ Recall(r, expected, k) = IF expected = {} \/ k <= 0 THEN <<0, 1>>
                                     ELSE <<Cardinality(hits), Cardinality(expected)>>
<1> DEFINE hits == Positions(r, expected, k)
           f == [i \in hits |-> r[i]]
           found == expected \cap ToSet(SubSeq(r, 1, Min({k, n})))
<1>1. hits = {i \in 1..n : r[i] \in expected}
  BY DEF Positions
<1>2. IsFiniteSet(1..n) /\ Cardinality(1..n) = n
  BY FS_Interval
<1>3. /\ hits \in SUBSET (1..n) /\ IsFiniteSet(hits)
      /\ Cardinality(hits) <= n /\ Cardinality(hits) \in Nat
  <2> DEFINE all == 1..n
  <2>1. hits \in SUBSET all /\ IsFiniteSet(all) /\ Cardinality(all) = n
    BY <1>1, <1>2
  <2> HIDE DEF all, hits
  <2>2. IsFiniteSet(hits) /\ Cardinality(hits) <= n
    BY <2>1, FS_Subset
  <2> QED BY <2>1, <2>2, FS_CardinalityType DEF all
<1>4. Min({k, n}) = n
  <2>1. Min({k, n}) \in {k, n} /\ Min({k, n}) <= n /\ Min({k, n}) <= k
    BY MinIsLeast
  <2> QED BY <2>1
<1>5. found = {x \in expected : \E i \in 1..n : r[i] = x}
  <2>1. SubSeq(r, 1, n) = [i \in 1..n |-> r[i]] /\ DOMAIN SubSeq(r, 1, n) = 1..n
    <3>1. r \in [1..n -> S]
      BY DEF Maps
    <3> QED BY <3>1
  <2> DEFINE q == SubSeq(r, 1, n)
             all == 1..n
  <2>2. DOMAIN q = all /\ \A i \in all : q[i] = r[i]
    BY <2>1
  <2>3. found = expected \cap {q[i] : i \in DOMAIN q}
    BY <1>4 DEF ToSet
  <2> HIDE DEF q, all, found
  <2>4. found = {x \in expected : \E i \in all : r[i] = x}
    BY <2>2, <2>3
  <2> QED BY <2>4 DEF all
<1>6. Maps(f, hits, found) /\ OneToOne(f, hits) /\ \A x \in found : \E i \in hits : f[i] = x
  BY <1>1, <1>5 DEF Maps, OneToOne
<1> HIDE DEF hits, f, found
<1>7. Cardinality(found) = Cardinality(hits)
  BY <1>3, <1>6, ImageCounts
<1>8. /\ Cardinality(found) <= Cardinality(expected) /\ Cardinality(expected) \in Nat
  BY <1>5, FS_Subset, FS_CardinalityType
<1>9. Recall(r, expected, k) = IF expected = {} \/ k <= 0 THEN <<0, 1>>
                               ELSE <<Cardinality(hits), Cardinality(expected)>>
  BY <1>7 DEF Recall, found
<1> QED BY <1>2, <1>3, <1>7, <1>8, <1>9 DEF hits

LEMMA MetricsTell ==
  ASSUME NEW r, NEW k \in Nat, NEW n \in Nat, n <= k, DOMAIN r = 1..n, Len(r) = n,
         NEW S, Maps(r, 1..n, S), OneToOne(r, 1..n), NEW expected, IsFiniteSet(expected),
         k <= Len(Gain)
  PROVE  MetricsAgree(r, expected, k)
<1> DEFINE hits == Positions(r, expected, k)
           c == Cardinality(expected)
           h == Cardinality(hits)
           m == Min({k, c})
           ideal == 1..m
           recall == Recall(r, expected, k)
           mrr == ReciprocalRank(r, expected, k)
           ndcg == Ndcg(r, expected, k)
<1>1. /\ hits \in SUBSET (1..n) /\ IsFiniteSet(hits)
      /\ h \in Nat /\ h <= c /\ c \in Nat /\ h <= k
      /\ recall = IF expected = {} \/ k <= 0 THEN <<0, 1>> ELSE <<h, c>>
  BY HitsAreRecalled
<1>2. m \in {k, c} /\ m <= k /\ m <= c
  BY <1>1, MinIsLeast
<1>3. m = Min({c, k})
  <2>1. {c, k} = {k, c}
    OBVIOUS
  <2> QED BY <2>1, Zenon
<1>4. ndcg = IF expected = {} \/ k <= 0 THEN <<0, 1>> ELSE <<GainOf(hits), GainOf(ideal)>>
  BY <1>3 DEF Ndcg, IdealGain
<1>5. mrr = IF hits = {} THEN <<0, 1>> ELSE <<1, Min(hits)>>
  BY DEF ReciprocalRank
<1>6. (expected = {} \/ k <= 0) => hits = {} /\ ideal = {}
  <2>1. expected = {} => c = 0
    BY FS_EmptySet
  <2>2. expected = {} \/ k <= 0 => m <= 0
    BY <1>1, <1>2, <2>1
  <2>3. expected = {} \/ k <= 0 => hits = {}
    BY <1>1 DEF Positions
  <2> HIDE DEF hits, m, c
  <2>4. m \in Int
    BY <1>1, <1>2
  <2> QED BY <2>2, <2>3, <2>4
<1>7. h = 0 <=> hits = {}
  BY <1>1, EmptyCounts
<1>8. /\ hits \in SUBSET DOMAIN Gain /\ ideal \in SUBSET DOMAIN Gain
  <2>1. DOMAIN Gain = 1..Len(Gain) /\ Len(Gain) \in Nat
    BY GainAssumption
  <2> HIDE DEF hits, m, c
  <2> QED BY <1>1, <1>2, <2>1
<1>9. GainOf(hits) = 0 <=> hits = {}
  BY <1>8, GainIsPositive
<1>10. /\ GainOf(hits) <= GainOf(ideal)
       /\ GainOf(hits) = GainOf(ideal) <=> ideal \subseteq hits
  <2>1. h <= m /\ m \in Nat
    BY <1>1, <1>2
  <2> HIDE DEF hits, m
  <2> QED BY <1>8, <2>1, IdealGainIsMost
<1>11. MetricsAgree(r, expected, k) <=>
         /\ (recall[1] = 0) = (mrr[1] = 0) /\ (mrr[1] = 0) = (ndcg[1] = 0)
         /\ recall[1] <= recall[2] /\ ndcg[1] <= ndcg[2]
         /\ ideal # {} => (ndcg[1] = ndcg[2] <=> ideal \subseteq hits)
  BY Zenon DEF MetricsAgree
<1> DEFINE gh == GainOf(hits)
           gi == GainOf(ideal)
<1> HIDE DEF hits, c, h, m, ideal, recall, mrr, ndcg, gh, gi
<1>12. CASE expected = {} \/ k <= 0
  <2>1. recall = <<0, 1>> /\ ndcg = <<0, 1>> /\ mrr = <<0, 1>> /\ ideal = {}
    BY <1>1, <1>4, <1>5, <1>6, <1>12
  <2>2. recall[1] = 0 /\ recall[2] = 1 /\ ndcg[1] = 0 /\ ndcg[2] = 1 /\ mrr[1] = 0
    BY <2>1
  <2> QED BY <1>11, <2>1, <2>2
<1>13. CASE ~(expected = {} \/ k <= 0)
  <2>1. recall = <<h, c>> /\ ndcg = <<gh, gi>>
    BY <1>1, <1>4, <1>13 DEF gh, gi
  <2>2. recall[1] = h /\ recall[2] = c /\ ndcg[1] = gh /\ ndcg[2] = gi
    BY <2>1
  <2>3. mrr[1] = 0 <=> hits = {}
    BY <1>5
  <2>4. gh = 0 <=> hits = {}
    BY <1>9 DEF gh
  <2>5. gh <= gi /\ (gh = gi <=> ideal \subseteq hits)
    BY <1>10 DEF gh, gi
  <2>6. (recall[1] = 0) = (mrr[1] = 0) /\ (mrr[1] = 0) = (ndcg[1] = 0)
    BY <1>7, <2>2, <2>3, <2>4
  <2> QED BY <1>1, <1>11, <2>2, <2>5, <2>6
<1> QED BY <1>12, <1>13

\* A case's recall, reciprocal rank and NDCG are zero together, none exceeds one, and
\* NDCG is one exactly for the ideal ranking, whatever gain falls with the rank.
THEOREM MetricsTellTruth == Spec => []MetricsTellOneStory
<1>1. InputShape => MetricsTellOneStory
  <2> DEFINE d == input.data
  <2> SUFFICES ASSUME InputShape, input.of = "ranking",
                      NEW visible \in SUBSET DOMAIN d, NEW expected \in SUBSET Chunks,
                      NEW k \in Cutoffs
               PROVE  MetricsAgree(Retrieve(d, visible, k), expected, k)
    BY DEF MetricsTellOneStory
  <2>1. d \in Seq(Distances)
    BY DEF InputShape
  <2> HIDE DEF d
  <2>2. k \in Nat /\ k <= Len(Gain)
    <3>1. Len(Gain) \in Nat
      BY GainAssumption
    <3> QED BY <3>1, RankingAssumption
  <2>3. IsFiniteSet(expected)
    BY RankingAssumption, FS_Subset
  <2>4. IsFiniteSet(visible) /\ Keyed(visible, d)
    BY <2>1, RankingIsKeyed
  <2> DEFINE r == Retrieve(d, visible, k)
             n == Min({k, Cardinality(visible)})
  <2>5. /\ n \in Nat /\ n <= k /\ DOMAIN r = 1..n /\ Len(r) = n
        /\ Maps(r, 1..n, visible) /\ OneToOne(r, 1..n)
    BY <2>2, <2>4, RetrievedInOrder
  <2> HIDE DEF r, n
  <2>6. MetricsAgree(r, expected, k)
    BY <2>2, <2>3, <2>5, MetricsTell
  <2> QED BY <2>6 DEF r
<1> QED BY <1>1, Shape, PTL

-----------------------------------------------------------------------------
(* Summaries.                                                              *)

\* Those of D of kind t.
OfKind(D, kind, t) == {i \in D : kind[i] = t}

\* What is counted by kind is all there is.
LEMMA CountsAddUp ==
  ASSUME NEW D, IsFiniteSet(D), NEW T, IsFiniteSet(T), NEW kind, Maps(kind, D, T),
         NEW count, \A t \in T : count[t] = Cardinality(OfKind(D, kind, t))
  PROVE  SumFunctionOnSet(count, T) = Cardinality(D)
<1> USE DEF OfKind
<1> DEFINE Of(s) == {i \in D : kind[i] \in s}
           S(s) == SumFunctionOnSet(count, s)
           Good == {s \in SUBSET T : S(s) = Cardinality(Of(s))}
<1>1. ASSUME NEW s PROVE IsFiniteSet(Of(s)) /\ Cardinality(Of(s)) \in Nat
  <2>1. Of(s) \in SUBSET D
    OBVIOUS
  <2> HIDE DEF Of
  <2> QED BY <2>1, FS_Subset, FS_CardinalityType
<1>2. \A s \in SUBSET T : (\A t \in SUBSET s : t # s => t \in Good) => s \in Good
  <2> SUFFICES ASSUME NEW s \in SUBSET T, \A t \in SUBSET s : t # s => t \in Good
               PROVE  S(s) = Cardinality(Of(s))
    OBVIOUS
  <2>1. CASE s = {}
    <3>1. Of(s) = {}
      BY <2>1
    <3>2. Cardinality(Of(s)) = 0
      BY <3>1, FS_EmptySet
    <3> QED BY <2>1, <3>2, SumOfNone
  <2>2. CASE s # {}
    <3>1. PICK x \in s : TRUE
      BY <2>2
    <3> DEFINE t == s \ {x}
               one == {i \in D : kind[i] = x}
    <3>2. S(t) = Cardinality(Of(t))
      OBVIOUS
    <3>3. IsFiniteSet(s) /\ \A y \in s : count[y] \in Int
      <4>1. ASSUME NEW y \in T PROVE count[y] \in Int
        <5> DEFINE of == {i \in D : kind[i] = y}
        <5>1. IsFiniteSet(of) /\ count[y] = Cardinality(of)
          BY FS_Subset
        <5> HIDE DEF of
        <5> QED BY <5>1, FS_CardinalityType
      <4> QED BY <4>1, FS_Subset
    <3>4. S(s) = count[x] + S(t)
      BY <3>3, SumAdds
    <3>5. count[x] = Cardinality(one)
      OBVIOUS
    <3>6. Of(s) = one \cup Of(t) /\ one \cap Of(t) = {}
      OBVIOUS
    <3>7. IsFiniteSet(one) /\ Cardinality(one) \in Nat
      BY FS_Subset, FS_CardinalityType
    <3>8. IsFiniteSet(Of(t)) /\ Cardinality(Of(t)) \in Nat
      BY <1>1
    <3> HIDE DEF one, Of, S, t
    <3>9. Cardinality(one \cup Of(t)) = Cardinality(one) + Cardinality(Of(t))
      <4>1. Cardinality(one \cup Of(t)) =
              Cardinality(one) + Cardinality(Of(t)) - Cardinality(one \cap Of(t))
        BY <3>7, <3>8, FS_Union
      <4>2. Cardinality(one \cap Of(t)) = 0
        BY <3>6, FS_EmptySet
      <4> QED BY <3>7, <3>8, <4>1, <4>2
    <3> QED BY <3>2, <3>4, <3>5, <3>6, <3>9
  <2> QED BY <2>1, <2>2
<1> HIDE DEF Good
<1>3. T \in Good
  BY <1>2, SubsetInduction
<1>4. Of(T) = D
  BY DEF Maps
<1> QED BY <1>3, <1>4 DEF Good

LEMMA TimesGrows ==
  ASSUME NEW w \in Nat, NEW a \in Nat, NEW b \in Nat, a <= b
  PROVE  a * w <= b * w
<1> DEFINE S == {n \in Nat : a * n <= b * n}
<1>1. 0 \in S
  OBVIOUS
<1>2. ASSUME NEW n \in Nat, n \in S PROVE n + 1 \in S
  <2>1. a * (n + 1) = a * n + a /\ b * (n + 1) = b * n + b
    OBVIOUS
  <2>2. a * n \in Nat /\ b * n \in Nat
    OBVIOUS
  <2> DEFINE x == a * n
             y == b * n
  <2>3. x <= y
    BY <1>2
  <2> HIDE DEF x, y
  <2>4. x + a <= y + b
    BY <2>2, <2>3 DEF x, y
  <2> QED BY <2>1, <2>4 DEF x, y
<1> HIDE DEF S
<1>3. Nat \subseteq S
  BY <1>1, <1>2, NatSetInduction
<1> QED BY <1>3 DEF S

\* A weighted sum lies between what the least and what the greatest value would give.
LEMMA MeanIsBetween ==
  ASSUME NEW D, IsFiniteSet(D), NEW v, NEW w, NEW lo \in Nat, NEW hi \in Nat,
         \A i \in D : v[i] \in Nat /\ w[i] \in Nat,
         \A i \in D : w[i] > 0 => lo <= v[i] /\ v[i] <= hi,
         NEW vw, \A i \in D : vw[i] = v[i] * w[i]
  PROVE  /\ SumFunctionOnSet(w, D) \in Nat
         /\ lo * SumFunctionOnSet(w, D) <= SumFunctionOnSet(vw, D)
         /\ SumFunctionOnSet(vw, D) <= hi * SumFunctionOnSet(w, D)
<1> DEFINE W(s) == SumFunctionOnSet(w, s)
           V(s) == SumFunctionOnSet(vw, s)
           Good == {s \in SUBSET D : /\ W(s) \in Nat /\ V(s) \in Nat
                                     /\ lo * W(s) <= V(s) /\ V(s) <= hi * W(s)}
<1>1. ASSUME NEW i \in D
      PROVE  vw[i] \in Nat /\ w[i] \in Nat /\ lo * w[i] <= vw[i] /\ vw[i] <= hi * w[i]
  <2>1. w[i] \in Nat /\ v[i] \in Nat /\ vw[i] = v[i] * w[i]
    OBVIOUS
  <2>2. CASE w[i] = 0
    BY <2>1, <2>2
  <2>3. CASE w[i] # 0
    <3>1. lo <= v[i] /\ v[i] <= hi
      BY <2>1, <2>3
    <3>2. lo * w[i] <= v[i] * w[i] /\ v[i] * w[i] <= hi * w[i]
      BY <2>1, <3>1, TimesGrows
    <3>3. v[i] * w[i] \in Nat
      BY <2>1
    <3> QED BY <2>1, <3>2, <3>3
  <2> QED BY <2>2, <2>3
<1>2. \A s \in SUBSET D : (\A t \in SUBSET s : t # s => t \in Good) => s \in Good
  <2> SUFFICES ASSUME NEW s \in SUBSET D, \A t \in SUBSET s : t # s => t \in Good
               PROVE  s \in Good
    OBVIOUS
  <2>1. CASE s = {}
    <3>1. W(s) = 0 /\ V(s) = 0
      BY <2>1, SumOfNone
    <3> HIDE DEF W, V
    <3> QED BY <3>1
  <2>2. CASE s # {}
    <3>1. PICK x \in s : TRUE
      BY <2>2
    <3> DEFINE t == s \ {x}
               wt == W(t)
               vt == V(t)
               wx == w[x]
               vx == vw[x]
    <3>2. wt \in Nat /\ vt \in Nat /\ lo * wt <= vt /\ vt <= hi * wt
      OBVIOUS
    <3>3. IsFiniteSet(s) /\ \A i \in s : w[i] \in Int /\ vw[i] \in Int
      BY <1>1, FS_Subset
    <3>4. W(s) = wx + wt /\ V(s) = vx + vt
      BY <3>3, SumAdds
    <3>5. wx \in Nat /\ vx \in Nat /\ lo * wx <= vx /\ vx <= hi * wx
      BY <1>1
    <3> HIDE DEF wt, vt, wx, vx, W, V
    <3>6. lo * (wx + wt) = lo * wx + lo * wt /\ hi * (wx + wt) = hi * wx + hi * wt
      BY <3>2, <3>5
    <3>7. /\ lo * wx \in Nat /\ lo * wt \in Nat /\ hi * wx \in Nat /\ hi * wt \in Nat
      BY <3>2, <3>5
    <3> DEFINE a == lo * wx
               b == lo * wt
               c == hi * wx
               d == hi * wt
    <3>8. /\ a \in Nat /\ b \in Nat /\ c \in Nat /\ d \in Nat
          /\ a <= vx /\ b <= vt /\ vx <= c /\ vt <= d
      BY <3>2, <3>5, <3>7
    <3> HIDE DEF a, b, c, d
    <3>9. a + b <= vx + vt /\ vx + vt <= c + d /\ wx + wt \in Nat /\ vx + vt \in Nat
      BY <3>2, <3>5, <3>8
    <3>10. lo * (wx + wt) <= vx + vt /\ vx + vt <= hi * (wx + wt)
      BY <3>6, <3>9 DEF a, b, c, d
    <3> QED BY <3>4, <3>9, <3>10
  <2> QED BY <2>1, <2>2
<1> HIDE DEF Good
<1>3. D \in Good
  BY <1>2, SubsetInduction
<1> QED BY <1>3 DEF Good

\* The rank of a percentile is the least that is not below its share.
RankOf(p, n) == Min({n, Max({1, (p * n * 10000 + 999999) \div 1000000})})

LEMMA NearestRank ==
  ASSUME NEW n \in Nat, n > 0, NEW p \in {50, 95}
  PROVE  LET rank == RankOf(p, n) IN
         /\ rank \in 1..n /\ 100 * rank >= p * n /\ 100 * (rank - 1) < p * n
<1> DEFINE q == (p * n * 10000 + 999999) \div 1000000
           x == p * n
<1>1. x \in Nat /\ x > 0 /\ x <= 95 * n
  BY SMT
<1>2. q = (x * 10000 + 999999) \div 1000000
  OBVIOUS
<1> HIDE DEF x
<1>3. q \in Nat /\ 100 * q >= x /\ 100 * (q - 1) < x /\ q >= 1
  BY <1>1, <1>2
<1> HIDE DEF q
<1>4. q <= n
  BY <1>1, <1>3
<1>5. Max({1, q}) = q
  <2>1. IsFiniteSet({1, q})
    <3>1. IsFiniteSet({1})
      BY FS_Singleton
    <3>2. IsFiniteSet({1} \cup {q})
      BY <3>1, FS_AddElement
    <3>3. {1} \cup {q} = {1, q}
      OBVIOUS
    <3> QED BY <3>2, <3>3
  <2>2. Max({1, q}) \in {1, q} /\ 1 <= Max({1, q}) /\ q <= Max({1, q})
    BY <1>3, <2>1, MaxIsGreatest
  <2> QED BY <1>3, <2>2
<1>6. Min({n, q}) = q
  <2>1. Min({n, q}) \in {n, q} /\ Min({n, q}) <= n /\ Min({n, q}) <= q
    BY <1>3, MinIsLeast
  <2> QED BY <1>3, <1>4, <2>1
<1>7. RankOf(p, n) = q
  BY <1>5, <1>6 DEF q, RankOf
<1>8. q \in 1..n /\ 100 * q >= p * n /\ 100 * (q - 1) < p * n
  BY <1>1, <1>3, <1>4 DEF x
<1> QED BY <1>7, <1>8

\* Those of D whose latency is at most m.
Upto(D, lat, m) == {i \in D : lat[i] <= m}

\* The latency at a rank is that of at least so many cases, and a lower one of fewer.
LEMMA RankIsShare ==
  ASSUME NEW D, IsFiniteSet(D), NEW lat, Keyed(D, lat), NEW rank \in 1..Cardinality(D)
  PROVE  LET l == lat[Ranked(D, lat)[rank]]
             most == Cardinality(Upto(D, lat, l))
             fewer == Cardinality(Upto(D, lat, l - 1)) IN
         /\ l \in Int
         /\ most \in Nat /\ most >= rank
         /\ fewer \in Nat /\ fewer <= rank - 1
<1> DEFINE n == Cardinality(D)
           r == Ranked(D, lat)
           l == lat[r[rank]]
           In(m) == Upto(D, lat, m)
<1> USE DEF Upto
<1>1. /\ n \in Nat /\ r \in [1..n -> D] /\ OneToOne(r, 1..n)
      /\ \A x \in D : \E i \in 1..n : r[i] = x
      /\ \A i, j \in 1..n : i < j => r[i] \in Before(r[j], D, lat)
  BY RankedIsOrder
<1> HIDE DEF r, n
<1>2. \A i \in 1..n : r[i] \in D /\ lat[r[i]] \in Int
  BY <1>1 DEF Keyed
<1>3. rank \in 1..n /\ l \in Int
  BY <1>2 DEF n
<1>4. \A i, j \in 1..n : i < j => lat[r[i]] <= lat[r[j]]
  BY <1>1, <1>2 DEF Before
<1>5. ASSUME NEW m PROVE IsFiniteSet(In(m)) /\ Cardinality(In(m)) \in Nat
  <2>1. In(m) \in SUBSET D
    OBVIOUS
  <2> HIDE DEF In
  <2> QED BY <2>1, FS_Subset, FS_CardinalityType
<1>6. rank <= Cardinality(In(l))
  <2> DEFINE first == 1..rank
             f == [i \in first |-> r[i]]
             T == In(l)
  <2>1. first \subseteq 1..n
    BY <1>1, <1>3
  <2>2. \A i \in first : r[i] \in D /\ lat[r[i]] <= l
    BY <1>1, <1>2, <1>3, <1>4, <2>1
  <2>3. Maps(f, first, T) /\ OneToOne(f, first)
    BY <1>1, <2>1, <2>2 DEF Maps, OneToOne
  <2>4. IsFiniteSet(first) /\ Cardinality(first) = rank
    BY FS_Interval
  <2>5. IsFiniteSet(T)
    BY <1>5
  <2> HIDE DEF first, f, T
  <2>6. Cardinality(first) <= Cardinality(T)
    BY <2>3, <2>4, <2>5, InjectionCounts
  <2> QED BY <2>4, <2>6 DEF T
<1>7. Cardinality(In(l - 1)) <= rank - 1
  <2> DEFINE first == 1..(rank - 1)
             T == In(l - 1)
             f == [x \in T |-> CHOOSE i \in 1..n : r[i] = x]
  <2>1. ASSUME NEW x \in T PROVE f[x] \in first /\ r[f[x]] = x
    <3>1. x \in D /\ lat[x] <= l - 1
      OBVIOUS
    <3>2. f[x] \in 1..n /\ r[f[x]] = x
      BY <1>1, <3>1
    <3> HIDE DEF f
    <3>3. f[x] < rank
      <4>1. lat[x] < l /\ lat[x] \in Int
        BY <1>2, <1>3, <3>1, <3>2
      <4>2. f[x] # rank
        BY <3>2, <4>1
      <4>3. ~(rank < f[x])
        BY <1>3, <1>4, <3>2, <4>1
      <4> QED BY <1>1, <1>3, <3>2, <4>2, <4>3
    <3> QED BY <1>3, <3>2, <3>3
  <2>2. f \in [T -> first]
    <3>1. \A x \in T : f[x] \in first
      BY <2>1
    <3> HIDE DEF first, T
    <3> QED BY <3>1
  <2>3. Maps(f, T, first) /\ OneToOne(f, T)
    <3> HIDE DEF f, T, first
    <3> QED BY <2>1, <2>2 DEF Maps, OneToOne
  <2>4. IsFiniteSet(first) /\ Cardinality(first) = rank - 1
    <3>1. 1 \in Int /\ rank - 1 \in Int /\ rank - 1 >= 0
      OBVIOUS
    <3> QED BY <3>1, FS_Interval
  <2>5. IsFiniteSet(T)
    BY <1>5
  <2> HIDE DEF first, f, T
  <2>6. Cardinality(T) <= Cardinality(first)
    BY <2>3, <2>4, <2>5, InjectionCounts
  <2> QED BY <2>4, <2>6 DEF T
<1> QED BY <1>3, <1>5, <1>6, <1>7 DEF r

\* The percentiles of a summary.
LEMMA PercentileIsNearest ==
  ASSUME NEW lat \in Seq(Nat), lat # <<>>, NEW p \in {50, 95}
  PROVE  LET n == Len(lat)
             l == Percentile(lat, p)
             Within(m) == Cardinality(Upto(DOMAIN lat, lat, m)) IN
         100 * Within(l) >= p * n /\ 100 * Within(l - 1) < p * n
<1> DEFINE n == Len(lat)
           rank == RankOf(p, n)
           D == DOMAIN lat
           l == lat[Ranked(D, lat)[rank]]
           In(m) == Upto(D, lat, m)
           most == Cardinality(In(l))
           fewer == Cardinality(In(l - 1))
<1>1. /\ IsFiniteSet(D) /\ Cardinality(D) = n /\ n \in Nat
      /\ D \subseteq Nat /\ \A i \in D : lat[i] \in Nat
  BY SequencePlaces
<1>2. n > 0
  BY <1>1
<1>3. Percentile(lat, p) = l
  BY <1>2 DEF Percentile, RankOf
<1>4. rank \in 1..n /\ 100 * rank >= p * n /\ 100 * (rank - 1) < p * n
  BY <1>1, <1>2, NearestRank
<1>5. Keyed(D, lat)
  BY <1>1 DEF Keyed
<1> HIDE DEF n, rank, D
<1>6. most \in Nat /\ most >= rank /\ fewer \in Nat /\ fewer <= rank - 1
  <2>1. rank \in 1..Cardinality(D)
    BY <1>1, <1>4
  <2> QED BY <1>1, <1>5, <2>1, RankIsShare
<1> HIDE DEF most, fewer
<1>7. 100 * most >= p * n /\ 100 * fewer < p * n
  <2> DEFINE share == p * n
  <2>1. share \in Int
    BY <1>1
  <2>2. 100 * rank >= share /\ 100 * (rank - 1) < share /\ rank \in Int
    BY <1>1, <1>4
  <2> HIDE DEF share
  <2>3. 100 * most >= share /\ 100 * fewer < share
    BY <1>6, <2>1, <2>2
  <2> QED BY <2>3 DEF share
<1> QED BY <1>3, <1>7 DEF n, D, most, fewer

\* The mean of a summary.
LEMMA MeanIsFair ==
  ASSUME NEW n \in Nat, n > 0, NEW v \in [1..n -> Nat], NEW w \in [1..n -> Nat]
  PROVE  LET values == {v[i] : i \in {i \in 1..n : w[i] > 0}}
             mean == WeightedMean(v, w) IN
         /\ values = {} => mean[1] = 0
         /\ values # {} => /\ Min(values) * mean[2] <= mean[1]
                           /\ mean[1] <= Max(values) * mean[2]
<1> DEFINE D == 1..n
           used == {i \in D : w[i] > 0}
           values == {v[i] : i \in used}
           mean == WeightedMean(v, w)
           vw == [i \in DOMAIN v |-> v[i] * w[i]]
           lo == Min(values)
           hi == Max(values)
<1>1. IsFiniteSet(D)
  BY FS_Interval
<1>2. values = {} => mean[1] = 0
  <2> SUFFICES ASSUME values = {} PROVE mean[1] = 0
    OBVIOUS
  <2>1. \A i \in D : i \notin used
    OBVIOUS
  <2>2. \A i \in D : w[i] = 0
    BY <2>1
  <2>3. DOMAIN w = D
    OBVIOUS
  <2>4. mean = <<0, 1>>
    BY <2>2, <2>3 DEF WeightedMean
  <2> HIDE DEF mean
  <2> QED BY <2>4
<1>3. ASSUME values # {}
      PROVE  lo * mean[2] <= mean[1] /\ mean[1] <= hi * mean[2]
  <2>1. DOMAIN v = D /\ DOMAIN w = D /\ DOMAIN vw = D /\ v # <<>>
    OBVIOUS
  <2>2. ~\A i \in DOMAIN w : w[i] = 0
    BY <1>3
  <2>3. mean = <<Total(vw), Total(w)>>
    BY <2>1, <2>2 DEF WeightedMean
  <2>4. mean[1] = SumFunctionOnSet(vw, D) /\ mean[2] = SumFunctionOnSet(w, D)
    BY <2>1, <2>3 DEF Total, SumFunction
  <2>5. values \in SUBSET Nat /\ IsFiniteSet(values)
    <3>1. IsFiniteSet(used)
      BY <1>1, FS_Subset
    <3>2. values = {v[i] : i \in used}
      OBVIOUS
    <3> HIDE DEF used, values
    <3>3. IsFiniteSet(values)
      BY <3>1, <3>2, ImageIsFinite
    <3>4. \A i \in used : v[i] \in Nat
      BY DEF used
    <3> QED BY <3>2, <3>3, <3>4
  <2>6. /\ lo \in values /\ hi \in values /\ \A x \in values : lo <= x /\ x <= hi
    <3> HIDE DEF values
    <3> QED BY <1>3, <2>5, MinIsLeast, MaxIsGreatest
  <2>7. lo \in Nat /\ hi \in Nat
    BY <2>5, <2>6
  <2>8. \A i \in D : w[i] > 0 => lo <= v[i] /\ v[i] <= hi
    BY <2>6
  <2>9. \A i \in D : v[i] \in Nat /\ w[i] \in Nat /\ vw[i] = v[i] * w[i]
    OBVIOUS
  <2> HIDE DEF D, lo, hi, vw, mean
  <2>10. \A i \in D : v[i] \in Nat /\ w[i] \in Nat
    BY <2>9
  <2>11. \A i \in D : vw[i] = v[i] * w[i]
    BY <2>9
  <2>12. /\ lo * SumFunctionOnSet(w, D) <= SumFunctionOnSet(vw, D)
         /\ SumFunctionOnSet(vw, D) <= hi * SumFunctionOnSet(w, D)
    BY <1>1, <2>7, <2>8, <2>10, <2>11, MeanIsBetween
  <2> QED BY <2>4, <2>12
<1> QED BY <1>2, <1>3

LEMMA SummaryIsTrue ==
  ASSUME NEW o \in Seq(Outcomes), o # <<>>, NEW weights \in SourceWeights
  PROVE  SummaryAddsUp(o, weights)
<1> DEFINE n == Len(o)
           D == DOMAIN o
           v == [i \in D |-> o[i].value]
           w == [i \in D |-> SourceWeight(weights, o[i].src)]
           lat == [i \in D |-> o[i].latency]
           kind == [i \in D |-> o[i].label]
           count == [label \in Labels |-> Count(o, label)]
           s == Summary(o, weights)
           failed == {i \in D : o[i].failed}
           mean == WeightedMean(v, w)
<1>1. /\ IsFiniteSet(D) /\ Cardinality(D) = n /\ n \in Nat /\ D = 1..n
      /\ \A i \in D : o[i] \in Outcomes
  BY SequencePlaces
<1>2. n > 0
  BY <1>1
<1>3. ASSUME NEW i \in D
      PROVE  /\ v[i] \in Nat /\ w[i] \in Int /\ lat[i] \in Nat /\ kind[i] \in Labels
             /\ v[i] = o[i].value /\ lat[i] = o[i].latency
             /\ w[i] = SourceWeight(weights, o[i].src)
  <2> DEFINE outcome == o[i]
             weight == SourceWeight(weights, outcome.src)
  <2>1. outcome \in Outcomes
    BY <1>1
  <2> HIDE DEF outcome
  <2>2. outcome.value \in Nat /\ outcome.latency \in Nat /\ outcome.label \in Labels
    BY <2>1, OutcomesAssumption
  <2>3. weight \in Int
    BY OutcomesAssumption DEF SourceWeight
  <2> QED BY <2>2, <2>3 DEF outcome
<1>4. s = [cases |-> n,
           completed |-> Cardinality({i \in D : ~o[i].failed}),
           failed |-> Cardinality(failed),
           mean |-> mean,
           p50 |-> Percentile(lat, 50),
           p95 |-> Percentile(lat, 95),
           labels |-> count]
  BY Zenon DEF Summary
<1>5. /\ s.cases = n /\ s.completed = Cardinality({i \in D : ~o[i].failed})
      /\ s.failed = Cardinality(failed) /\ s.mean = mean
      /\ s.p50 = Percentile(lat, 50) /\ s.p95 = Percentile(lat, 95) /\ s.labels = count
  <2> HIDE DEF s, mean, count, failed, lat, D
  <2> QED BY <1>4
<1> HIDE DEF s
<1>6. SumFunction(s.labels) = s.cases
  <2>1. IsFiniteSet(Labels)
    <3>1. Labels = ((({"not_in_kb"} \cup {"not_recalled"}) \cup {"low_rank"}) \cup {"hit"})
                   \cup {"ambiguous"}
      BY DEF Labels
    <3>2. IsFiniteSet({"not_in_kb"}) /\ \A S, x : IsFiniteSet(S) => IsFiniteSet(S \cup {x})
      BY FS_Singleton, FS_AddElement
    <3> QED BY <3>1, <3>2, Zenon
  <2>2. Maps(kind, D, Labels)
    <3>1. \A i \in D : kind[i] \in Labels
      BY <1>3
    <3>2. kind \in [D -> Labels]
      BY <3>1
    <3> QED BY <3>2 DEF Maps
  <2>3. \A label \in Labels : count[label] = Cardinality(OfKind(D, kind, label))
    <3> SUFFICES ASSUME NEW label \in Labels
                 PROVE  Count(o, label) = Cardinality(OfKind(D, kind, label))
      OBVIOUS
    <3>1. OfKind(D, kind, label) = {i \in D : o[i].label = label}
      BY DEF OfKind
    <3> QED BY <3>1 DEF Count
  <2>4. DOMAIN count = Labels
    OBVIOUS
  <2> HIDE DEF kind, count, D
  <2>5. SumFunctionOnSet(count, Labels) = n
    BY <1>1, <2>1, <2>2, <2>3, CountsAddUp
  <2> QED BY <1>5, <2>4, <2>5 DEF SumFunction
<1>7. s.completed + s.failed = s.cases
  <2>1. {i \in D : ~o[i].failed} = D \ failed
    OBVIOUS
  <2>2. failed \in SUBSET D
    OBVIOUS
  <2> HIDE DEF failed, D
  <2>3. IsFiniteSet(failed) /\ IsFiniteSet(D \ failed) /\ D \cap failed = failed
    BY <1>1, <2>2, FS_Subset
  <2>4. Cardinality(D \ failed) = Cardinality(D) - Cardinality(D \cap failed)
    BY <1>1, <2>3, FS_Difference
  <2>5. Cardinality(failed) \in Nat
    BY <2>3, FS_CardinalityType
  <2>6. Cardinality(D \ failed) = n - Cardinality(failed)
    BY <1>1, <2>3, <2>4
  <2>7. s.completed = Cardinality(D \ failed) /\ s.failed = Cardinality(failed) /\ s.cases = n
    BY <1>5, <2>1
  <2> QED BY <1>1, <2>5, <2>6, <2>7
<1> DEFINE values == {o[i].value : i \in {i \in D : SourceWeight(weights, o[i].src) > 0}}
           Positive == \A i \in D : SourceWeight(weights, o[i].src) >= 0
<1>8. ASSUME Positive
      PROVE  IF values = {} THEN s.mean[1] = 0
             ELSE /\ Min(values) * s.mean[2] <= s.mean[1]
                  /\ s.mean[1] <= Max(values) * s.mean[2]
  <2>1. v \in [1..n -> Nat] /\ w \in [1..n -> Nat]
    <3>1. \A i \in D : v[i] \in Nat /\ w[i] \in Nat
      <4> SUFFICES ASSUME NEW i \in D PROVE v[i] \in Nat /\ w[i] \in Nat
        OBVIOUS
      <4>1. v[i] \in Nat /\ w[i] \in Int /\ w[i] = SourceWeight(weights, o[i].src)
        BY <1>3
      <4>2. SourceWeight(weights, o[i].src) >= 0
        BY <1>8
      <4> HIDE DEF v, w
      <4> QED BY <4>1, <4>2
    <3>2. v \in [D -> Nat] /\ w \in [D -> Nat]
      BY <3>1
    <3> QED BY <1>1, <3>2
  <2>2. values = {v[i] : i \in {i \in 1..n : w[i] > 0}}
    <3>1. \A i \in D : v[i] = o[i].value /\ w[i] = SourceWeight(weights, o[i].src)
      BY <1>3
    <3> HIDE DEF v, w
    <3> QED BY <1>1, <3>1
  <2> HIDE DEF v, w, n, values
  <2>3. /\ values = {} => mean[1] = 0
        /\ values # {} => /\ Min(values) * mean[2] <= mean[1]
                          /\ mean[1] <= Max(values) * mean[2]
    BY <1>1, <1>2, <2>1, <2>2, MeanIsFair
  <2> HIDE DEF mean
  <2> QED BY <1>5, <2>3
<1> DEFINE In(l) == {i \in D : o[i].latency <= l}
           Within(l) == Cardinality(In(l))
           Nearest(p, l) == /\ 100 * Within(l) >= p * s.cases
                            /\ 100 * Within(l - 1) < p * s.cases
<1>9. ASSUME NEW p \in {50, 95} PROVE Nearest(p, Percentile(lat, p))
  <2>1. lat \in Seq(Nat) /\ DOMAIN lat = D /\ Len(lat) = n /\ lat # <<>>
    <3>1. \A i \in D : lat[i] \in Nat
      BY <1>3
    <3>2. lat \in [1..n -> Nat] /\ DOMAIN lat = D
      BY <1>1, <3>1
    <3> HIDE DEF lat
    <3> QED BY <1>1, <1>2, <3>2
  <2>2. \A m : In(m) = Upto(DOMAIN lat, lat, m)
    BY DEF Upto
  <2> HIDE DEF lat, n, D, In
  <2> DEFINE l == Percentile(lat, p)
             Also(m) == Cardinality(Upto(DOMAIN lat, lat, m))
  <2>3. 100 * Also(l) >= p * n /\ 100 * Also(l - 1) < p * n
    <3>1. 100 * Also(l) >= p * Len(lat) /\ 100 * Also(l - 1) < p * Len(lat)
      BY <2>1, PercentileIsNearest
    <3> QED BY <2>1, <3>1
  <2>4. Within(l) = Also(l) /\ Within(l - 1) = Also(l - 1)
    BY <2>2
  <2> HIDE DEF Within, Also, l
  <2> QED BY <1>5, <2>3, <2>4 DEF l
<1>10. SummaryAddsUp(o, weights) <=>
         /\ SumFunction(s.labels) = s.cases
         /\ s.completed + s.failed = s.cases
         /\ Nearest(50, s.p50) /\ Nearest(95, s.p95)
         /\ Positive => IF values = {} THEN s.mean[1] = 0
                        ELSE /\ Min(values) * s.mean[2] <= s.mean[1]
                             /\ s.mean[1] <= Max(values) * s.mean[2]
  BY Zenon DEF SummaryAddsUp, s
<1>11. Nearest(50, s.p50) /\ Nearest(95, s.p95)
  <2>1. Nearest(50, Percentile(lat, 50)) /\ Nearest(95, Percentile(lat, 95))
    BY <1>9
  <2> HIDE DEF Nearest
  <2> QED BY <1>5, <2>1
<1> HIDE DEF values, Nearest, Positive
<1> QED BY <1>6, <1>7, <1>8, <1>10, <1>11

\* The summary of a run of any length and by any weights: its labels and endings count
\* every case once and its percentiles are of the nearest rank; by weights that are not
\* negative, its mean lies between the values that count.
THEOREM SummariesTellTruth == Spec => []SummariesAddUp
<1>1. InputShape => SummariesAddUp
  <2> DEFINE d == input.data
  <2> SUFFICES ASSUME InputShape, input.of = "outcomes", NEW weights \in SourceWeights
               PROVE  SummaryAddsUp(d, weights)
    BY DEF SummariesAddUp
  <2>1. d \in Seq(Outcomes)
    BY DEF InputShape
  <2> HIDE DEF d
  <2>2. d = <<>> => SummaryAddsUp(d, weights)
    BY DEF SummaryAddsUp
  <2> QED BY <2>1, <2>2, SummaryIsTrue
<1> QED BY <1>1, Shape, PTL

-----------------------------------------------------------------------------
(* Comparisons.                                                            *)

LEMMA ScoresAddUp ==
  ASSUME NEW values \in Nat \X Nat \X Nat PROVE Total(values) \in Int
<1>1. IsFiniteSet(1..3)
  <2>1. 1 \in Int /\ 3 \in Int
    OBVIOUS
  <2> QED BY <2>1, FS_Interval, Zenon
<1>2. DOMAIN values = 1..3 /\ \A i \in 1..3 : values[i] \in Int
  OBVIOUS
<1>3. SumFunctionOnSet(values, 1..3) \in Int
  BY <1>1, <1>2, SumAdds
<1> QED BY <1>2, <1>3 DEF Total, SumFunction

\* The three scores of a case, added up.
LEMMA ThreeAddUp ==
  ASSUME NEW v, DOMAIN v = 1..3, v[1] \in Int, v[2] \in Int, v[3] \in Int
  PROVE  Total(v) = v[1] + v[2] + v[3]
<1>1. IsFiniteSet({3}) /\ IsFiniteSet({2, 3}) /\ IsFiniteSet(1..3)
  <2>1. IsFiniteSet({3})
    BY FS_Singleton
  <2>2. IsFiniteSet({3} \cup {2})
    BY <2>1, FS_AddElement
  <2>3. IsFiniteSet(({3} \cup {2}) \cup {1})
    BY <2>2, FS_AddElement
  <2>4. {3} \cup {2} = {2, 3} /\ ({3} \cup {2}) \cup {1} = 1..3
    OBVIOUS
  <2> QED BY <2>1, <2>2, <2>3, <2>4
<1>2. \A i \in 1..3 : v[i] \in Int
  OBVIOUS
<1>3. SumFunctionOnSet(v, 1..3) = v[1] + SumFunctionOnSet(v, (1..3) \ {1})
  BY <1>1, <1>2, SumAdds
<1>4. SumFunctionOnSet(v, {2, 3}) = v[2] + SumFunctionOnSet(v, {2, 3} \ {2})
  BY <1>1, SumAdds
<1>5. SumFunctionOnSet(v, {3}) = v[3] + SumFunctionOnSet(v, {3} \ {3})
  BY <1>1, SumAdds
<1>6. (1..3) \ {1} = {2, 3} /\ {2, 3} \ {2} = {3} /\ {3} \ {3} = {}
  OBVIOUS
<1>7. SumFunctionOnSet(v, {}) = 0
  BY SumOfNone
<1>8. SumFunctionOnSet(v, 1..3) = v[1] + (v[2] + (v[3] + 0))
  BY <1>3, <1>4, <1>5, <1>6, <1>7
<1> QED BY <1>8 DEF Total, SumFunction

\* Three sums, added up.
ThreeSums(a, s) == SumFunctionOnSet(a[1], s) + SumFunctionOnSet(a[2], s) + SumFunctionOnSet(a[3], s)

LEMMA SumsCompare ==
  ASSUME NEW D, IsFiniteSet(D), NEW a, NEW b,
         \A x \in D : /\ a[1][x] \in Int /\ a[2][x] \in Int /\ a[3][x] \in Int
                      /\ b[1][x] \in Int /\ b[2][x] \in Int /\ b[3][x] \in Int
                      /\ a[1][x] + a[2][x] + a[3][x] <= b[1][x] + b[2][x] + b[3][x]
  PROVE  ThreeSums(a, D) <= ThreeSums(b, D)
<1> DEFINE A(m, s) == SumFunctionOnSet(a[m], s)
           B(m, s) == SumFunctionOnSet(b[m], s)
           Good == {s \in SUBSET D : ThreeSums(a, s) <= ThreeSums(b, s)}
<1>1. ASSUME NEW s \in SUBSET D
      PROVE  /\ A(1, s) \in Int /\ A(2, s) \in Int /\ A(3, s) \in Int
             /\ B(1, s) \in Int /\ B(2, s) \in Int /\ B(3, s) \in Int
             /\ \A x \in s : /\ A(1, s) = a[1][x] + A(1, s \ {x})
                             /\ A(2, s) = a[2][x] + A(2, s \ {x})
                             /\ A(3, s) = a[3][x] + A(3, s \ {x})
                             /\ B(1, s) = b[1][x] + B(1, s \ {x})
                             /\ B(2, s) = b[2][x] + B(2, s \ {x})
                             /\ B(3, s) = b[3][x] + B(3, s \ {x})
  <2>1. IsFiniteSet(s)
    BY FS_Subset
  <2>2. ASSUME NEW w, \A x \in s : w[x] \in Int
        PROVE  /\ SumFunctionOnSet(w, s) \in Int
               /\ \A x \in s : SumFunctionOnSet(w, s) = w[x] + SumFunctionOnSet(w, s \ {x})
    BY <2>1, <2>2, SumAdds
  <2> QED BY <2>2
<1>2. \A s \in SUBSET D : (\A t \in SUBSET s : t # s => t \in Good) => s \in Good
  <2> SUFFICES ASSUME NEW s \in SUBSET D, \A t \in SUBSET s : t # s => t \in Good
               PROVE  ThreeSums(a, s) <= ThreeSums(b, s)
    OBVIOUS
  <2>1. CASE s = {}
    <3>1. \A w : SumFunctionOnSet(w, {}) = 0
      BY SumOfNone
    <3> QED BY <2>1, <3>1 DEF ThreeSums
  <2>2. CASE s # {}
    <3>1. PICK x \in s : TRUE
      BY <2>2
    <3> DEFINE t == s \ {x}
    <3>2. t \in SUBSET s /\ t # s /\ t \in SUBSET D
      BY <3>1
    <3>3. ThreeSums(a, t) <= ThreeSums(b, t)
      BY <3>2
    <3>4. A(1, t) + A(2, t) + A(3, t) <= B(1, t) + B(2, t) + B(3, t)
      BY <3>3 DEF ThreeSums
    <3>5. /\ A(1, t) \in Int /\ A(2, t) \in Int /\ A(3, t) \in Int
          /\ B(1, t) \in Int /\ B(2, t) \in Int /\ B(3, t) \in Int
      BY <1>1, <3>2
    <3>6. /\ A(1, s) = a[1][x] + A(1, t) /\ A(2, s) = a[2][x] + A(2, t)
          /\ A(3, s) = a[3][x] + A(3, t) /\ B(1, s) = b[1][x] + B(1, t)
          /\ B(2, s) = b[2][x] + B(2, t) /\ B(3, s) = b[3][x] + B(3, t)
      BY <1>1, <3>1
    <3>7. /\ a[1][x] \in Int /\ a[2][x] \in Int /\ a[3][x] \in Int
          /\ b[1][x] \in Int /\ b[2][x] \in Int /\ b[3][x] \in Int
          /\ a[1][x] + a[2][x] + a[3][x] <= b[1][x] + b[2][x] + b[3][x]
      BY <3>1
    <3> HIDE DEF A, B, t
    <3>8. A(1, s) + A(2, s) + A(3, s) <= B(1, s) + B(2, s) + B(3, s)
      BY <3>4, <3>5, <3>6, <3>7
    <3> QED BY <3>8 DEF ThreeSums, A, B
  <2> QED BY <2>1, <2>2
<1> HIDE DEF Good
<1>3. D \in Good
  BY <1>2, SubsetInduction
<1> QED BY <1>3 DEF Good

\* The results of a run are scores.
Scored(results) == \A case \in DOMAIN results : results[case] \in Nat \X Nat \X Nat

\* Summaries of the same cases by the same weights do not fall together, unless a
\* case falls.
LEMMA MeansMove ==
  ASSUME NEW x, NEW y, DOMAIN y = DOMAIN x, IsFiniteSet(DOMAIN x), Scored(x), Scored(y),
         NEW weights, NEW sources,
         \A case \in DOMAIN x : SourceWeight(weights, sources[case]) \in Nat,
         \A case \in DOMAIN x : Total(x[case]) <= Total(y[case])
  PROVE  /\ Means(x, weights, sources) \in Int /\ Means(y, weights, sources) \in Int
         /\ Means(x, weights, sources) <= Means(y, weights, sources)
<1> DEFINE D == DOMAIN x
           w == [case \in D |-> SourceWeight(weights, sources[case])]
           Of(r, m) == [case \in D |-> r[case][m]]
           Weighted(r, m) == [case \in D |-> r[case][m] * w[case]]
           Three(r) == <<Weighted(r, 1), Weighted(r, 2), Weighted(r, 3)>>
           Mean(r, m) == WeightedMean(Of(r, m), w)[1]
<1>1. ASSUME NEW r \in {x, y}
      PROVE  Means(r, weights, sources) = Total(<<Mean(r, 1), Mean(r, 2), Mean(r, 3)>>)
  BY DEF Means
<1>2. CASE \A case \in D : w[case] = 0
  <2>1. DOMAIN w = D
    OBVIOUS
  <2>2. \A r, m : WeightedMean(Of(r, m), w) = <<0, 1>>
    BY <1>2, <2>1 DEF WeightedMean
  <2>3. \A r, m : Mean(r, m) = 0
    BY <2>2
  <2> HIDE DEF Mean
  <2>4. Means(x, weights, sources) = Total(<<0, 0, 0>>) /\ Means(y, weights, sources) = Total(<<0, 0, 0>>)
    BY <1>1, <2>3
  <2>5. Total(<<0, 0, 0>>) \in Int
    BY ScoresAddUp
  <2> QED BY <2>4, <2>5
<1>3. CASE ~\A case \in D : w[case] = 0
  <2>1. ASSUME NEW r, NEW m
        PROVE  Mean(r, m) = SumFunctionOnSet(Weighted(r, m), D)
    <3> DEFINE v == Of(r, m)
               vw == [case \in DOMAIN v |-> v[case] * w[case]]
    <3>1. DOMAIN w = D /\ DOMAIN v = D /\ v # <<>>
      <4>1. D # {} /\ DOMAIN v = D
        BY <1>3
      <4> QED BY <4>1
    <3>2. WeightedMean(v, w) = <<Total(vw), Total(w)>>
      BY <1>3, <3>1 DEF WeightedMean
    <3>3. vw = Weighted(r, m) /\ DOMAIN vw = D
      OBVIOUS
    <3> HIDE DEF v, vw
    <3>4. Mean(r, m) = Total(vw)
      BY <3>2 DEF v
    <3> QED BY <3>3, <3>4 DEF Total, SumFunction
  <2>2. ASSUME NEW r \in {x, y}, NEW case \in D
        PROVE  /\ Three(r)[1][case] \in Int /\ Three(r)[2][case] \in Int /\ Three(r)[3][case] \in Int
               /\ Three(r)[1][case] + Three(r)[2][case] + Three(r)[3][case]
                    = Total(r[case]) * w[case]
               /\ Total(r[case]) \in Nat /\ w[case] \in Nat
    <3>1. r[case] \in Nat \X Nat \X Nat /\ w[case] \in Nat
      BY DEF Scored
    <3> DEFINE v == r[case]
               n == w[case]
    <3>2. v[1] \in Nat /\ v[2] \in Nat /\ v[3] \in Nat /\ DOMAIN v = 1..3 /\ n \in Nat
      BY <3>1
    <3>3. Total(v) = v[1] + v[2] + v[3]
      <4>1. DOMAIN v = 1..3 /\ v[1] \in Int /\ v[2] \in Int /\ v[3] \in Int
        BY <3>2
      <4> HIDE DEF v
      <4> QED BY <4>1, ThreeAddUp
    <3>4. Three(r)[1][case] = v[1] * n /\ Three(r)[2][case] = v[2] * n /\ Three(r)[3][case] = v[3] * n
      OBVIOUS
    <3> HIDE DEF v, n, Three
    <3>5. v[1] * n + v[2] * n + v[3] * n = (v[1] + v[2] + v[3]) * n
          /\ v[1] * n \in Int /\ v[2] * n \in Int /\ v[3] * n \in Int
          /\ v[1] + v[2] + v[3] \in Nat
      BY <3>2
    <3> QED BY <3>2, <3>3, <3>4, <3>5 DEF v, n
  <2>3. ThreeSums(Three(x), D) <= ThreeSums(Three(y), D)
    <3>1. ASSUME NEW case \in D
          PROVE  Three(x)[1][case] + Three(x)[2][case] + Three(x)[3][case]
                   <= Three(y)[1][case] + Three(y)[2][case] + Three(y)[3][case]
      <4>1. Total(x[case]) * w[case] <= Total(y[case]) * w[case]
        BY <2>2, TimesGrows
      <4> QED BY <2>2, <4>1
    <3> HIDE DEF Three, D
    <3> QED BY <2>2, <3>1, SumsCompare DEF D
  <2>4. ASSUME NEW r \in {x, y}
        PROVE  /\ Means(r, weights, sources) = ThreeSums(Three(r), D)
               /\ Means(r, weights, sources) \in Int
    <3> DEFINE v == <<Mean(r, 1), Mean(r, 2), Mean(r, 3)>>
    <3>1. Mean(r, 1) \in Int /\ Mean(r, 2) \in Int /\ Mean(r, 3) \in Int
      <4>1. ASSUME NEW u, \A case \in D : u[case] \in Int PROVE SumFunctionOnSet(u, D) \in Int
        BY <4>1, SumAdds
      <4>2. /\ \A case \in D : Weighted(r, 1)[case] \in Int
            /\ \A case \in D : Weighted(r, 2)[case] \in Int
            /\ \A case \in D : Weighted(r, 3)[case] \in Int
        BY <2>2
      <4> HIDE DEF Mean, Weighted
      <4> QED BY <2>1, <4>1, <4>2
    <3>2. Total(v) = v[1] + v[2] + v[3]
      <4> HIDE DEF Mean
      <4>1. DOMAIN v = 1..3 /\ v[1] \in Int /\ v[2] \in Int /\ v[3] \in Int
        BY <3>1
      <4> HIDE DEF v
      <4> QED BY <4>1, ThreeAddUp
    <3>3. v[1] = SumFunctionOnSet(Weighted(r, 1), D) /\ v[2] = SumFunctionOnSet(Weighted(r, 2), D)
          /\ v[3] = SumFunctionOnSet(Weighted(r, 3), D)
      <4> HIDE DEF Mean, Weighted
      <4> QED BY <2>1
    <3>4. ThreeSums(Three(r), D) = v[1] + v[2] + v[3]
      <4> HIDE DEF Weighted, v
      <4> QED BY <3>3 DEF ThreeSums
    <3>5. Means(r, weights, sources) = Total(v)
      BY <1>1
    <3>6. v[1] \in Int /\ v[2] \in Int /\ v[3] \in Int
      <4> HIDE DEF Mean
      <4> QED BY <3>1
    <3> HIDE DEF v, Three
    <3> QED BY <3>2, <3>4, <3>5, <3>6
  <2> HIDE DEF Three, D
  <2> QED BY <2>3, <2>4
<1> QED BY <1>2, <1>3

\* A run that can be compared: its results are scores of some cases, its configuration
\* names its dataset.
Comparable(run) ==
  /\ IsFiniteSet(DOMAIN run.results) /\ Scored(run.results)
  /\ "dataset_id" \in DOMAIN run.config /\ run.config["dataset_id"] = run.dataset

LEMMA ComparisonIsTrue ==
  ASSUME NEW a, NEW b, Comparable(a), Comparable(b), NEW weights \in SourceWeights, NEW sources
  PROVE  ComparisonExplains(a, b, weights, sources)
<1> DEFINE D == DOMAIN a.results
           v == CompareRuns(a, b)
           before == Means(a.results, weights, sources)
           after == Means(b.results, weights, sources)
<1>1. ASSUME DOMAIN b.results = D,
             \A case \in D : SourceWeight(weights, sources[case]) >= 0
      PROVE  /\ after < before => v.regressed # {}
             /\ after > before => v.improved # {}
  <2>1. \A case \in D : SourceWeight(weights, sources[case]) \in Nat
    <3> SUFFICES ASSUME NEW case \in D PROVE SourceWeight(weights, sources[case]) \in Nat
      OBVIOUS
    <3>1. SourceWeight(weights, sources[case]) \in Int
      BY OutcomesAssumption DEF SourceWeight
    <3> QED BY <1>1, <3>1
  <2>2. ASSUME NEW case \in D
        PROVE  /\ Total(a.results[case]) \in Int /\ Total(b.results[case]) \in Int
               /\ Delta(a.results, b.results, case) =
                    Total(b.results[case]) - Total(a.results[case])
    <3>1. Total(a.results[case]) \in Int /\ Total(b.results[case]) \in Int
      BY <1>1, ScoresAddUp DEF Comparable, Scored
    <3> QED BY <1>1, <3>1 DEF Delta, ResultValues
  <2>3. /\ v.improved = {case \in D : 1 * Delta(a.results, b.results, case) > 0}
        /\ v.regressed = {case \in D : (-1) * Delta(a.results, b.results, case) > 0}
    <3>1. D \cup DOMAIN b.results = D
      BY <1>1
    <3> QED BY <3>1, Zenon DEF CompareRuns
  <2> HIDE DEF v
  <2>4. ASSUME v.regressed = {} PROVE before <= after
    <3>1. \A case \in D : Total(a.results[case]) <= Total(b.results[case])
      BY <2>2, <2>3, <2>4
    <3> QED BY <1>1, <2>1, <3>1, MeansMove DEF Comparable
  <2>5. ASSUME v.improved = {} PROVE after <= before
    <3>1. \A case \in D : Total(b.results[case]) <= Total(a.results[case])
      BY <2>2, <2>3, <2>5
    <3> QED BY <1>1, <2>1, <3>1, MeansMove DEF Comparable
  <2>6. before \in Int /\ after \in Int
    <3>1. ASSUME NEW run \in {a, b} PROVE Means(run.results, weights, sources) \in Int
      <4> DEFINE x == run.results
      <4>1. /\ DOMAIN x = D /\ IsFiniteSet(DOMAIN x) /\ Scored(x)
            /\ \A case \in DOMAIN x : SourceWeight(weights, sources[case]) \in Nat
        BY <1>1, <2>1 DEF Comparable
      <4>2. \A case \in DOMAIN x : Total(x[case]) <= Total(x[case])
        BY <2>2, <4>1
      <4> HIDE DEF x
      <4>3. Means(x, weights, sources) \in Int
        BY <4>1, <4>2, MeansMove
      <4> QED BY <4>3 DEF x
    <3> QED BY <3>1
  <2> HIDE DEF before, after
  <2> QED BY <2>4, <2>5, <2>6
<1>2. a.dataset # b.dataset => "dataset_id" \in DOMAIN v.diff
  <2>1. v.diff = ConfigDiff(a.config, b.config)
    BY DEF CompareRuns
  <2>2. DOMAIN v.diff = {key \in DOMAIN a.config \cup DOMAIN b.config :
                          Get(a.config, key) # Get(b.config, key)}
    BY <2>1 DEF ConfigDiff
  <2> HIDE DEF v
  <2> QED BY <2>2 DEF Comparable, Get
<1> HIDE DEF v
<1> QED BY <1>1, <1>2 DEF ComparisonExplains, v

\* VerdictsFitSummaries: summaries of the same cases by the same weights do not fall
\* together without a regressed case, nor rise without an improved one, however many
\* cases there are and whatever they score; and a difference of datasets is shown
\* whatever the configurations override.
THEOREM VerdictsAlwaysFit == Spec => []VerdictsFitSummaries
<1>1. InputShape => VerdictsFitSummaries
  <2> DEFINE d == input.data
  <2> SUFFICES ASSUME InputShape, input.of = "runs"
               PROVE  VerdictsFitSummaries
    BY DEF VerdictsFitSummaries
  <2>1. /\ IsFiniteSet(DOMAIN d)
        /\ \A i \in DOMAIN d : d[i] \in Result
    <3>1. d \in Seq(Result)
      BY DEF InputShape
    <3> HIDE DEF d
    <3> QED BY <3>1, SequencePlaces
  <2>2. ASSUME NEW run PROVE Scored(ResultsOf(run)) /\ IsFiniteSet(DOMAIN ResultsOf(run))
    <3> DEFINE of == {i \in DOMAIN d : d[i].run = run}
               R == ResultsOf(run)
               cases == {d[i].case : i \in of}
    <3>1. R = [case \in cases |-> d[CHOOSE i \in of : d[i].case = case].values]
      BY DEF ResultsOf
    <3>2. IsFiniteSet(cases)
      <4>1. IsFiniteSet(of)
        BY <2>1, FS_Subset
      <4>2. cases = {d[i].case : i \in of}
        OBVIOUS
      <4> DEFINE f == [i \in of |-> d[i].case]
      <4>3. cases = {f[i] : i \in of}
        BY <4>2
      <4> HIDE DEF of, cases, f
      <4> QED BY <4>1, <4>3, ImageIsFinite
    <3>3. ASSUME NEW case \in cases PROVE R[case] \in Nat \X Nat \X Nat
      <4> DEFINE i == CHOOSE i \in of : d[i].case = case
      <4>1. i \in of
        OBVIOUS
      <4>2. R[case] = d[i].values
        BY <3>1
      <4>3. d[i] \in Result
        BY <2>1, <4>1
      <4> HIDE DEF i
      <4> QED BY <4>2, <4>3, ScoresAssumption DEF Result
    <3>4. DOMAIN R = cases
      BY <3>1
    <3> HIDE DEF R, cases
    <3>5. Scored(R)
      BY <3>3, <3>4 DEF Scored
    <3> QED BY <3>2, <3>4, <3>5 DEF R
  <2>3. ASSUME NEW run, NEW dataset, NEW overrides
        PROVE  Comparable(RunOf(run, dataset, overrides))
    <3> DEFINE config == Snapshot([top_k |-> 5, rerank |-> "no"], overrides, dataset)
    <3>1. "dataset_id" \in DOMAIN config /\ config["dataset_id"] = dataset
      BY DEF Snapshot
    <3> HIDE DEF config
    <3>2. RunOf(run, dataset, overrides) =
            [results |-> ResultsOf(run), dataset |-> dataset, config |-> config]
      BY DEF RunOf, config
    <3> QED BY <2>2, <3>1, <3>2 DEF Comparable
  <2> QED BY <2>3, ComparisonIsTrue DEF VerdictsFitSummaries
<1> QED BY <1>1, Shape, PTL

-----------------------------------------------------------------------------
(* Chunks.                                                                 *)

LEMMA BudgetIsFitted ==
  ASSUME NEW limit \in Nat, NEW overlap \in Nat, NEW window \in Nat,
         limit > SpecialTokens, limit > overlap, window > SpecialTokens
  PROVE  LET budget == FitChunkBudget(limit, overlap, window) IN
         /\ BudgetFits(limit, overlap, window)
         /\ budget.limit \in Nat /\ budget.limit > SpecialTokens
<1> USE DEF SpecialTokens
<1> DEFINE least == Min({limit, window})
           budget == FitChunkBudget(limit, overlap, window)
<1>1. least \in {limit, window} /\ least <= limit /\ least <= window
  BY MinIsLeast
<1>2. CASE limit <= window
  <2>1. budget = [limit |-> limit, overlap |-> overlap]
    BY <1>2 DEF FitChunkBudget
  <2>2. limit <= least
    BY <1>1, <1>2
  <2> HIDE DEF least
  <2> QED BY <2>1, <2>2 DEF BudgetFits, least
<1>3. CASE window < limit
  <2> DEFINE share == (window * overlap) \div limit
             cut == Min({share, window - 1})
  <2>1. share \in Nat
    <3> DEFINE x == window * overlap
    <3>1. x \in Nat
      OBVIOUS
    <3> HIDE DEF x
    <3>2. x \div limit \in Nat
      BY <3>1
    <3> QED BY <3>2 DEF x
  <2>2. window - 1 \in Nat
    OBVIOUS
  <2>3. cut \in {share, window - 1} /\ cut <= window - 1
    BY <2>1, <2>2, MinIsLeast
  <2> HIDE DEF share
  <2>4. budget = [limit |-> window, overlap |-> cut]
    BY <1>3 DEF FitChunkBudget, share
  <2> HIDE DEF cut
  <2>5. cut \in 0..window - 1
    BY <2>1, <2>2, <2>3
  <2>6. window <= least
    BY <1>1, <1>3
  <2> HIDE DEF least
  <2> QED BY <2>4, <2>5, <2>6 DEF BudgetFits, least
<1> QED BY <1>2, <1>3

\* A text, of glyphs and the line break that joins them.
Glyphs == [place : Nat, class : Classes]

LEMMA TextIsOfGlyphs ==
  ASSUME NEW d \in Seq(Classes)
  PROVE  Break \in Glyphs /\ TextOf(d) \in Seq(Glyphs)
<1>1. DOMAIN d = 1..Len(d) /\ Len(d) \in Nat /\ \A i \in DOMAIN d : d[i] \in Classes
  BY SequencePlaces
<1>2. \A i \in 1..Len(d) : Glyph(i, d[i]) \in Glyphs
  BY <1>1 DEF Glyph, Glyphs
<1> DEFINE n == Len(d)
<1> HIDE DEF n
<1>3. [i \in 1..n |-> Glyph(i, d[i])] \in Seq(Glyphs)
  BY <1>1, <1>2 DEF n
<1> QED BY <1>1, <1>3 DEF TextOf, Break, Glyph, Glyphs, Classes, n

\* No chunk of a text of any length is longer than the window or the configured size,
\* whatever these are, whichever words are unknown and whatever overlap is joined to it.
THEOREM ChunksAlwaysFit == Spec => []EveryChunkFits
<1>1. InputShape => EveryChunkFits
  <2> SUFFICES ASSUME InputShape, input.of = "text" PROVE EveryChunkFits
    BY DEF EveryChunkFits
  <2> DEFINE d == input.data
             s == TextOf(d)
  <2>1. d \in Seq(Classes)
    BY DEF InputShape
  <2> HIDE DEF d
  <2>2. Break \in Glyphs /\ s \in Seq(Glyphs)
    BY <2>1, TextIsOfGlyphs
  <2> HIDE DEF s
  <2>3. ASSUME NEW size \in Sizes, NEW window \in Windows
        PROVE  LET budget == FitChunkBudget(size[1], size[2], window) IN
               /\ BudgetFits(size[1], size[2], window)
               /\ budget.limit \in Nat /\ budget.limit > SpecialTokens
    BY BudgetAssumption, BudgetIsFitted
  <2>4. ASSUME NEW budget \in Budgets PROVE ChunksFit(s, budget)
    <3>1. budget.limit \in Nat /\ SpecialTokens <= budget.limit
      BY <2>3 DEF Budgets, SpecialTokens
    <3> DEFINE chunks == Split(s, budget.limit, budget.overlap)
               F == Short(Glyphs, budget.limit)
    <3>2. chunks \in Seq(F)
      BY <2>2, <3>1, ChunksAreShort
    <3> HIDE DEF F, chunks
    <3>3. \A k \in DOMAIN chunks : chunks[k] \in F
      BY <3>2
    <3>4. ChunkForCollection(s, FALSE, budget) = chunks
      BY DEF ChunkForCollection, chunks
    <3> QED BY <3>3, <3>4 DEF ChunksFit, F, Short
  <2> QED BY <2>3, <2>4 DEF EveryChunkFits, d, s
<1> QED BY <1>1, Shape, PTL

\* The glyphs of a text are in their places.
LEMMA TextIsOrdered ==
  ASSUME NEW d \in Seq(Classes)
  PROVE  Sited(Glyphs) /\ Ordered(TextOf(d)) /\ ~InkAt(TextOf(d), 0)
<1> DEFINE n == Len(d)
           s == TextOf(d)
<1>1. n \in Nat /\ DOMAIN d = 1..n
  OBVIOUS
<1>2. Len(s) = n /\ \A i \in 1..n : s[i].place = i
  <2>1. s = [i \in 1..n |-> Glyph(i, d[i])]
    BY <1>1 DEF TextOf
  <2> HIDE DEF s
  <2>2. Len(s) = n
    BY <1>1, <2>1
  <2> HIDE DEF n
  <2> QED BY <2>1, <2>2 DEF Glyph
<1> HIDE DEF s, n
<1>3. Ordered(s) /\ ~InkAt(s, 0)
  BY <1>1, <1>2 DEF Ordered, InkAt
<1> QED BY <1>3 DEF Sited, Glyphs, s

\* EveryTextIsCovered: of a text of any length no character is lost or moved, each chunk
\* is a stretch of it that goes beyond the one before, and what it repeats is within the
\* overlap, whatever the sizes and windows are, and if the document is kept whole.
THEOREM TextsAlwaysCovered == Spec => []EveryTextIsCovered
<1>1. InputShape => EveryTextIsCovered
  <2> SUFFICES ASSUME InputShape, input.of = "text" PROVE EveryTextIsCovered
    BY DEF EveryTextIsCovered
  <2> DEFINE d == input.data
             s == TextOf(d)
  <2>1. d \in Seq(Classes)
    BY DEF InputShape
  <2> HIDE DEF d
  <2>2. Break \in Glyphs /\ s \in Seq(Glyphs)
    BY <2>1, TextIsOfGlyphs
  <2>3. Sited(Glyphs) /\ Ordered(s) /\ ~InkAt(s, 0)
    BY <2>1, TextIsOrdered
  <2> HIDE DEF s
  <2>4. ASSUME NEW budget \in Budgets PROVE ChunksCover(s, budget)
    <3>1. budget.limit \in Nat /\ budget.limit > SpecialTokens
      BY BudgetAssumption, BudgetIsFitted DEF Budgets
    <3> QED BY <2>2, <2>3, <3>1, ChunksAreCovering
  <2> QED BY <2>4 DEF EveryTextIsCovered, d, s
<1>2. Spec => []InputShape
  BY Shape
<1> QED BY <1>1, <1>2, PTL

-----------------------------------------------------------------------------
(* Cleaning.                                                               *)

LEMMA LinesAreNumbered ==
  ASSUME NEW d \in Seq(LineTexts)
  PROVE  Lines(d) \in Seq(Saying(LineTexts)) /\ Numbered(Lines(d))
<1> DEFINE n == Len(d)
           L == Saying(LineTexts)
<1>1. n \in Nat /\ DOMAIN d = 1..n /\ \A i \in 1..n : d[i] \in LineTexts
  BY OfASequence
<1>2. Lines(d) = [i \in 1..n |-> Line(i, d[i])]
  BY <1>1 DEF Lines
<1> HIDE DEF n
<1>3. ASSUME NEW i \in 1..n PROVE Line(i, d[i]) \in L
  <2> DEFINE x == d[i]
  <2>1. i \in Nat /\ x \in LineTexts
    BY <1>1
  <2> HIDE DEF x
  <2>2. Line(i, x) \in L
    BY <2>1 DEF Line, Saying, OrNothing
  <2> QED BY <2>2 DEF x
<1> HIDE DEF L
<1>4. \A i \in 1..n : Lines(d)[i] = Line(i, d[i]) /\ Lines(d)[i] \in L
  BY <1>2, <1>3
<1>5. Lines(d) \in Seq(L) /\ Len(Lines(d)) = n
  <2>1. Lines(d) = [i \in 1..n |-> Lines(d)[i]]
    BY <1>2
  <2> QED BY <1>1, <1>4, <2>1, ASequence
<1>6. \A i \in 1..n : Lines(d)[i].place = i
  <2>1. \A i, x : Line(i, x).place = i
    BY DEF Line
  <2> QED BY <1>4, <2>1
<1> QED BY <1>5, <1>6 DEF Numbered, L

\* CleaningSettles: cleaning a cleaned text only normalizes characters that removing
\* invisible ones has brought together, line by line, and cleaning it once more
\* changes nothing, whatever the lines and page breaks are and say.
THEOREM CleaningAlwaysSettles == Spec => []CleaningSettles
<1>1. InputShape => CleaningSettles
  <2> SUFFICES ASSUME InputShape, input.of = "pages" PROVE CleanSettles(Lines(input.data))
    BY DEF CleaningSettles
  <2>1. input.data \in Seq(LineTexts)
    BY DEF InputShape
  <2> QED BY <2>1, LinesAreNumbered, CleaningSettlesDown
<1> QED BY <1>1, Shape, PTL

\* BodySurvives: what cleaning keeps stays in its order and its paragraphs apart, and
\* what it removes of what says something visible are page numbers and margins that
\* other pages have too, whatever the pages are.
THEOREM BodyAlwaysSurvives == Spec => []BodySurvives
<1>1. InputShape => BodySurvives
  <2> SUFFICES ASSUME InputShape, input.of = "pages" PROVE CleanKeepsBody(Lines(input.data))
    BY DEF BodySurvives
  <2>1. input.data \in Seq(LineTexts)
    BY DEF InputShape
  <2> QED BY <2>1, LinesAreNumbered, CleaningKeepsBody
<1> QED BY <1>1, Shape, PTL
=============================================================================
