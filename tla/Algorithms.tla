----------------------------- MODULE Algorithms -----------------------------
(***************************************************************************)
(* What the pure algorithms promise of every input: a state is one input   *)
(* of one of them, and a step makes it longer.                             *)
(***************************************************************************)
EXTENDS Chunker, Cleaner, EvalMetrics, Intake

CONSTANTS
  MaxLength,   \* of an input, by its kind
  Sizes,       \* chunk sizes and overlaps that may be configured, in tokens
  Windows,     \* windows an encoder may have, in tokens
  Distances,   \* cosine distances, in hundredths
  Chunks,      \* chunks that a case may expect
  Cutoffs,     \* numbers of results that may be asked for
  Outcomes,    \* outcomes of a case
  SourceWeights, \* weights of sources that may be configured
  Cases, Sources, Scores, \* cases, where they may be from, and metrics of one
  Datasets, Overrides \* datasets of a run, and configurations it may be given

\* A size leaves room for a token beside the special ones, and is larger than the overlap.
ASSUME BudgetAssumption ==
  /\ \A size \in Sizes : /\ size[1] \in Nat /\ size[2] \in Nat
                         /\ size[1] > SpecialTokens /\ size[1] > size[2]
  /\ \A window \in Windows : window \in Nat /\ window > SpecialTokens

ASSUME RankingAssumption ==
  /\ Distances \subseteq Nat /\ Chunks \subseteq Nat /\ IsFiniteSet(Chunks)
  /\ Cutoffs \subseteq 0..Len(Gain)

\* Any number may be a weight.
ASSUME OutcomesAssumption ==
  /\ \A outcome \in Outcomes :
       /\ outcome.value \in Nat /\ outcome.latency \in Nat
       /\ outcome.label \in Labels /\ outcome.failed \in BOOLEAN
  /\ \A weights \in SourceWeights : \A src \in DOMAIN weights : weights[src] \in Int

ASSUME ScoresAssumption == Scores \subseteq Nat \X Nat \X Nat

VARIABLE
  input  \* what it is of, and the data

vars == <<input>>

-----------------------------------------------------------------------------
(* The inputs.                                                             *)

\* A longer input extends a shorter one of its kind.
Grow(kind, items) ==
  /\ input.of = kind /\ Len(input.data) < MaxLength[kind]
  /\ \E item \in items : input' = [input EXCEPT !.data = Append(@, item)]

\* A text, by its glyphs' classes.
GrowText == Grow("text", Classes)

\* Lines and page breaks.
GrowPages == Grow("pages", LineTexts)

\* Chunks by their distance.
GrowRanking == Grow("ranking", Distances)

GrowOutcomes == Grow("outcomes", Outcomes)

FileSuffixes == ParsedSuffixes \cup {".exe", ""}
FileTypes == {"text/plain", "text/html", "application/pdf", Word, UnknownMimeType}

\* Reads of a file, after its suffix and content type.
GrowReads ==
  \/ Len(input.data) = 0 /\ Grow("upload", FileSuffixes)
  \/ Len(input.data) = 1 /\ Grow("upload", FileTypes)
  \/ Len(input.data) >= 2 /\ Grow("upload", 1..ReadChunkBytes)

\* Results of two runs: at most one of each run and case.
GrowRuns ==
  /\ input.of = "runs"
  /\ \E run \in {1, 2}, case \in Cases, values \in Scores :
       /\ \A i \in DOMAIN input.data : <<input.data[i].run, input.data[i].case>> # <<run, case>>
       /\ input' = [input EXCEPT !.data =
                     Append(@, [run |-> run, case |-> case, values |-> values])]

Init ==
  input \in [of : {"text", "pages", "ranking", "outcomes", "upload", "runs"}, data : {<<>>}]

Next == GrowText \/ GrowPages \/ GrowRanking \/ GrowOutcomes \/ GrowReads \/ GrowRuns

Spec == Init /\ [][Next]_vars

-----------------------------------------------------------------------------
(* The properties of the algorithms, of every input.                       *)

Budgets == {FitChunkBudget(size[1], size[2], window) : size \in Sizes, window \in Windows}

\* No chunk is longer than the encoder's window or the configured size, whatever
\* these are (TextChunker, _fit_chunk_budget).
EveryChunkFits == input.of = "text" =>
  /\ \A size \in Sizes, window \in Windows : BudgetFits(size[1], size[2], window)
  /\ \A budget \in Budgets : ChunksFit(TextOf(input.data), budget)

\* The chunks together are the text, in its order (TextChunker).
EveryTextIsCovered == input.of = "text" =>
  \A budget \in Budgets : ChunksCover(TextOf(input.data), budget)

\* Cleaning again finds no line to remove: it normalizes what the first cleaning has
\* brought together, and then nothing changes any more (TextCleaner.clean).
CleaningSettles == input.of = "pages" => CleanSettles(Lines(input.data))

\* Cleaning removes margins and page numbers and no body (TextCleaner.clean).
BodySurvives == input.of = "pages" => CleanKeepsBody(Lines(input.data))

\* Recall, reciprocal rank and NDCG tell one story (evaluate_retrieval).
MetricsTellOneStory == input.of = "ranking" =>
  \A visible \in SUBSET DOMAIN input.data, expected \in SUBSET Chunks, k \in Cutoffs :
    MetricsAgree(Retrieve(input.data, visible, k), expected, k)

\* The attribution of a case fits its metrics (classify_attribution).
LabelFitsMetrics == input.of = "ranking" =>
  \A visible \in SUBSET DOMAIN input.data, expected \in SUBSET Chunks, k \in Cutoffs :
    AttributionAgrees(Retrieve(input.data, visible, k), input.data, expected, visible)

\* The summary of a run adds up (summarize_outcomes).
SummariesAddUp == input.of = "outcomes" =>
  \A weights \in SourceWeights : SummaryAddsUp(input.data, weights)

\* The results of a run.
ResultsOf(run) ==
  LET of == {i \in DOMAIN input.data : input.data[i].run = run} IN
  [case \in {input.data[i].case : i \in of} |->
    input.data[CHOOSE i \in of : input.data[i].case = case].values]

RunOf(run, dataset, overrides) ==
  [results |-> ResultsOf(run), dataset |-> dataset,
   config |-> Snapshot([top_k |-> 5, rerank |-> "no"], overrides, dataset)]

\* The verdicts on the cases of two runs fit the runs' summaries, and the difference of
\* their configurations names a difference of their datasets (compare_runs).
VerdictsFitSummaries == input.of = "runs" =>
  \A datasets \in [1..2 -> Datasets], overrides \in [1..2 -> Overrides],
     weights \in SourceWeights, sources \in [Cases -> Sources] :
    ComparisonExplains(RunOf(1, datasets[1], overrides[1]), RunOf(2, datasets[2], overrides[2]),
                       weights, sources)

\* The upload limit is exact, and what passes it can be parsed and served
\* (_validate_upload_metadata, _read_limited_upload, _served_file_for).
UploadsAreBounded == input.of = "upload" /\ Len(input.data) >= 2 =>
  UploadIsBounded(input.data[1], input.data[2], SubSeq(input.data, 3, Len(input.data)))
=============================================================================
