---------------------------- MODULE EvalMetrics ----------------------------
(***************************************************************************)
(* What an evaluation computes from what a search returns: the retrieval   *)
(* of evaluation/service.py, the metrics of metrics.py, the attribution of *)
(* a case, the summary of a run and the comparison of two.                 *)
(*                                                                         *)
(* A chunk is a number, in the order of its id; the i-th chunk belongs to  *)
(* document Document(i).  A score is in hundredths; a metric is a fraction *)
(* of Unit, or <<numerator, denominator>> where the fraction matters.      *)
(***************************************************************************)
EXTENDS Integers, SequencesExt, FiniteSetsExt, Functions

CONSTANTS
  Gain  \* 1 / log2(rank + 1) of every rank, in some unit

\* A hit counts, and for less at every further rank.
ASSUME GainAssumption ==
  /\ Gain \in Seq(Nat \ {0})
  /\ \A i, j \in DOMAIN Gain : i < j => Gain[i] > Gain[j]

Document(chunk) == (chunk + 1) \div 2

-----------------------------------------------------------------------------
(* Retrieval.                                                              *)

\* Those that come before x in the order of their keys, and of their numbers where
\* these are equal.
Before(x, S, key) == {y \in S : key[y] < key[x] \/ (key[y] = key[x] /\ y < x)}

\* S in this order.
Ranked(S, key) == [rank \in 1..Cardinality(S) |->
  CHOOSE x \in S : Cardinality(Before(x, S, key)) = rank - 1]

\* _score of a cosine distance, in hundredths.
Score(distance) == Max({0, Min({100, 100 - distance \div 2})})

\* retrieve_for_evaluation: the visible chunks by distance and id, at most topK.
Retrieve(distance, visible, topK) ==
  SubSeq(Ranked(visible, distance), 1, Min({topK, Cardinality(visible)}))

-----------------------------------------------------------------------------
(* metrics.py, for k = the number of results asked for.                    *)

\* The one-based ranks of the expected chunks.
Positions(retrieved, expected, k) ==
  {i \in DOMAIN retrieved : i <= k /\ retrieved[i] \in expected}

Recall(retrieved, expected, k) ==
  IF expected = {} \/ k <= 0 THEN <<0, 1>>
  ELSE <<Cardinality(expected \cap ToSet(SubSeq(retrieved, 1, Min({k, Len(retrieved)})))),
         Cardinality(expected)>>

ReciprocalRank(retrieved, expected, k) ==
  LET hits == Positions(retrieved, expected, k) IN
  IF hits = {} THEN <<0, 1>> ELSE <<1, Min(hits)>>

GainOf(ranks) == SumFunctionOnSet(Gain, ranks)

\* MUTANT of IdealGain: the ideal ranking is not cut off at k.
IdealGainUncut(expected, k) == GainOf(1..Cardinality(expected))

IdealGain(expected, k) == GainOf(1..Min({Cardinality(expected), k}))

Ndcg(retrieved, expected, k) ==
  IF expected = {} \/ k <= 0 THEN <<0, 1>>
  ELSE <<GainOf(Positions(retrieved, expected, k)), IdealGain(expected, k)>>

\* classify_attribution.
FlatTop(retrieved, distance) ==
  LET top == SubSeq(retrieved, 1, Min({3, Len(retrieved)}))
      scores == {Score(distance[top[i]]) : i \in DOMAIN top}
  IN /\ Cardinality({Document(top[i]) : i \in DOMAIN top}) > 1
     /\ Max(scores) - Min(scores) <= 3

\* MUTANT of Attribution: the position of a hit is counted from zero.
AttributionFromZero(retrieved, distance, expected, known) ==
  LET hits == {i - 1 : i \in Positions(retrieved, expected, Len(retrieved))} IN
  IF expected \cap known = {} THEN "not_in_kb"
  ELSE IF hits = {} THEN "not_recalled"
  ELSE IF FlatTop(retrieved, distance) THEN "ambiguous"
  ELSE IF Min(hits) > 3 THEN "low_rank"
  ELSE "hit"

\* The cases are tried in this order.
Attribution(retrieved, distance, expected, known) ==
  LET hits == Positions(retrieved, expected, Len(retrieved)) IN
  IF expected \cap known = {} THEN "not_in_kb"
  ELSE IF hits = {} THEN "not_recalled"
  ELSE IF FlatTop(retrieved, distance) THEN "ambiguous"
  ELSE IF Min(hits) > 3 THEN "low_rank"
  ELSE "hit"

Labels == {"not_in_kb", "not_recalled", "low_rank", "hit", "ambiguous"}

-----------------------------------------------------------------------------
(* The summary of a run.  An outcome has its value of a metric, in Units,  *)
(* its latency, its case's source, its label and whether it failed.        *)

Unit == 1000

Total(values) == SumFunction(values)

\* weighted_mean, as <<numerator, denominator>>: weights that cancel out divide by zero.
WeightedMean(values, weights) ==
  IF values = <<>> \/ \A i \in DOMAIN weights : weights[i] = 0 THEN <<0, 1>>
  ELSE <<Total([i \in DOMAIN values |-> values[i] * weights[i]]), Total(weights)>>

\* MUTANT of Percentile: the rank is truncated.
PercentileTruncated(values, p) ==
  IF values = <<>> THEN 0
  ELSE values[Ranked(DOMAIN values, values)[Max({1, (p * Len(values)) \div 100})]]

\* percentile: nearest rank, int(p / 100 * n + 0.999999).
Percentile(values, p) ==
  LET n == Len(values)
      rank == Max({1, (p * n * 10000 + 999999) \div 1000000})
  IN IF n = 0 THEN 0 ELSE values[Ranked(DOMAIN values, values)[Min({n, rank})]]

\* _source_weight: a source without a weight counts once.
SourceWeight(weights, src) == IF src \in DOMAIN weights THEN weights[src] ELSE 1

\* MUTANT of Count: failed cases are left out of the counts.
CountCompleted(outcomes, label) ==
  Cardinality({i \in DOMAIN outcomes : outcomes[i].label = label /\ ~outcomes[i].failed})

Count(outcomes, label) == Cardinality({i \in DOMAIN outcomes : outcomes[i].label = label})

\* summarize_outcomes.
Summary(outcomes, weights) ==
  LET latencies == [i \in DOMAIN outcomes |-> outcomes[i].latency] IN
  [cases |-> Len(outcomes),
   completed |-> Cardinality({i \in DOMAIN outcomes : ~outcomes[i].failed}),
   failed |-> Cardinality({i \in DOMAIN outcomes : outcomes[i].failed}),
   mean |-> WeightedMean([i \in DOMAIN outcomes |-> outcomes[i].value],
                         [i \in DOMAIN outcomes |-> SourceWeight(weights, outcomes[i].src)]),
   p50 |-> Percentile(latencies, 50),
   p95 |-> Percentile(latencies, 95),
   labels |-> [label \in Labels |-> Count(outcomes, label)]]

-----------------------------------------------------------------------------
(* The comparison of two runs.  A run has its configuration and, for each *)
(* case it has a result of, the three metrics.                             *)

NoValue == "null"

\* merge_config_snapshot, and the dataset that create_eval_run writes over it.
Snapshot(base, overrides, dataset) ==
  [key \in DOMAIN base \cup DOMAIN overrides \cup {"dataset_id"} |->
    IF key = "dataset_id" THEN dataset
    ELSE IF key \in DOMAIN overrides THEN overrides[key] ELSE base[key]]

\* A key that is not there reads as null.
Get(config, key) == IF key \in DOMAIN config THEN config[key] ELSE NoValue

\* _config_diff.
ConfigDiff(before, after) ==
  [key \in {key \in DOMAIN before \cup DOMAIN after : Get(before, key) # Get(after, key)} |->
    [baseline |-> Get(before, key), current |-> Get(after, key)]]

\* _result_values: a case without a result scores zero.
ResultValues(results, case) == IF case \in DOMAIN results THEN results[case] ELSE <<0, 0, 0>>

\* MUTANT of Delta: the change of recall alone decides.
DeltaOfRecall(before, after, case) ==
  ResultValues(after, case)[1] - ResultValues(before, case)[1]

Delta(before, after, case) ==
  Total(ResultValues(after, case)) - Total(ResultValues(before, case))

\* compare_runs: the cases of either run, though its docstring speaks of "every case that
\* exists in both runs".
CompareRuns(baseline, current) ==
  LET Of(sign) == {case \in DOMAIN baseline.results \cup DOMAIN current.results :
                    sign * Delta(baseline.results, current.results, case) > 0}
  IN [improved |-> Of(1), regressed |-> Of(-1),
      diff |-> ConfigDiff(baseline.config, current.config)]

-----------------------------------------------------------------------------
(* Properties.                                                             *)

\* The three metrics of a case agree: one is zero exactly when the others are, none
\* exceeds one before it is cut off there, and NDCG is one exactly when as many of the
\* first k results as can be are expected ones, and come first.
MetricsAgree(retrieved, expected, k) ==
  LET recall == Recall(retrieved, expected, k)
      mrr == ReciprocalRank(retrieved, expected, k)
      ndcg == Ndcg(retrieved, expected, k)
      ideal == 1..Min({k, Cardinality(expected)})
  IN /\ (recall[1] = 0) = (mrr[1] = 0) /\ (mrr[1] = 0) = (ndcg[1] = 0)
     /\ recall[1] <= recall[2] /\ ndcg[1] <= ndcg[2]
     /\ ideal # {} => (ndcg[1] = ndcg[2] <=> ideal \subseteq Positions(retrieved, expected, k))

\* The label of a case says what its metrics say, as long as everything retrieved was
\* in the library when the run loaded it.
AttributionAgrees(retrieved, distance, expected, known) ==
  LET label == Attribution(retrieved, distance, expected, known)
      mrr == ReciprocalRank(retrieved, expected, Len(retrieved))
  IN /\ label \in {"not_in_kb", "not_recalled"} <=> mrr[1] = 0
     /\ label = "low_rank" => mrr[2] > 3
     /\ label = "hit" => mrr[2] <= 3

\* A summary adds up: every case has one label and one ending, a percentile is the
\* least latency that so many cases do not exceed, and if no weight is negative, a mean
\* lies between the least and the greatest value of the cases that count.
SummaryAddsUp(outcomes, weights) ==
  LET s == Summary(outcomes, weights)
      Weight(i) == SourceWeight(weights, outcomes[i].src)
      values == {outcomes[i].value : i \in {i \in DOMAIN outcomes : Weight(i) > 0}}
      Within(l) == Cardinality({i \in DOMAIN outcomes : outcomes[i].latency <= l})
      Nearest(p, l) == /\ 100 * Within(l) >= p * s.cases
                       /\ 100 * Within(l - 1) < p * s.cases
  IN outcomes # <<>> =>
       /\ SumFunction(s.labels) = s.cases
       /\ s.completed + s.failed = s.cases
       /\ Nearest(50, s.p50) /\ Nearest(95, s.p95)
       /\ (\A i \in DOMAIN outcomes : Weight(i) >= 0) =>
            IF values = {} THEN s.mean[1] = 0
            ELSE /\ Min(values) * s.mean[2] <= s.mean[1]
                 /\ s.mean[1] <= Max(values) * s.mean[2]

\* The three means of a summary together, for cases of these sources.
Means(results, weights, sources) ==
  LET Mean(m) == WeightedMean([case \in DOMAIN results |-> results[case][m]],
                              [case \in DOMAIN results |-> SourceWeight(weights, sources[case])])
  IN Total(<<Mean(1)[1], Mean(2)[1], Mean(3)[1]>>)

\* A comparison explains what it shows of two runs over the same cases, by the same
\* weights: summaries do not fall together unless a case regressed, nor rise unless one
\* improved.  And runs over different datasets differ at least in that, whatever they
\* override.
ComparisonExplains(baseline, current, weights, sources) ==
  LET verdicts == CompareRuns(baseline, current)
      before == Means(baseline.results, weights, sources)
      after == Means(current.results, weights, sources)
      cases == DOMAIN baseline.results
  IN /\ /\ DOMAIN current.results = cases
        /\ \A case \in cases : SourceWeight(weights, sources[case]) >= 0
        => /\ after < before => verdicts.regressed # {}
           /\ after > before => verdicts.improved # {}
     /\ baseline.dataset # current.dataset => "dataset_id" \in DOMAIN verdicts.diff
=============================================================================
