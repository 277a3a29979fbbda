------------------------------ MODULE EvalRuns ------------------------------
(***************************************************************************)
(* Evaluation runs over a dataset: the request that creates and queues a   *)
(* run (enqueue_eval_run), the job that executes it (evaluate_run,         *)
(* run_evaluation) and the ARQ worker around that job.                     *)
(***************************************************************************)
EXTENDS EvalDataset

CONSTANTS
  Runs,    \* identities for eval_runs rows
  Faults   \* what may go wrong

\* "redis": the queue refuses a job; "reply": Redis or PostgreSQL does what it is
\* asked, and the caller sees an error; "retriever", "database": a retrieval fails
\* before or inside a statement; "outage": a failure cannot be recorded; "abort":
\* a request dies; "timeout", "stop": the job or the worker is cut short.
ASSUME FaultsAssumption ==
  Faults \subseteq {"redis", "reply", "retriever", "database", "outage", "abort",
                    "timeout", "stop"}

VARIABLES
  run,      \* eval_runs: status, whether there is an error message, summary
  results,  \* eval_results: the committed row of each run and case
  asked,    \* the run a request has created
  job,      \* ARQ: the job of a run
  step,     \* where run_evaluation is
  listed,   \* the cases it has selected
  outcome,  \* the rows it has added to its session
  broken,   \* its transaction is aborted
  up        \* the worker process is running

history == <<run, results>>
execution == <<step, listed, outcome, broken>>
vars == <<dataset, pc, transaction, history, asked, job, execution, up>>

RunStatus == {"absent", "queued", "running", "completed", "failed"}
Outcome == {"none", "hit", "miss", "error"}
Summary == [cases : Nat, hits : Nat, failed : Nat]
ASSUME NoneAssumption == None \notin Runs \cup Summary

Run == [status : RunStatus, message : BOOLEAN, summary : Summary \cup {None}]

NoRun == [status |-> "absent", message |-> FALSE, summary |-> None]
NoResults == [k \in Cases |-> "none"]

Steps == {"idle", "start", "list", "evaluate", "fail", "done"}

TypeOK ==
  /\ DatasetTypeOK
  /\ pc \in [Clients -> {"idle", "load", "write", "count", "commit", "enqueue", "fail"}]
  /\ run \in [Runs -> Run]
  /\ results \in [Runs -> [Cases -> Outcome]]
  /\ asked \in [Clients -> Runs \cup {None}]
  /\ job \in [Runs -> {"none", "queued", "running", "interrupted"}]
  /\ step \in [Runs -> Steps]
  /\ listed \in [Runs -> SUBSET Cases]
  /\ outcome \in [Runs -> [Cases -> Outcome]]
  /\ broken \in [Runs -> BOOLEAN]
  /\ up \in BOOLEAN

Init ==
  /\ DatasetInit
  /\ pc = [c \in Clients |-> "idle"]
  /\ run = [r \in Runs |-> NoRun]
  /\ results = [r \in Runs |-> NoResults]
  /\ asked = [c \in Clients |-> None]
  /\ job = [r \in Runs |-> "none"]
  /\ step = [r \in Runs |-> "idle"]
  /\ listed = [r \in Runs |-> {}]
  /\ outcome = [r \in Runs |-> NoResults]
  /\ broken = [r \in Runs |-> FALSE]
  /\ up = TRUE

-----------------------------------------------------------------------------
(* enqueue_eval_run.                                                       *)

\* Runs bounds how many there can be: a request is made while one is left for it.
RequestRun(c) ==
  /\ BeginRun(c)
  /\ Cardinality({b \in Clients : kind[b] = "run"})
       < Cardinality({r \in Runs : run[r].status = "absent"})
  /\ UNCHANGED <<history, asked, job, execution, up>>

Answer(c) == Go(c, "idle") /\ asked' = [asked EXCEPT ![c] = None]

\* create_eval_run and its commit: the row is durable before any job exists.
CreateRun(c) ==
  /\ pc[c] = "commit" /\ kind[c] = "run"
  /\ CommitDataset(c)
  /\ Close(c)
  /\ \E r \in Runs :
       /\ run[r].status = "absent"
       /\ run' = [run EXCEPT ![r].status = "queued"]
       /\ asked' = [asked EXCEPT ![c] = r]
  /\ Go(c, "enqueue")
  /\ UNCHANGED <<results, job, execution, up>>

\* enqueue_job succeeds.  The job id derives from the run, which no other
\* request knows, so it is never a duplicate.
Enqueue(c) ==
  /\ pc[c] = "enqueue"
  /\ job' = [job EXCEPT ![asked[c]] = "queued"]
  /\ Answer(c)
  /\ UNCHANGED <<dataset, transaction, history, execution, up>>

\* It raises, whether Redis has the job or not.
EnqueueError(c) ==
  /\ pc[c] = "enqueue"
  /\ \/ "redis" \in Faults /\ UNCHANGED job
     \/ "reply" \in Faults /\ job' = [job EXCEPT ![asked[c]] = "queued"]
  /\ Go(c, "fail")
  /\ UNCHANGED <<dataset, transaction, history, asked, execution, up>>

\* What fail_evaluation_run leaves of run r, whatever the row is by then.
Failed(r) == [run EXCEPT ![r].status = "failed", ![r].message = TRUE]

\* MUTANT of FailQueued: the failure is set on the row and not committed.
FailQueuedUncommitted(c) ==
  /\ pc[c] = "fail"
  /\ Answer(c)
  /\ UNCHANGED <<dataset, transaction, history, job, execution, up>>

\* MUTANT of FailQueued: the status alone is set.
FailQueuedSilently(c) ==
  /\ pc[c] = "fail"
  /\ run' = [run EXCEPT ![asked[c]].status = "failed"]
  /\ Answer(c)
  /\ UNCHANGED <<dataset, transaction, results, job, execution, up>>

\* The request records that its run could not be queued.
FailQueued(c) ==
  /\ pc[c] = "fail"
  /\ run' = Failed(asked[c])
  /\ Answer(c)
  /\ UNCHANGED <<dataset, transaction, results, job, execution, up>>

\* The request dies or loses its connection: its transaction is rolled back.
Abort(c) ==
  /\ pc[c] # "idle"
  /\ "abort" \in Faults \/ ("outage" \in Faults /\ pc[c] = "fail")
  /\ Close(c)
  /\ Answer(c)
  /\ UNCHANGED <<dataset, history, job, execution, up>>

-----------------------------------------------------------------------------
(* evaluate_run.                                                           *)

At(r, s) == step' = [step EXCEPT ![r] = s]

JobStart(r) ==
  /\ up /\ job[r] = "queued"
  /\ job' = [job EXCEPT ![r] = "running"]
  /\ At(r, "start")
  /\ UNCHANGED <<dataset, pc, transaction, history, asked, listed, outcome, broken, up>>

\* run_evaluation commits RUNNING, whatever the status was.
MarkRunning(r) ==
  /\ step[r] = "start"
  /\ run' = [run EXCEPT ![r].status = "running"]
  /\ At(r, "list")
  /\ UNCHANGED <<dataset, pc, transaction, results, asked, job, listed, outcome, broken, up>>

\* It selects the active cases ...
ListCases(r) ==
  /\ step[r] = "list"
  /\ listed' = [listed EXCEPT ![r] = Active]
  /\ At(r, "evaluate")
  /\ UNCHANGED <<dataset, pc, transaction, history, asked, job, outcome, broken, up>>

\* MUTANT of EvaluateCase: each row is committed as it is added, to show progress.
EvaluateCaseCommitting(r) ==
  /\ step[r] = "evaluate"
  /\ \E k \in listed[r], o \in {"hit", "miss", "error"} :
       /\ outcome[r][k] = "none"
       /\ outcome' = [outcome EXCEPT ![r][k] = o]
       /\ results' = [results EXCEPT ![r][k] = o]
  /\ UNCHANGED <<dataset, pc, transaction, run, asked, job, step, listed, broken, up>>

\* ... and evaluates one after the other.  A retrieval that raises is one row;
\* when a statement raised, the transaction is aborted, and so is every later one.
EvaluateCase(r) ==
  /\ step[r] = "evaluate"
  /\ \E k \in listed[r], o \in {"hit", "miss", "error"} :
       /\ outcome[r][k] = "none"
       /\ broken[r] => o = "error"
       /\ outcome' = [outcome EXCEPT ![r][k] = o]
       /\ \/ o # "error" /\ UNCHANGED broken
          \/ o = "error" /\ "retriever" \in Faults /\ UNCHANGED broken
          \/ o = "error" /\ "database" \in Faults /\ broken' = [broken EXCEPT ![r] = TRUE]
  /\ UNCHANGED <<dataset, pc, transaction, history, asked, job, step, listed, up>>

\* summarize_outcomes.
Summarize(o) ==
  [cases |-> Cardinality({k \in Cases : o[k] # "none"}),
   hits |-> Cardinality({k \in Cases : o[k] = "hit"}),
   failed |-> Cardinality({k \in Cases : o[k] = "error"})]

\* MUTANT of CompleteRun: the active cases are selected again at the end.
CompleteRunReselecting(r) ==
  /\ step[r] = "evaluate" /\ ~broken[r]
  /\ \A k \in listed[r] \cap Active : outcome[r][k] # "none"
  /\ results' = [results EXCEPT ![r] = outcome[r]]
  /\ run' = [run EXCEPT ![r].status = "completed", ![r].summary = Summarize(outcome[r])]
  /\ At(r, "done")
  /\ UNCHANGED <<dataset, pc, transaction, asked, job, listed, outcome, broken, up>>

\* The results, the summary and COMPLETED, in one commit.
CompleteRun(r) ==
  /\ step[r] = "evaluate" /\ ~broken[r]
  /\ \A k \in listed[r] : outcome[r][k] # "none"
  /\ results' = [results EXCEPT ![r] = outcome[r]]
  /\ run' = [run EXCEPT ![r].status = "completed", ![r].summary = Summarize(outcome[r])]
  /\ At(r, "done") \/ ("reply" \in Faults /\ At(r, "fail"))
  /\ UNCHANGED <<dataset, pc, transaction, asked, job, listed, outcome, broken, up>>

\* Anything outside the loop's try raises: a statement, a flush, the commit.  The
\* session is rolled back.
RaiseError(r) ==
  /\ step[r] \in {"start", "list", "evaluate"}
  /\ broken[r] \/ "database" \in Faults
  /\ At(r, "fail")
  /\ UNCHANGED <<dataset, pc, transaction, history, asked, job, listed, outcome, broken, up>>

\* MUTANT of FailRun: the rows of a failed run are cleaned up.
FailRunCleaning(r) ==
  /\ step[r] = "fail"
  /\ run' = [Failed(r) EXCEPT ![r].summary = None]
  /\ results' = [results EXCEPT ![r] = NoResults]
  /\ At(r, "done")
  /\ UNCHANGED <<dataset, pc, transaction, asked, job, listed, outcome, broken, up>>

FailRun(r) ==
  /\ step[r] = "fail"
  /\ \/ run' = Failed(r)
     \/ "outage" \in Faults /\ UNCHANGED run
  /\ At(r, "done")
  /\ UNCHANGED <<dataset, pc, transaction, results, asked, job, listed, outcome, broken, up>>

-----------------------------------------------------------------------------
(* ARQ.                                                                    *)

\* The local variables and sessions of the jobs in R are gone.
Forget(R) ==
  /\ step' = [r \in Runs |-> IF r \in R THEN "idle" ELSE step[r]]
  /\ listed' = [r \in Runs |-> IF r \in R THEN {} ELSE listed[r]]
  /\ outcome' = [r \in Runs |-> IF r \in R THEN NoResults ELSE outcome[r]]
  /\ broken' = [r \in Runs |-> r \notin R /\ broken[r]]

\* The job returns, or job_timeout cancels it: CancelledError is not an Exception,
\* so evaluate_run records nothing.
JobFinish(r) ==
  /\ step[r] # "idle"
  /\ step[r] = "done" \/ "timeout" \in Faults
  /\ Forget({r})
  /\ job' = [job EXCEPT ![r] = "none"]
  /\ UNCHANGED <<dataset, pc, transaction, history, asked, up>>

WorkerStop ==
  /\ "stop" \in Faults /\ up
  /\ up' = FALSE
  /\ Forget(Runs)
  /\ job' = [r \in Runs |-> IF job[r] = "running" THEN "interrupted" ELSE job[r]]
  /\ UNCHANGED <<dataset, pc, transaction, history, asked>>

\* The worker is back; its on_startup enqueues sources only.
WorkerStart ==
  /\ ~up
  /\ up' = TRUE
  /\ UNCHANGED <<dataset, pc, transaction, history, asked, job, execution>>

\* MUTANT of JobRefused: the interrupted job is tried again.
JobRetried(r) ==
  /\ up /\ job[r] = "interrupted"
  /\ job' = [job EXCEPT ![r] = "queued"]
  /\ UNCHANGED <<dataset, pc, transaction, history, asked, execution, up>>

\* The second try of an interrupted job, which max_tries = 1 refuses.
JobRefused(r) ==
  /\ up /\ job[r] = "interrupted"
  /\ job' = [job EXCEPT ![r] = "none"]
  /\ UNCHANGED <<dataset, pc, transaction, history, asked, execution, up>>

-----------------------------------------------------------------------------
EditCases(c) == DatasetStep(c) /\ UNCHANGED <<history, asked, job, execution, up>>

RequestStep(c) ==
  EditCases(c) \/ RequestRun(c) \/ CreateRun(c) \/ Enqueue(c) \/ EnqueueError(c) \/ FailQueued(c) \/ Abort(c)

JobStep(r) ==
  \/ JobStart(r) \/ MarkRunning(r) \/ ListCases(r) \/ EvaluateCase(r) \/ CompleteRun(r)
  \/ RaiseError(r) \/ FailRun(r) \/ JobFinish(r) \/ JobRefused(r)

Next ==
  \/ \E c \in Clients : RequestStep(c)
  \/ \E r \in Runs : JobStep(r)
  \/ WorkerStop \/ WorkerStart

Spec == Init /\ [][Next]_vars

-----------------------------------------------------------------------------
(* Fairness.  A request or job that can go on does, and the worker is       *)
(* started again; a review waits for a row lock, which PostgreSQL grants in *)
(* order of arrival, hence strong fairness.  Nothing is obliged to be       *)
(* requested or to fail.                                                    *)

AdvanceRequest(c) ==
  \/ (pc[c] # "idle" /\ EditCases(c))
  \/ CreateRun(c) \/ Enqueue(c) \/ FailQueued(c)

AdvanceJob(r) ==
  \/ JobStart(r) \/ MarkRunning(r) \/ ListCases(r) \/ EvaluateCase(r) \/ CompleteRun(r)
  \/ (broken[r] /\ RaiseError(r))
  \/ FailRun(r) \/ JobRefused(r)
  \/ (step[r] = "done" /\ JobFinish(r))

Fairness ==
  /\ \A c \in Clients : SF_vars(AdvanceRequest(c))
  /\ \A r \in Runs : WF_vars(AdvanceJob(r))
  /\ WF_vars(WorkerStart)

FairSpec == Spec /\ Fairness

-----------------------------------------------------------------------------
(* Properties.                                                             *)

\* A run's summary and its result rows are there together and agree, whatever fails
\* during the run and however often its status is overwritten: a run without a
\* summary has no rows, and a completed one has both.
ReportMatchesResults ==
  \A r \in Runs :
    /\ run[r].summary = None => results[r] = NoResults /\ run[r].status # "completed"
    /\ run[r].summary # None => run[r].summary = Summarize(results[r])

\* A run completes with one row for each case that was active when it selected them:
\* a retrieval that failed has its row, and a review during the run changes nothing.
OneRowPerCase ==
  [][\A r \in Runs :
       run[r].status # "completed" /\ run'[r].status = "completed" =>
         listed[r] = {k \in Cases : results'[r][k] # "none"}]_vars

\* Results are kept: neither a review of their cases nor another writer of the run
\* changes a row once it is there.
ResultsAreKept ==
  [][\A r \in Runs, k \in Cases :
       results[r][k] # "none" => results'[r][k] = results[r][k]]_vars

\* A run is what RunLife promises, as long as no operation that took effect is
\* reported as failed.
Life == INSTANCE RunLife WITH
          Reports <- [Cases -> Outcome], NoReport <- NoResults,
          stage <- [r \in Runs |-> run[r].status],
          report <- results,
          message <- [r \in Runs |-> run[r].message]
LifeSpec == Life!LifeSpec

\* A requested run ends, completed or failed.
RunsEnd ==
  \A r \in Runs : run[r].status = "queued" ~> run[r].status \in {"completed", "failed"}

\* While no request is changing the dataset, its cached count is the number of its
\* active cases.
CountIsActive ==
  (\A c \in Clients : kind[c] = "none") => caseCount = Cardinality(Active)
=============================================================================
