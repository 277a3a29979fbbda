---------------------------- MODULE EvalProofs ----------------------------
(***************************************************************************)
(* Theorems of EvalRuns, for every set of requests, cases and runs and all *)
(* faults.  EvalInv holds the inductive invariants.  And EvalRuns          *)
(* implements RunLife, with all faults but the lost reply, with which it   *)
(* does not.                                                               *)
(***************************************************************************)
EXTENDS EvalInv, FiniteSetTheorems, TLAPS

\* Counts of cases are numbers.
LEMMA CountNat ==
  ASSUME NEW K \in SUBSET Cases
  PROVE  Cardinality(K) \in Nat
BY CasesAssumption, FS_Subset, FS_CardinalityType

-----------------------------------------------------------------------------
(* Types.                                                                  *)

\* A commit and the end of its session keep the dataset's types.
LEMMA CommitTyped ==
  ASSUME DatasetTypeOK, NEW c \in Clients, CommitDataset(c), Close(c)
  PROVE  DatasetTypeOK'
<1> USE DEF DatasetTypeOK
<1>1. cases' \in [Cases -> CaseState] /\ caseCount' \in Nat
  BY DEF CommitDataset, Seen
<1>2. NoCases \in [Cases -> CaseState] /\ NoEdit \in Edits
  BY DEF NoCases, NoEdit, Edits, CaseState
<1> QED BY <1>1, <1>2 DEF Close

\* A change of the dataset keeps the types of everything it touches.
LEMMA EditTyped ==
  ASSUME TypeOK, NEW c \in Clients, EditCases(c) \/ RequestRun(c)
  PROVE  TypeOK'
<1> USE DEF TypeOK, DatasetTypeOK, Go, dataset, history, execution
<1>1. UNCHANGED <<history, asked, job, execution, up>>
  BY DEF EditCases, RequestRun
<1>2. CASE BeginAdd(c)
  BY <1>1, <1>2 DEF BeginAdd, Edits, CaseState
<1>3. CASE BeginReview(c)
  BY <1>1, <1>3 DEF BeginReview, Edits, CaseState
<1>4. CASE BeginRun(c)
  BY <1>1, <1>4 DEF BeginRun
<1>5. CASE LoadDataset(c)
  BY <1>1, <1>5 DEF LoadDataset
<1>6. CASE WriteCases(c)
  BY <1>1, <1>6 DEF WriteCases, Edits, CaseState
<1>7. CASE CountCases(c)
  <2>1. Cardinality({k \in Cases : Seen(c)[k] = "active"}) \in Nat
    BY CountNat
  <2> QED BY <1>1, <1>7, <2>1 DEF CountCases
<1>8. CASE CommitCases(c)
  BY <1>1, <1>8, CommitTyped DEF CommitCases
<1> QED BY <1>2, <1>3, <1>4, <1>5, <1>6, <1>7, <1>8 DEF EditCases, RequestRun, DatasetStep

\* What leaves the dataset alone leaves its types alone.
LEMMA DatasetSame ==
  ASSUME DatasetTypeOK, UNCHANGED <<dataset, transaction>>
  PROVE  DatasetTypeOK'
BY DEF DatasetTypeOK, dataset, transaction

\* Each of the writes to a run's row leaves a row.
LEMMA RowTyped ==
  ASSUME run \in [Runs -> Run], NEW r \in Runs
  PROVE  /\ \A st \in RunStatus : [run EXCEPT ![r].status = st] \in [Runs -> Run]
         /\ Failed(r) \in [Runs -> Run]
         /\ \A y \in Summary :
              [run EXCEPT ![r].status = "completed", ![r].summary = y] \in [Runs -> Run]
<1>1. \A st \in RunStatus : [run EXCEPT ![r].status = st] \in [Runs -> Run]
  BY DEF Run
<1>2. Failed(r) \in [Runs -> Run]
  <2> DEFINE x == [run EXCEPT ![r].status = "failed"]
  <2>1. x \in [Runs -> Run]
    BY <1>1 DEF RunStatus
  <2>2. Failed(r) = [x EXCEPT ![r].message = TRUE]
    BY DEF Failed
  <2> QED BY <2>1, <2>2 DEF Run
<1>3. ASSUME NEW y \in Summary
      PROVE  [run EXCEPT ![r].status = "completed", ![r].summary = y] \in [Runs -> Run]
  <2> DEFINE x == [run EXCEPT ![r].status = "completed"]
  <2>1. x \in [Runs -> Run]
    BY <1>1 DEF RunStatus
  <2>2. [x EXCEPT ![r].summary = y] \in [Runs -> Run]
    BY <2>1 DEF Run
  <2> QED BY <2>2
<1> QED BY <1>1, <1>2, <1>3

\* Forgetting jobs keeps the types of what they knew.
LEMMA ForgetTyped ==
  ASSUME TypeOK, NEW R \in SUBSET Runs, Forget(R)
  PROVE  /\ step' \in [Runs -> Steps] /\ listed' \in [Runs -> SUBSET Cases]
         /\ outcome' \in [Runs -> [Cases -> Outcome]] /\ broken' \in [Runs -> BOOLEAN]
<1>1. NoResults \in [Cases -> Outcome] /\ "idle" \in Steps
  BY DEF NoResults, Outcome, Steps
<1> QED BY <1>1 DEF TypeOK, Forget

\* So does every step.
LEMMA TypeStep == TypeOK /\ RequestKnows /\ [Next]_vars => TypeOK'
<1> SUFFICES ASSUME TypeOK, RequestKnows, [Next]_vars PROVE TypeOK'
  OBVIOUS
<1> USE DEF TypeOK, Go, history, execution
<1>1. ASSUME NEW c \in Clients, RequestStep(c) PROVE TypeOK'
  <2>1. CASE EditCases(c) \/ RequestRun(c)
    BY <2>1, EditTyped
  <2>2. CASE CreateRun(c)
    <3>1. DatasetTypeOK'
      BY <2>2, CommitTyped DEF CreateRun
    <3>2. PICK r \in Runs : /\ run' = [run EXCEPT ![r].status = "queued"]
                            /\ asked' = [asked EXCEPT ![c] = r]
      BY <2>2 DEF CreateRun
    <3>3. run' \in [Runs -> Run]
      BY <3>2, RowTyped DEF RunStatus
    <3>4. pc' = [pc EXCEPT ![c] = "enqueue"] /\ UNCHANGED <<results, job, execution, up>>
      BY <2>2 DEF CreateRun
    <3> QED BY <3>1, <3>2, <3>3, <3>4
  <2>3. CASE Enqueue(c) \/ EnqueueError(c)
    <3>1. DatasetTypeOK'
      BY <2>3, DatasetSame DEF Enqueue, EnqueueError
    <3> QED BY <2>3, <3>1 DEF Enqueue, EnqueueError, Answer
  <2>4. CASE FailQueued(c)
    <3>1. asked[c] \in Runs /\ run' = Failed(asked[c])
      BY <2>4 DEF FailQueued, RequestKnows
    <3>2. run' \in [Runs -> Run]
      BY <3>1, RowTyped
    <3>3. DatasetTypeOK'
      BY <2>4, DatasetSame DEF FailQueued
    <3> QED BY <2>4, <3>2, <3>3 DEF FailQueued, Answer
  <2>5. CASE Abort(c)
    <3>1. DatasetTypeOK'
      BY <2>5 DEF Abort, Close, NoCases, NoEdit, Edits, CaseState, DatasetTypeOK, dataset
    <3> QED BY <2>5, <3>1 DEF Abort, Answer
  <2> QED BY <1>1, <2>1, <2>2, <2>3, <2>4, <2>5 DEF RequestStep
<1>2. ASSUME NEW r \in Runs, JobStep(r) PROVE TypeOK'
  <2>0. DatasetTypeOK'
    BY <1>2, DatasetSame
       DEF JobStep, JobStart, MarkRunning, ListCases, EvaluateCase, CompleteRun, RaiseError,
           FailRun, JobFinish, JobRefused
  <2>1. CASE JobStart(r) \/ RaiseError(r) \/ JobRefused(r)
    BY <2>0, <2>1 DEF JobStart, RaiseError, JobRefused, At, Steps
  <2>2. CASE ListCases(r)
    BY <2>0, <2>2 DEF ListCases, At, Steps, Active
  <2>3. CASE EvaluateCase(r)
    <3>1. outcome' \in [Runs -> [Cases -> Outcome]]
      BY <2>3 DEF EvaluateCase, Outcome
    <3>2. broken' \in [Runs -> BOOLEAN]
      BY <2>3 DEF EvaluateCase
    <3> QED BY <2>0, <2>3, <3>1, <3>2 DEF EvaluateCase
  <2>4. CASE MarkRunning(r)
    <3>1. run' = [run EXCEPT ![r].status = "running"]
      BY <2>4 DEF MarkRunning
    <3>2. run' \in [Runs -> Run]
      BY <3>1, RowTyped DEF RunStatus
    <3> QED BY <2>0, <2>4, <3>2 DEF MarkRunning, At, Steps
  <2>5. CASE CompleteRun(r)
    <3>1. Summarize(outcome[r]) \in Summary
      BY CountNat DEF Summarize, Summary
    <3>2. run' \in [Runs -> Run]
      BY <2>5, <3>1, RowTyped DEF CompleteRun
    <3>3. results' \in [Runs -> [Cases -> Outcome]]
      BY <2>5 DEF CompleteRun
    <3> QED BY <2>0, <2>5, <3>2, <3>3 DEF CompleteRun, At, Steps
  <2>6. CASE FailRun(r)
    <3>1. run' = Failed(r) \/ run' = run
      BY <2>6 DEF FailRun
    <3>2. run' \in [Runs -> Run]
      <4>1. run \in [Runs -> Run]
        OBVIOUS
      <4> HIDE DEF TypeOK
      <4>2. Failed(r) \in [Runs -> Run]
        BY <4>1, RowTyped
      <4> QED BY <3>1, <4>1, <4>2
    <3> QED BY <2>0, <2>6, <3>2 DEF FailRun, At, Steps
  <2>7. CASE JobFinish(r)
    <3>1. Forget({r})
      BY <2>7 DEF JobFinish
    <3>2. /\ step' \in [Runs -> Steps] /\ listed' \in [Runs -> SUBSET Cases]
          /\ outcome' \in [Runs -> [Cases -> Outcome]] /\ broken' \in [Runs -> BOOLEAN]
      <4>1. {r} \in SUBSET Runs
        OBVIOUS
      <4> HIDE DEF TypeOK
      <4> QED BY <3>1, <4>1, ForgetTyped
    <3> QED BY <2>0, <2>7, <3>2 DEF JobFinish
  <2> QED BY <1>2, <2>1, <2>2, <2>3, <2>4, <2>5, <2>6, <2>7 DEF JobStep
<1>3. CASE WorkerStop
  <2>1. DatasetTypeOK'
    BY <1>3, DatasetSame DEF WorkerStop
  <2>2. Forget(Runs)
    BY <1>3 DEF WorkerStop
  <2>3. /\ step' \in [Runs -> Steps] /\ listed' \in [Runs -> SUBSET Cases]
        /\ outcome' \in [Runs -> [Cases -> Outcome]] /\ broken' \in [Runs -> BOOLEAN]
    <3> HIDE DEF TypeOK
    <3> QED BY <2>2, ForgetTyped
  <2> QED BY <1>3, <2>1, <2>3 DEF WorkerStop
<1>4. CASE WorkerStart \/ UNCHANGED vars
  <2>1. DatasetTypeOK'
    BY <1>4, DatasetSame DEF WorkerStart, vars
  <2> QED BY <1>4, <2>1 DEF WorkerStart, vars
<1> QED BY <1>1, <1>2, <1>3, <1>4 DEF Next

-----------------------------------------------------------------------------
(* What the steps leave alone.                                             *)

\* An edit of the dataset is not seen by any run.
LEMMA EditFrame ==
  ASSUME TypeOK, NEW c \in Clients, EditCases(c) \/ RequestRun(c)
  PROVE  /\ UNCHANGED <<run, results, asked, job, step, listed, outcome, broken, up>>
         /\ \A b \in Clients, p \in {"enqueue", "fail"} : pc'[b] = p <=> pc[b] = p
<1>1. UNCHANGED <<run, results, asked, job, step, listed, outcome, broken, up>>
  BY DEF EditCases, RequestRun, history, execution
<1>2. \E p \in {"idle", "load", "write", "count", "commit"} :
        pc' = [pc EXCEPT ![c] = p] /\ pc[c] \notin {"enqueue", "fail"}
  BY DEF EditCases, RequestRun, DatasetStep, BeginAdd, BeginReview, BeginRun, LoadDataset,
         WriteCases, CountCases, CommitCases, Go
<1>3. pc \in [Clients -> {"idle", "load", "write", "count", "commit", "enqueue", "fail"}]
  BY DEF TypeOK
<1> QED BY <1>1, <1>2, <1>3

\* A request touches the row of the run it has asked for, or of a new one.
LEMMA CreateEffect ==
  ASSUME TypeOK, NEW c \in Clients, CreateRun(c)
  PROVE  \E r \in Runs :
           /\ run[r].status = "absent"
           /\ run'[r] = [run[r] EXCEPT !.status = "queued"]
           /\ \A q \in Runs \ {r} : run'[q] = run[q]
           /\ asked' = [asked EXCEPT ![c] = r]
           /\ pc' = [pc EXCEPT ![c] = "enqueue"]
           /\ pc[c] = "commit"
           /\ UNCHANGED <<results, job, step, listed, outcome, broken, up>>
<1>1. PICK r \in Runs : /\ run[r].status = "absent"
                        /\ run' = [run EXCEPT ![r].status = "queued"]
                        /\ asked' = [asked EXCEPT ![c] = r]
  BY DEF CreateRun
<1>2. pc' = [pc EXCEPT ![c] = "enqueue"] /\ pc[c] = "commit"
  BY DEF CreateRun, Go
<1>3. UNCHANGED <<results, job, step, listed, outcome, broken, up>>
  BY DEF CreateRun, execution
<1>4. run \in [Runs -> Run]
  BY DEF TypeOK
<1>5. run'[r] = [run[r] EXCEPT !.status = "queued"] /\ \A q \in Runs \ {r} : run'[q] = run[q]
  BY <1>1, <1>4
<1> QED BY <1>1, <1>2, <1>3, <1>5

\* A failure is written to one row, whose summary it keeps.
LEMMA FailedEffect ==
  ASSUME run \in [Runs -> Run], NEW r \in Runs
  PROVE  /\ Failed(r)[r] = [run[r] EXCEPT !.status = "failed", !.message = TRUE]
         /\ Failed(r)[r].status = "failed" /\ Failed(r)[r].message
         /\ Failed(r)[r].summary = run[r].summary
         /\ \A q \in Runs \ {r} : Failed(r)[q] = run[q]
<1>1. Failed(r)[r] = [run[r] EXCEPT !.status = "failed", !.message = TRUE]
  BY DEF Failed
<1>2. \A q \in Runs \ {r} : Failed(r)[q] = run[q]
  BY DEF Failed
<1>3. run[r] \in Run
  OBVIOUS
<1> QED BY <1>1, <1>2, <1>3 DEF Run

\* A job that does something has been queued, and does it to its own run.
LEMMA JobFrame ==
  ASSUME TypeOK, JobFindsNoReport, NEW r \in Runs, JobStep(r)
  PROVE  /\ UNCHANGED <<pc, asked, up>>
         /\ job[r] # "none"
         /\ \A q \in Runs \ {r} :
              /\ run'[q] = run[q] /\ results'[q] = results[q] /\ job'[q] = job[q]
              /\ step'[q] = step[q] /\ listed'[q] = listed[q] /\ outcome'[q] = outcome[q]
<1>1. UNCHANGED <<pc, asked, up>>
  BY DEF JobStep, JobStart, MarkRunning, ListCases, EvaluateCase, CompleteRun, RaiseError,
         FailRun, JobFinish, JobRefused
<1>2. job[r] # "none"
  BY DEF JobStep, JobStart, MarkRunning, ListCases, EvaluateCase, CompleteRun, RaiseError,
         FailRun, JobFinish, JobRefused, JobFindsNoReport
<1> SUFFICES ASSUME NEW q \in Runs, q # r
             PROVE  /\ run'[q] = run[q] /\ results'[q] = results[q] /\ job'[q] = job[q]
                    /\ step'[q] = step[q] /\ listed'[q] = listed[q] /\ outcome'[q] = outcome[q]
  BY <1>1, <1>2
<1> USE DEF TypeOK, history, execution, At
<1>3. CASE JobStart(r) \/ RaiseError(r) \/ JobRefused(r)
  BY <1>3 DEF JobStart, RaiseError, JobRefused
<1>4. CASE MarkRunning(r)
  BY <1>4 DEF MarkRunning
<1>5. CASE ListCases(r)
  BY <1>5 DEF ListCases
<1>6. CASE EvaluateCase(r)
  BY <1>6 DEF EvaluateCase
<1>7. CASE CompleteRun(r)
  BY <1>7 DEF CompleteRun
<1>8. CASE FailRun(r)
  BY <1>8 DEF FailRun, Failed
<1>9. CASE JobFinish(r)
  BY <1>9 DEF JobFinish, Forget
<1> QED BY <1>3, <1>4, <1>5, <1>6, <1>7, <1>8, <1>9 DEF JobStep

\* The end of the worker and its start leave the requests and the runs alone.
LEMMA WorkerFrame ==
  ASSUME TypeOK, WorkerStop \/ WorkerStart \/ UNCHANGED vars
  PROVE  /\ UNCHANGED <<pc, asked, run, results>>
         /\ \A r \in Runs : job'[r] \in {"none", "queued"} \/ job[r] \in {"none", "queued"}
                              => job'[r] = job[r]
         /\ \A r \in Runs :
              \/ step'[r] = "idle" /\ listed'[r] = {} /\ outcome'[r] = NoResults
              \/ /\ step'[r] = step[r] /\ listed'[r] = listed[r] /\ outcome'[r] = outcome[r]
                 /\ job'[r] = job[r]
<1> USE DEF TypeOK, history, execution
<1>1. CASE WorkerStop
  BY <1>1 DEF WorkerStop, Forget
<1>2. CASE WorkerStart \/ UNCHANGED vars
  BY <1>2 DEF WorkerStart, vars
<1> QED BY <1>1, <1>2

-----------------------------------------------------------------------------
(* What a request knows of its run.                                        *)

Bonds == TypeOK /\ RequestKnows /\ OneRequest /\ AbsentIsBlank /\ JobFindsNoReport

\* Nobody else touches a run that has not been queued.
LEMMA KnowStep == Bonds /\ [Next]_vars => RequestKnows'
<1> SUFFICES ASSUME Bonds, [Next]_vars PROVE RequestKnows'
  OBVIOUS
<1>0. /\ TypeOK /\ RequestKnows /\ OneRequest /\ AbsentIsBlank /\ JobFindsNoReport
      /\ pc \in [Clients -> {"idle", "load", "write", "count", "commit", "enqueue", "fail"}]
      /\ asked \in [Clients -> Runs \cup {None}]
      /\ run \in [Runs -> Run]
      /\ job \in [Runs -> {"none", "queued", "running", "interrupted"}]
  BY DEF Bonds, TypeOK
<1>1. ASSUME NEW c \in Clients, RequestStep(c) PROVE RequestKnows'
  <2>1. CASE EditCases(c) \/ RequestRun(c)
    BY <1>0, <2>1, EditFrame DEF RequestKnows, Untouched
  <2>2. CASE CreateRun(c)
    <3>1. PICK r \in Runs :
            /\ run[r].status = "absent"
            /\ run'[r] = [run[r] EXCEPT !.status = "queued"]
            /\ \A q \in Runs \ {r} : run'[q] = run[q]
            /\ asked' = [asked EXCEPT ![c] = r]
            /\ pc' = [pc EXCEPT ![c] = "enqueue"]
            /\ UNCHANGED job
      BY <1>0, <2>2, CreateEffect
    <3>2. Untouched(r)' /\ \A b \in Clients : asked[b] # r
      BY <1>0, <3>1 DEF AbsentIsBlank, Untouched
    <3> QED BY <1>0, <3>1, <3>2 DEF RequestKnows, Untouched
  <2>3. CASE Enqueue(c)
    <3>1. \A b \in Clients \ {c} : asked[b] \in Runs => asked[b] # asked[c]
      BY <1>0 DEF OneRequest
    <3> QED BY <1>0, <2>3, <3>1
            DEF Enqueue, Answer, Go, RequestKnows, Untouched, history
  <2>4. CASE EnqueueError(c)
    <3>1. \A b \in Clients \ {c} : asked[b] \in Runs => asked[b] # asked[c]
      BY <1>0 DEF OneRequest
    <3> QED BY <1>0, <2>4, <3>1 DEF EnqueueError, Go, RequestKnows, Untouched, history
  <2>5. CASE FailQueued(c)
    <3>1. asked[c] \in Runs /\ \A b \in Clients \ {c} : asked[b] \in Runs => asked[b] # asked[c]
      BY <1>0, <2>5 DEF OneRequest, RequestKnows, FailQueued
    <3>2. \A q \in Runs \ {asked[c]} : run'[q] = run[q]
      BY <1>0, <2>5, <3>1, FailedEffect DEF FailQueued
    <3> QED BY <1>0, <2>5, <3>1, <3>2
            DEF FailQueued, Answer, Go, RequestKnows, Untouched
  <2>6. CASE Abort(c)
    BY <1>0, <2>6 DEF Abort, Answer, Go, RequestKnows, Untouched, history
  <2> QED BY <1>1, <2>1, <2>2, <2>3, <2>4, <2>5, <2>6 DEF RequestStep
<1>2. ASSUME NEW r \in Runs, JobStep(r) PROVE RequestKnows'
  <2>1. /\ UNCHANGED <<pc, asked>> /\ job[r] # "none"
        /\ \A q \in Runs \ {r} : run'[q] = run[q] /\ job'[q] = job[q]
    BY <1>0, <1>2, JobFrame
  <2> QED BY <1>0, <2>1 DEF RequestKnows, Untouched
<1>3. CASE WorkerStop \/ WorkerStart \/ UNCHANGED vars
  BY <1>0, <1>3, WorkerFrame DEF RequestKnows, Untouched
<1> QED BY <1>1, <1>2, <1>3 DEF Next

\* A new run is asked for once.
LEMMA OneRequestStep == Bonds /\ [Next]_vars => OneRequest'
<1> SUFFICES ASSUME Bonds, [Next]_vars PROVE OneRequest'
  OBVIOUS
<1>0. /\ TypeOK /\ RequestKnows /\ OneRequest /\ AbsentIsBlank /\ JobFindsNoReport
      /\ asked \in [Clients -> Runs \cup {None}]
  BY DEF Bonds, TypeOK
<1>1. ASSUME NEW c \in Clients, RequestStep(c) PROVE OneRequest'
  <2>1. CASE CreateRun(c)
    <3>1. PICK r \in Runs : run[r].status = "absent" /\ asked' = [asked EXCEPT ![c] = r]
      BY <2>1 DEF CreateRun
    <3>2. \A b \in Clients : asked[b] # r
      BY <1>0, <3>1 DEF AbsentIsBlank
    <3> QED BY <1>0, <3>1, <3>2 DEF OneRequest
  <2>2. CASE EditCases(c) \/ RequestRun(c) \/ EnqueueError(c)
    <3>1. UNCHANGED asked
      BY <1>0, <2>2, EditFrame DEF EnqueueError
    <3> QED BY <1>0, <3>1 DEF OneRequest
  <2>3. CASE Enqueue(c) \/ FailQueued(c) \/ Abort(c)
    <3>1. asked' = [asked EXCEPT ![c] = None]
      BY <2>3 DEF Enqueue, FailQueued, Abort, Answer
    <3> QED BY <1>0, <3>1, NoneAssumption DEF OneRequest
  <2> QED BY <1>1, <2>1, <2>2, <2>3 DEF RequestStep
<1>2. ASSUME NEW r \in Runs, JobStep(r) PROVE OneRequest'
  BY <1>0, <1>2, JobFrame DEF OneRequest
<1>3. CASE WorkerStop \/ WorkerStart \/ UNCHANGED vars
  BY <1>0, <1>3, WorkerFrame DEF OneRequest
<1> QED BY <1>1, <1>2, <1>3 DEF Next

\* What a job does to the row of its run.
LEMMA JobRow ==
  ASSUME TypeOK, NEW r \in Runs, JobStep(r)
  PROVE  \/ run'[r] = run[r]
         \/ run'[r].summary = run[r].summary /\ run'[r].status \in {"running", "failed"}
         \/ CompleteRun(r) /\ run'[r].summary = Summarize(outcome[r])
                           /\ run'[r].status = "completed"
<1>1. run \in [Runs -> Run] /\ run[r] \in Run
  BY DEF TypeOK
<1>2. CASE JobStart(r) \/ RaiseError(r) \/ JobRefused(r) \/ ListCases(r) \/ EvaluateCase(r)
             \/ JobFinish(r)
  BY <1>2 DEF JobStart, RaiseError, JobRefused, ListCases, EvaluateCase, JobFinish, history
<1>3. CASE MarkRunning(r)
  <2>1. run'[r] = [run[r] EXCEPT !.status = "running"]
    BY <1>1, <1>3 DEF MarkRunning
  <2> QED BY <1>1, <2>1 DEF Run
<1>4. CASE CompleteRun(r)
  <2>1. run'[r] = [run[r] EXCEPT !.status = "completed", !.summary = Summarize(outcome[r])]
    BY <1>1, <1>4 DEF CompleteRun
  <2> QED BY <1>1, <1>4, <2>1 DEF Run
<1>5. CASE FailRun(r)
  BY <1>1, <1>5, FailedEffect DEF FailRun
<1> QED BY <1>2, <1>3, <1>4, <1>5 DEF JobStep

\* A run that is asked for, queued or executed exists.
LEMMA AbsentStep == Bonds /\ [Next]_vars => AbsentIsBlank'
<1> SUFFICES ASSUME Bonds, [Next]_vars PROVE AbsentIsBlank'
  OBVIOUS
<1>0. /\ TypeOK /\ RequestKnows /\ OneRequest /\ AbsentIsBlank /\ JobFindsNoReport
      /\ asked \in [Clients -> Runs \cup {None}]
      /\ run \in [Runs -> Run]
      /\ job \in [Runs -> {"none", "queued", "running", "interrupted"}]
  BY DEF Bonds, TypeOK
<1>1. ASSUME NEW c \in Clients, RequestStep(c) PROVE AbsentIsBlank'
  <2>1. CASE EditCases(c) \/ RequestRun(c)
    BY <1>0, <2>1, EditFrame DEF AbsentIsBlank
  <2>2. CASE CreateRun(c)
    <3>1. PICK r \in Runs :
            /\ run'[r] = [run[r] EXCEPT !.status = "queued"]
            /\ \A q \in Runs \ {r} : run'[q] = run[q]
            /\ asked' = [asked EXCEPT ![c] = r]
            /\ UNCHANGED job
      BY <1>0, <2>2, CreateEffect
    <3>2. run'[r].status = "queued"
      BY <1>0, <3>1 DEF Run
    <3> QED BY <1>0, <3>1, <3>2 DEF AbsentIsBlank
  <2>3. CASE Enqueue(c) \/ EnqueueError(c)
    <3>1. asked[c] \in Runs /\ run[asked[c]].status = "queued"
      BY <1>0, <2>3 DEF RequestKnows, Untouched, NoRun, Enqueue, EnqueueError
    <3>2. /\ UNCHANGED run
          /\ \A b \in Clients : asked'[b] \in {asked[b], None}
          /\ \A q \in Runs \ {asked[c]} : job'[q] = job[q]
      BY <1>0, <2>3 DEF Enqueue, EnqueueError, Answer, history
    <3> QED BY <1>0, <3>1, <3>2, NoneAssumption DEF AbsentIsBlank
  <2>4. CASE FailQueued(c)
    <3>1. asked[c] \in Runs /\ UNCHANGED job /\ \A b \in Clients : asked'[b] \in {asked[b], None}
      BY <1>0, <2>4 DEF FailQueued, RequestKnows, Answer
    <3>2. run'[asked[c]].status = "failed" /\ \A q \in Runs \ {asked[c]} : run'[q] = run[q]
      BY <1>0, <2>4, <3>1, FailedEffect DEF FailQueued
    <3> QED BY <1>0, <3>1, <3>2, NoneAssumption DEF AbsentIsBlank
  <2>5. CASE Abort(c)
    <3>1. UNCHANGED <<run, job>> /\ \A b \in Clients : asked'[b] \in {asked[b], None}
      BY <1>0, <2>5 DEF Abort, Answer, history
    <3> QED BY <1>0, <3>1, NoneAssumption DEF AbsentIsBlank
  <2> QED BY <1>1, <2>1, <2>2, <2>3, <2>4, <2>5 DEF RequestStep
<1>2. ASSUME NEW r \in Runs, JobStep(r) PROVE AbsentIsBlank'
  <2>1. /\ UNCHANGED asked /\ job[r] # "none"
        /\ \A q \in Runs \ {r} : run'[q] = run[q] /\ job'[q] = job[q]
    BY <1>0, <1>2, JobFrame
  <2>2. run[r].status # "absent"
    BY <1>0, <2>1 DEF AbsentIsBlank
  <2>3. run'[r].status # "absent"
    BY <1>0, <1>2, <2>2, JobRow
  <2> QED BY <1>0, <2>1, <2>3 DEF AbsentIsBlank
<1>3. CASE WorkerStop \/ WorkerStart \/ UNCHANGED vars
  BY <1>0, <1>3, WorkerFrame DEF AbsentIsBlank
<1> QED BY <1>1, <1>2, <1>3 DEF Next

-----------------------------------------------------------------------------
(* Reports.                                                                *)

\* A request leaves reports and the work of jobs alone; it queues at most its own run,
\* which has no report.
LEMMA RequestEffect ==
  ASSUME Bonds, NEW c \in Clients, RequestStep(c)
  PROVE  /\ UNCHANGED <<results, step, listed, outcome>>
         /\ \A q \in Runs :
              /\ run'[q].summary = run[q].summary
              /\ run'[q].status = run[q].status \/ run'[q].status \in {"queued", "failed"}
              /\ \/ job'[q] = job[q]
                 \/ job[q] = "none" /\ job'[q] = "queued" /\ run[q].summary = None
<1>0. /\ TypeOK /\ RequestKnows
      /\ asked \in [Clients -> Runs \cup {None}]
      /\ run \in [Runs -> Run]
      /\ job \in [Runs -> {"none", "queued", "running", "interrupted"}]
  BY DEF Bonds, TypeOK
<1>1. CASE EditCases(c) \/ RequestRun(c)
  BY <1>0, <1>1, EditFrame
<1>2. CASE CreateRun(c)
  <2>1. PICK r \in Runs :
          /\ run'[r] = [run[r] EXCEPT !.status = "queued"]
          /\ \A q \in Runs \ {r} : run'[q] = run[q]
          /\ UNCHANGED <<results, job, step, listed, outcome>>
    BY <1>0, <1>2, CreateEffect
  <2>2. run'[r].status = "queued" /\ run'[r].summary = run[r].summary
    BY <1>0, <2>1 DEF Run
  <2> QED BY <1>0, <2>1, <2>2
<1>3. CASE Enqueue(c) \/ EnqueueError(c)
  <2>1. asked[c] \in Runs /\ job[asked[c]] = "none" /\ run[asked[c]].summary = None
    BY <1>0, <1>3 DEF RequestKnows, Untouched, NoRun, Enqueue, EnqueueError
  <2>2. UNCHANGED <<run, results, step, listed, outcome>>
    BY <1>3 DEF Enqueue, EnqueueError, history, execution
  <2>3. job' = job \/ job' = [job EXCEPT ![asked[c]] = "queued"]
    BY <1>3 DEF Enqueue, EnqueueError
  <2> QED BY <1>0, <2>1, <2>2, <2>3
<1>4. CASE FailQueued(c)
  <2>1. asked[c] \in Runs /\ run' = Failed(asked[c])
    BY <1>0, <1>4 DEF FailQueued, RequestKnows
  <2>2. UNCHANGED <<results, job, step, listed, outcome>>
    BY <1>4 DEF FailQueued, execution
  <2>3. /\ run'[asked[c]].status = "failed" /\ run'[asked[c]].summary = run[asked[c]].summary
        /\ \A q \in Runs \ {asked[c]} : run'[q] = run[q]
    BY <1>0, <2>1, FailedEffect
  <2> QED BY <1>0, <2>1, <2>2, <2>3
<1>5. CASE Abort(c)
  BY <1>5 DEF Abort, history, execution
<1> QED BY <1>1, <1>2, <1>3, <1>4, <1>5 DEF RequestStep

\* A job is started once, on a run that has no report, and writes one at its end.
LEMMA JobFindsStep == Bonds /\ [Next]_vars => JobFindsNoReport'
<1> SUFFICES ASSUME Bonds, [Next]_vars PROVE JobFindsNoReport'
  OBVIOUS
<1>0. /\ TypeOK /\ JobFindsNoReport
      /\ job \in [Runs -> {"none", "queued", "running", "interrupted"}]
      /\ step \in [Runs -> Steps]
  BY DEF Bonds, TypeOK
<1>1. ASSUME NEW c \in Clients, RequestStep(c) PROVE JobFindsNoReport'
  BY <1>0, <1>1, RequestEffect DEF JobFindsNoReport
<1>2. ASSUME NEW r \in Runs, JobStep(r) PROVE JobFindsNoReport'
  <2>1. \A q \in Runs \ {r} : run'[q] = run[q] /\ job'[q] = job[q] /\ step'[q] = step[q]
    BY <1>0, <1>2, JobFrame
  <2>2. /\ step'[r] # "idle" => job'[r] = "running"
        /\ job'[r] = "queued" \/ step'[r] \in {"start", "list", "evaluate"} =>
             run[r].summary = None /\ ~CompleteRun(r)
    <3>1. CASE JobStart(r)
      BY <1>0, <3>1 DEF JobStart, JobFindsNoReport, At, CompleteRun, Steps
    <3>2. CASE MarkRunning(r) \/ ListCases(r)
      BY <1>0, <3>2 DEF MarkRunning, ListCases, CompleteRun, JobFindsNoReport, At, Steps
    <3>3. CASE EvaluateCase(r)
      <4>1. step[r] = "evaluate" /\ UNCHANGED <<step, job>>
        BY <3>3 DEF EvaluateCase
      <4>2. ~CompleteRun(r)
        BY <1>0, <4>1 DEF CompleteRun, At
      <4> QED BY <1>0, <4>1, <4>2 DEF JobFindsNoReport
    <3>4. CASE CompleteRun(r) \/ RaiseError(r) \/ FailRun(r)
      BY <1>0, <3>4 DEF CompleteRun, RaiseError, FailRun, JobFindsNoReport, At, Steps
    <3>5. CASE JobFinish(r)
      BY <1>0, <3>5 DEF JobFinish, Forget
    <3>6. CASE JobRefused(r)
      BY <1>0, <3>6 DEF JobRefused, execution, JobFindsNoReport
    <3> QED BY <1>2, <3>1, <3>2, <3>3, <3>4, <3>5, <3>6 DEF JobStep
  <2>3. ~CompleteRun(r) => run'[r].summary = run[r].summary
    BY <1>0, <1>2, JobRow
  <2> QED BY <1>0, <2>1, <2>2, <2>3 DEF JobFindsNoReport
<1>3. CASE WorkerStop \/ WorkerStart \/ UNCHANGED vars
  BY <1>0, <1>3, WorkerFrame DEF JobFindsNoReport
<1> QED BY <1>1, <1>2, <1>3 DEF Next

\* A job evaluates what it has selected.
LEMMA RowsStep == Bonds /\ RowsAreListed /\ [Next]_vars => RowsAreListed'
<1> SUFFICES ASSUME Bonds, RowsAreListed, [Next]_vars PROVE RowsAreListed'
  OBVIOUS
<1>0. /\ TypeOK /\ JobFindsNoReport
      /\ step \in [Runs -> Steps]
      /\ listed \in [Runs -> SUBSET Cases]
      /\ outcome \in [Runs -> [Cases -> Outcome]]
  BY DEF Bonds, TypeOK
<1>1. ASSUME NEW c \in Clients, RequestStep(c) PROVE RowsAreListed'
  BY <1>0, <1>1, RequestEffect DEF RowsAreListed
<1>2. ASSUME NEW r \in Runs, JobStep(r) PROVE RowsAreListed'
  <2>1. \A q \in Runs \ {r} :
          step'[q] = step[q] /\ listed'[q] = listed[q] /\ outcome'[q] = outcome[q]
    BY <1>0, <1>2, JobFrame
  <2>2. /\ step'[r] \in {"idle", "start", "list"} => outcome'[r] = NoResults
        /\ \A k \in Cases : outcome'[r][k] # "none" => k \in listed'[r]
    <3>1. CASE JobStart(r)
      BY <1>0, <3>1 DEF JobStart, JobFindsNoReport, RowsAreListed, At
    <3>2. CASE ListCases(r)
      BY <1>0, <3>2 DEF ListCases, RowsAreListed, At, NoResults
    <3>3. CASE EvaluateCase(r)
      BY <1>0, <3>3 DEF EvaluateCase, RowsAreListed
    <3>4. CASE MarkRunning(r) \/ CompleteRun(r) \/ RaiseError(r) \/ FailRun(r)
      BY <1>0, <3>4 DEF MarkRunning, CompleteRun, RaiseError, FailRun, RowsAreListed, At
    <3>5. CASE JobFinish(r)
      BY <1>0, <3>5 DEF JobFinish, Forget, NoResults
    <3>6. CASE JobRefused(r)
      BY <1>0, <3>6 DEF JobRefused, execution, RowsAreListed
    <3> QED BY <1>2, <3>1, <3>2, <3>3, <3>4, <3>5, <3>6 DEF JobStep
  <2> QED BY <2>1, <2>2 DEF RowsAreListed
<1>3. CASE WorkerStop \/ WorkerStart \/ UNCHANGED vars
  BY <1>0, <1>3, WorkerFrame DEF RowsAreListed, NoResults
<1> QED BY <1>1, <1>2, <1>3 DEF Next

\* A report is a summary and its rows.
LEMMA ReportStep == Bonds /\ ReportMatchesResults /\ [Next]_vars => ReportMatchesResults'
<1> SUFFICES ASSUME Bonds, ReportMatchesResults, [Next]_vars PROVE ReportMatchesResults'
  OBVIOUS
<1>0. /\ TypeOK /\ JobFindsNoReport
      /\ results \in [Runs -> [Cases -> Outcome]]
  BY DEF Bonds, TypeOK
<1>s. ASSUME NEW o, NEW x, x = Summarize(o) PROVE x # None
  BY <1>s, CountNat, NoneAssumption DEF Summarize, Summary
<1>1. ASSUME NEW c \in Clients, RequestStep(c) PROVE ReportMatchesResults'
  <2>1. /\ UNCHANGED results
        /\ \A q \in Runs :
             /\ run'[q].summary = run[q].summary
             /\ run'[q].status = run[q].status \/ run'[q].status \in {"queued", "failed"}
    BY <1>1, RequestEffect
  <2> QED BY <2>1 DEF ReportMatchesResults
<1>2. ASSUME NEW r \in Runs, JobStep(r) PROVE ReportMatchesResults'
  <2>1. \A q \in Runs \ {r} : run'[q] = run[q] /\ results'[q] = results[q]
    BY <1>0, <1>2, JobFrame
  <2>2. /\ run'[r].summary = None => results'[r] = NoResults /\ run'[r].status # "completed"
        /\ run'[r].summary # None => run'[r].summary = Summarize(results'[r])
    <3>1. CASE CompleteRun(r)
      <4>1. run'[r].summary = Summarize(outcome[r])
        <5>1. run \in [Runs -> Run] /\ run[r] \in Run
          BY <1>0 DEF TypeOK
        <5>2. run'[r] = [run[r] EXCEPT !.status = "completed", !.summary = Summarize(outcome[r])]
          BY <3>1, <5>1 DEF CompleteRun
        <5> QED BY <5>1, <5>2 DEF Run
      <4>2. results'[r] = outcome[r]
        BY <1>0, <3>1 DEF CompleteRun
      <4> QED BY <1>s, <4>1, <4>2
    <3>2. CASE ~CompleteRun(r)
      <4>1. results'[r] = results[r]
        BY <1>2, <3>2
           DEF JobStep, JobStart, MarkRunning, ListCases, EvaluateCase, RaiseError, FailRun,
               JobFinish, JobRefused, history
      <4>2. \/ run'[r] = run[r]
            \/ run'[r].summary = run[r].summary /\ run'[r].status \in {"running", "failed"}
        BY <1>0, <1>2, <3>2, JobRow
      <4> QED BY <4>1, <4>2 DEF ReportMatchesResults
    <3> QED BY <3>1, <3>2
  <2>3. ASSUME NEW q \in Runs
        PROVE  /\ run'[q].summary = None =>
                    results'[q] = NoResults /\ run'[q].status # "completed"
               /\ run'[q].summary # None => run'[q].summary = Summarize(results'[q])
    BY <2>1, <2>2 DEF ReportMatchesResults
  <2> QED BY <2>3 DEF ReportMatchesResults
<1>3. CASE WorkerStop \/ WorkerStart \/ UNCHANGED vars
  BY <1>0, <1>3, WorkerFrame DEF ReportMatchesResults, Summarize
<1> QED BY <1>1, <1>2, <1>3 DEF Next

-----------------------------------------------------------------------------
(* The theorems.                                                           *)

LEMMA InitInv == Init => IInv
<1> SUFFICES ASSUME Init PROVE IInv
  OBVIOUS
<1>1. TypeOK
  BY DEF Init, DatasetInit, TypeOK, DatasetTypeOK, NoCases, NoEdit, Edits, CaseState, Run,
         NoRun, NoResults, Outcome, Steps, RunStatus
<1>2. RequestKnows /\ OneRequest /\ AbsentIsBlank
  BY NoneAssumption DEF Init, RequestKnows, OneRequest, AbsentIsBlank, Untouched
<1>3. JobFindsNoReport /\ RowsAreListed /\ ReportMatchesResults
  BY DEF Init, JobFindsNoReport, RowsAreListed, ReportMatchesResults, NoRun, NoResults
<1> QED BY <1>1, <1>2, <1>3 DEF IInv

LEMMA InvStep == IInv /\ [Next]_vars => IInv'
<1> SUFFICES ASSUME IInv, [Next]_vars PROVE IInv'
  OBVIOUS
<1>1. Bonds /\ RowsAreListed /\ ReportMatchesResults
  BY DEF IInv, Bonds
<1>2. TypeOK'
  BY <1>1, TypeStep DEF Bonds
<1> QED BY <1>1, <1>2, KnowStep, OneRequestStep, AbsentStep, JobFindsStep, RowsStep, ReportStep
        DEF IInv

\* IInv is an invariant: enqueue_eval_run hands each run to at most one job, and
\* run_evaluation starts on a run that has no report.
THEOREM Invariance == Spec => []IInv
<1> QED BY InitInv, InvStep, PTL DEF Spec

\* Every variable keeps its type.
THEOREM Typing == Spec => []TypeOK
<1>1. IInv => TypeOK
  BY DEF IInv
<1> QED BY <1>1, Invariance, PTL

\* The summary on a run and its result rows are written together by run_evaluation's
\* last commit, and no failure, retry or second writer separates them.
THEOREM Reports == Spec => []ReportMatchesResults
<1>1. IInv => ReportMatchesResults
  BY DEF IInv
<1> QED BY <1>1, Invariance, PTL

\* A run completes with one row for each case that run_evaluation selected, whatever
\* the retrievals did and whatever was reviewed meanwhile.
THEOREM Rows == Spec => OneRowPerCase
<1>1. ASSUME IInv, [Next]_vars
      PROVE  [\A r \in Runs :
                run[r].status # "completed" /\ run'[r].status = "completed" =>
                  listed[r] = {k \in Cases : results'[r][k] # "none"}]_vars
  <2> SUFFICES ASSUME NEW r \in Runs, run[r].status # "completed", run'[r].status = "completed"
               PROVE  listed[r] = {k \in Cases : results'[r][k] # "none"}
    OBVIOUS
  <2>0. Bonds /\ TypeOK /\ RowsAreListed /\ JobFindsNoReport
    BY <1>1 DEF IInv, Bonds
  <2>1. JobStep(r)
    <3>1. ASSUME NEW c \in Clients, RequestStep(c) PROVE FALSE
      BY <2>0, <3>1, RequestEffect
    <3>2. ASSUME NEW q \in Runs, JobStep(q), q # r PROVE FALSE
      <4>1. run'[r] = run[r]
        BY <2>0, <3>2, JobFrame
      <4> QED BY <4>1
    <3>3. ~(WorkerStop \/ WorkerStart \/ UNCHANGED vars)
      BY <2>0, WorkerFrame
    <3> QED BY <1>1, <3>1, <3>2, <3>3 DEF Next
  <2>2. CompleteRun(r)
    BY <2>0, <2>1, JobRow
  <2>3. results'[r] = outcome[r] /\ \A k \in listed[r] : outcome[r][k] # "none"
    BY <2>0, <2>2 DEF CompleteRun, TypeOK
  <2>4. listed[r] \subseteq Cases
    BY <2>0 DEF TypeOK
  <2> QED BY <2>0, <2>3, <2>4 DEF RowsAreListed
<1> QED BY <1>1, Invariance, PTL DEF Spec, OneRowPerCase

\* Result rows are only ever inserted: run_evaluation never finds one, and nothing
\* else writes them.
THEOREM Kept == Spec => ResultsAreKept
<1>1. ASSUME IInv, [Next]_vars
      PROVE  [\A r \in Runs, k \in Cases :
                results[r][k] # "none" => results'[r][k] = results[r][k]]_vars
  <2>0. Bonds /\ TypeOK /\ JobFindsNoReport /\ ReportMatchesResults
    BY <1>1 DEF IInv, Bonds
  <2> SUFFICES ASSUME NEW r \in Runs, NEW k \in Cases, results[r][k] # "none"
               PROVE  results'[r] = results[r]
    OBVIOUS
  <2>1. run[r].summary # None
    BY <2>0 DEF ReportMatchesResults, NoResults
  <2>2. ASSUME NEW c \in Clients, RequestStep(c) PROVE results'[r] = results[r]
    BY <2>0, <2>2, RequestEffect
  <2>3. ASSUME NEW q \in Runs, JobStep(q), q # r PROVE results'[r] = results[r]
    BY <2>0, <2>3, JobFrame
  <2>4. CASE JobStep(r)
    <3>1. step[r] # "evaluate"
      BY <2>0, <2>1 DEF JobFindsNoReport
    <3> QED BY <2>4, <3>1
            DEF JobStep, JobStart, MarkRunning, ListCases, EvaluateCase, CompleteRun,
                RaiseError, FailRun, JobFinish, JobRefused, history
  <2>5. CASE WorkerStop \/ WorkerStart \/ UNCHANGED vars
    BY <2>0, <2>5, WorkerFrame
  <2> QED BY <1>1, <2>2, <2>3, <2>4, <2>5 DEF Next
<1> QED BY <1>1, Invariance, PTL DEF Spec, ResultsAreKept

-----------------------------------------------------------------------------
(* The cached count.                                                       *)

\* What a commit writes is the count the request has made.
LEMMA CommitCounts ==
  ASSUME CountFollows, NEW c \in Clients, pc[c] = "commit", CommitDataset(c)
  PROVE  caseCount' = Cardinality(Active')
<1>1. caseCount' = counted[c]
  BY DEF CountFollows, CommitDataset
<1>2. Active' = {k \in Cases : Seen(c)[k] = "active"}
  BY DEF Active, CommitDataset
<1> QED BY <1>1, <1>2 DEF CountFollows

\* With one request at a time, nothing changes between a request's statements.
LEMMA CountStep ==
  ASSUME \A a, b \in Clients : a = b
  PROVE  TypeOK /\ CountFollows /\ [Next]_vars => CountFollows'
<1> SUFFICES ASSUME TypeOK, CountFollows, [Next]_vars PROVE CountFollows'
  OBVIOUS
<1>0. /\ pc \in [Clients -> {"idle", "load", "write", "count", "commit", "enqueue", "fail"}]
      /\ loaded \in [Clients -> Nat] /\ counted \in [Clients -> Nat]
  BY DEF TypeOK, DatasetTypeOK
<1>same. ASSUME UNCHANGED <<dataset, pc, draft, loaded, counted>> PROVE CountFollows'
  BY <1>same DEF CountFollows, dataset, Active, Seen
<1>early. ASSUME NEW c \in Clients, UNCHANGED dataset,
                 pc'[c] \notin {"write", "count", "commit"}
          PROVE  CountFollows'
  <2>1. caseCount' = Cardinality(Active')
    BY <1>early DEF CountFollows, dataset, Active
  <2> QED BY <1>early, <2>1 DEF CountFollows
<1>1. ASSUME NEW c \in Clients, RequestStep(c) PROVE CountFollows'
  <2>1. CASE BeginAdd(c) \/ BeginReview(c) \/ BeginRun(c)
    BY <1>0, <2>1, <1>early DEF BeginAdd, BeginReview, BeginRun, Go
  <2>2. CASE LoadDataset(c)
    <3>1. UNCHANGED dataset /\ loaded'[c] = caseCount /\ pc'[c] \in {"count", "write"}
      BY <1>0, <2>2 DEF LoadDataset, Go
    <3>2. caseCount' = Cardinality(Active')
      BY <3>1 DEF CountFollows, dataset, Active
    <3> QED BY <3>1, <3>2 DEF CountFollows, dataset
  <2>3. CASE WriteCases(c)
    <3>1. UNCHANGED <<dataset, loaded>> /\ pc[c] = "write" /\ pc'[c] = "count"
      BY <1>0, <2>3 DEF WriteCases, Go
    <3>2. caseCount' = Cardinality(Active')
      BY <3>1 DEF CountFollows, dataset, Active
    <3> QED BY <3>1, <3>2 DEF CountFollows, dataset
  <2>4. CASE CountCases(c)
    <3>1. /\ UNCHANGED <<dataset, loaded, draft>> /\ pc[c] = "count" /\ pc'[c] = "commit"
          /\ counted'[c] = Cardinality({k \in Cases : Seen(c)[k] = "active"})
      BY <1>0, <2>4 DEF CountCases, Go
    <3>2. caseCount' = Cardinality(Active') /\ Seen(c)' = Seen(c)
      BY <3>1 DEF CountFollows, dataset, Active, Seen
    <3>3. counted'[c] = Cardinality({k \in Cases : Seen(c)'[k] = "active"})
      BY <3>1, <3>2
    <3>4. \A b \in Clients : b = c
      OBVIOUS
    <3> QED BY <3>1, <3>2, <3>3, <3>4 DEF CountFollows, dataset
  <2>5. CASE CommitCases(c) \/ CreateRun(c)
    <3>1. pc[c] = "commit" /\ CommitDataset(c) /\ pc'[c] \in {"idle", "enqueue"}
      BY <1>0, <2>5 DEF CommitCases, CreateRun, Go
    <3>2. caseCount' = Cardinality(Active')
      BY <3>1, CommitCounts
    <3> QED BY <3>1, <3>2 DEF CountFollows
  <2>6. CASE Enqueue(c) \/ EnqueueError(c) \/ FailQueued(c) \/ Abort(c)
    BY <1>0, <2>6, <1>early DEF Enqueue, EnqueueError, FailQueued, Abort, Answer, Go
  <2> QED BY <1>1, <2>1, <2>2, <2>3, <2>4, <2>5, <2>6
          DEF RequestStep, EditCases, DatasetStep, RequestRun
<1>2. ASSUME NEW r \in Runs, JobStep(r) PROVE CountFollows'
  BY <1>2, <1>same
     DEF JobStep, JobStart, MarkRunning, ListCases, EvaluateCase, CompleteRun, RaiseError,
         FailRun, JobFinish, JobRefused, transaction
<1>3. CASE WorkerStop \/ WorkerStart \/ UNCHANGED vars
  BY <1>3, <1>same DEF WorkerStop, WorkerStart, vars, transaction
<1> QED BY <1>1, <1>2, <1>3 DEF Next

\* A dataset that has one editor at a time has the right case_count, through every
\* abort and every run.
THEOREM Counted ==
  ASSUME \A a, b \in Clients : a = b
  PROVE  Spec => []CountIsActive
<1>1. Init => CountFollows
  <2> SUFFICES ASSUME Init PROVE CountFollows
    OBVIOUS
  <2>1. Active = {} /\ caseCount = 0
    BY DEF Init, DatasetInit, Active, NoCases
  <2>2. \A c \in Clients : pc[c] = "idle"
    BY DEF Init
  <2> QED BY <2>1, <2>2, FS_EmptySet DEF CountFollows
<1>2. CountFollows => CountIsActive
  BY DEF CountFollows, CountIsActive
<1> QED BY <1>1, <1>2, CountStep, Typing, PTL DEF Spec

-----------------------------------------------------------------------------
(* EvalRuns implements RunLife.                                            *)

\* What the proof knows of a state: IInv and Followed.
Tracked == IInv /\ Followed

\* A run's status follows its request and then its job, as long as an operation that
\* raises has had no effect.
LEMMA FollowedStep ==
  ASSUME "reply" \notin Faults
  PROVE  Tracked /\ [Next]_vars => Followed'
<1> SUFFICES ASSUME Tracked, [Next]_vars PROVE Followed'
  OBVIOUS
<1>0. /\ Bonds /\ TypeOK /\ RequestKnows /\ OneRequest /\ AbsentIsBlank /\ JobFindsNoReport
      /\ Followed
      /\ pc \in [Clients -> {"idle", "load", "write", "count", "commit", "enqueue", "fail"}]
      /\ asked \in [Clients -> Runs \cup {None}]
      /\ run \in [Runs -> Run]
      /\ job \in [Runs -> {"none", "queued", "running", "interrupted"}]
      /\ step \in [Runs -> Steps]
  BY DEF Tracked, IInv, Bonds, TypeOK
<1>1. ASSUME NEW c \in Clients, RequestStep(c) PROVE Followed'
  <2>0. UNCHANGED step
    BY <1>0, <1>1, RequestEffect
  <2>1. CASE EditCases(c) \/ RequestRun(c)
    BY <1>0, <2>1, EditFrame DEF Followed, Untouched
  <2>2. CASE CreateRun(c)
    <3>1. PICK r \in Runs :
            /\ run[r].status = "absent"
            /\ run'[r] = [run[r] EXCEPT !.status = "queued"]
            /\ \A q \in Runs \ {r} : run'[q] = run[q]
            /\ asked' = [asked EXCEPT ![c] = r]
            /\ pc' = [pc EXCEPT ![c] = "enqueue"]
            /\ UNCHANGED job
      BY <1>0, <2>2, CreateEffect
    <3>2. job[r] = "none" /\ \A b \in Clients : asked[b] # r
      BY <1>0, <3>1 DEF AbsentIsBlank
    <3>3. step[r] = "idle"
      BY <1>0, <3>2 DEF JobFindsNoReport
    <3>4. \A b \in Clients : pc'[b] = "fail" => pc[b] = "fail" /\ asked'[b] = asked[b]
      BY <1>0, <3>1
    <3>5. \A b \in Clients : pc'[b] = "fail" => Untouched(asked[b])'
      BY <1>0, <3>1, <3>2, <3>4 DEF Followed, Untouched, RequestKnows
    <3> QED BY <1>0, <2>0, <3>1, <3>2, <3>3, <3>4, <3>5 DEF Followed, Untouched
  <2>3. CASE Enqueue(c)
    <3>1. Untouched(asked[c]) /\ asked[c] \in Runs
      BY <1>0, <2>3 DEF RequestKnows, Enqueue
    <3>2. \A b \in Clients \ {c} : pc[b] = "fail" => asked[b] # asked[c]
      BY <1>0, <3>1 DEF OneRequest
    <3>3. /\ job' = [job EXCEPT ![asked[c]] = "queued"]
          /\ pc' = [pc EXCEPT ![c] = "idle"] /\ asked' = [asked EXCEPT ![c] = None]
          /\ UNCHANGED run
      BY <2>3 DEF Enqueue, Answer, Go, history
    <3>4. \A b \in Clients : pc'[b] = "fail" =>
            pc[b] = "fail" /\ asked'[b] = asked[b] /\ asked[b] # asked[c] /\ asked[b] \in Runs
      BY <1>0, <3>2, <3>3 DEF RequestKnows
    <3>5. \A b \in Clients : pc'[b] = "fail" => Untouched(asked[b])'
      BY <1>0, <3>3, <3>4 DEF Followed, Untouched
    <3> QED BY <1>0, <2>0, <3>1, <3>3, <3>5 DEF Followed, Untouched
  <2>4. CASE EnqueueError(c)
    <3>1. pc[c] = "enqueue" /\ pc' = [pc EXCEPT ![c] = "fail"] /\ UNCHANGED <<run, job, asked>>
      BY <2>4 DEF EnqueueError, Go, history
    <3> QED BY <1>0, <2>0, <3>1 DEF Followed, RequestKnows, Untouched
  <2>5. CASE FailQueued(c)
    <3>1. pc[c] = "fail" /\ asked[c] \in Runs /\ job[asked[c]] = "none"
      BY <1>0, <2>5 DEF FailQueued, RequestKnows, Followed, Untouched
    <3>2. step[asked[c]] = "idle"
      BY <1>0, <3>1 DEF JobFindsNoReport
    <3>3. \A q \in Runs \ {asked[c]} : run'[q] = run[q]
      BY <1>0, <2>5, <3>1, FailedEffect DEF FailQueued
    <3>4. /\ pc' = [pc EXCEPT ![c] = "idle"] /\ asked' = [asked EXCEPT ![c] = None]
          /\ UNCHANGED job
      BY <2>5 DEF FailQueued, Answer, Go
    <3>5. \A b \in Clients : pc'[b] = "fail" =>
            pc[b] = "fail" /\ asked'[b] = asked[b] /\ asked[b] # asked[c] /\ asked[b] \in Runs
      BY <1>0, <3>1, <3>4 DEF RequestKnows, OneRequest
    <3>6. \A b \in Clients : pc'[b] = "fail" => Untouched(asked[b])'
      BY <1>0, <3>3, <3>4, <3>5 DEF Followed, Untouched
    <3> QED BY <1>0, <2>0, <3>1, <3>2, <3>3, <3>4, <3>6 DEF Followed, Untouched
  <2>6. CASE Abort(c)
    <3>1. /\ pc' = [pc EXCEPT ![c] = "idle"] /\ asked' = [asked EXCEPT ![c] = None]
          /\ UNCHANGED <<run, job>>
      BY <2>6 DEF Abort, Answer, Go, history
    <3> QED BY <1>0, <2>0, <3>1 DEF Followed, Untouched
  <2> QED BY <1>1, <2>1, <2>2, <2>3, <2>4, <2>5, <2>6 DEF RequestStep
<1>2. ASSUME NEW r \in Runs, JobStep(r) PROVE Followed'
  <2>1. /\ UNCHANGED <<pc, asked>> /\ job[r] # "none"
        /\ \A q \in Runs \ {r} : run'[q] = run[q] /\ job'[q] = job[q] /\ step'[q] = step[q]
    BY <1>0, <1>2, JobFrame
  <2>2. \A c \in Clients : pc'[c] = "fail" => Untouched(asked[c])'
    BY <1>0, <2>1 DEF Followed, Untouched, RequestKnows
  <2>3. /\ job'[r] = "queued" \/ step'[r] = "start" => run'[r] = [NoRun EXCEPT !.status = "queued"]
        /\ step'[r] \in {"list", "evaluate"} => run'[r] = [NoRun EXCEPT !.status = "running"]
        /\ step'[r] = "fail" => run'[r].status \in {"queued", "running"}
    <3>1. CASE JobStart(r)
      BY <1>0, <3>1 DEF JobStart, At, Followed, history
    <3>2. CASE MarkRunning(r)
      <4>1. run[r] = [NoRun EXCEPT !.status = "queued"] /\ job[r] = "running"
        BY <1>0, <3>2 DEF MarkRunning, Followed, JobFindsNoReport
      <4>2. run'[r] = [NoRun EXCEPT !.status = "running"]
        BY <1>0, <3>2, <4>1 DEF MarkRunning, NoRun
      <4> QED BY <1>0, <3>2, <4>1, <4>2 DEF MarkRunning, At
    <3>3. CASE ListCases(r) \/ EvaluateCase(r)
      BY <1>0, <3>3 DEF ListCases, EvaluateCase, At, Followed, history, JobFindsNoReport
    <3>4. CASE CompleteRun(r) \/ FailRun(r)
      BY <1>0, <3>4 DEF CompleteRun, FailRun, At, JobFindsNoReport
    <3>5. CASE RaiseError(r)
      BY <1>0, <3>5 DEF RaiseError, At, Followed, history, JobFindsNoReport, NoRun
    <3>6. CASE JobFinish(r)
      BY <1>0, <3>6 DEF JobFinish, Forget
    <3>7. CASE JobRefused(r)
      BY <1>0, <3>7 DEF JobRefused, execution, JobFindsNoReport
    <3> QED BY <1>2, <3>1, <3>2, <3>3, <3>4, <3>5, <3>6, <3>7 DEF JobStep
  <2> QED BY <1>0, <2>1, <2>2, <2>3 DEF Followed
<1>3. CASE WorkerStop \/ WorkerStart \/ UNCHANGED vars
  <2>1. UNCHANGED <<pc, asked, run>>
    BY <1>0, <1>3, WorkerFrame
  <2>2. \A c \in Clients : pc'[c] = "fail" => Untouched(asked[c])'
    BY <1>0, <1>3, <2>1, WorkerFrame DEF Followed, Untouched, RequestKnows
  <2>3. \A r \in Runs : job'[r] = "queued" => job[r] = "queued"
    BY <1>0, <1>3, WorkerFrame
  <2>4. \A r \in Runs : step'[r] \in {"idle", step[r]}
    BY <1>0, <1>3, WorkerFrame
  <2> QED BY <1>0, <2>1, <2>2, <2>3, <2>4 DEF Followed
<1> QED BY <1>1, <1>2, <1>3 DEF Next

-----------------------------------------------------------------------------
(* Steps of EvalRuns as steps of RunLife.                                  *)

stageNow == [r \in Runs |-> run[r].status]
messageNow == [r \in Runs |-> run[r].message]

\* A change of one run's row is a change of that run's stage and message alone.
LEMMA OneRow ==
  ASSUME NEW r \in Runs, \A q \in Runs \ {r} : run'[q] = run[q]
  PROVE  /\ stageNow' = [stageNow EXCEPT ![r] = run'[r].status]
         /\ messageNow' = [messageNow EXCEPT ![r] = run'[r].message]
BY DEF stageNow, messageNow

\* A step that keeps all rows is a stutter.
LEMMA Stutter ==
  ASSUME UNCHANGED <<run, results>>
  PROVE  UNCHANGED Life!life
BY DEF Life!life

\* Each step of a request is a step of its run's life, or none.
LEMMA RequestLives ==
  ASSUME "reply" \notin Faults, Tracked, NEW c \in Clients, RequestStep(c)
  PROVE  Life!LifeNext \/ UNCHANGED Life!life
<1>0. /\ TypeOK /\ Bonds /\ AbsentIsBlank /\ RequestKnows /\ Followed
      /\ run \in [Runs -> Run]
  BY DEF Tracked, IInv, Bonds, TypeOK
<1>1. CASE EditCases(c) \/ RequestRun(c)
  <2>1. UNCHANGED <<run, results>>
    BY <1>0, <1>1, EditFrame
  <2> QED BY <2>1, Stutter
<1>2. CASE CreateRun(c)
  <2>1. PICK r \in Runs :
          /\ run[r].status = "absent"
          /\ run'[r] = [run[r] EXCEPT !.status = "queued"]
          /\ \A q \in Runs \ {r} : run'[q] = run[q]
          /\ UNCHANGED results
    BY <1>0, <1>2, CreateEffect
  <2>2. run'[r].status = "queued" /\ run'[r].message = run[r].message
    BY <1>0, <2>1 DEF Run
  <2>3. stageNow' = [stageNow EXCEPT ![r] = "queued"] /\ messageNow' = messageNow
    BY <2>1, <2>2, OneRow DEF messageNow
  <2>4. stageNow[r] = "absent"
    BY <2>1 DEF stageNow
  <2>5. Life!Request(r)
    BY <2>1, <2>3, <2>4 DEF Life!Request, stageNow, messageNow
  <2> QED BY <2>5 DEF Life!LifeNext
<1>3. CASE Enqueue(c) \/ EnqueueError(c) \/ Abort(c)
  <2>1. UNCHANGED <<run, results>>
    BY <1>3 DEF Enqueue, EnqueueError, Abort, history
  <2> QED BY <2>1, Stutter
<1>4. CASE FailQueued(c)
  <2>0. PICK r \in Runs : r = asked[c]
    BY <1>0, <1>4 DEF FailQueued, RequestKnows
  <2>1. run[r].status = "queued"
    BY <1>0, <1>4, <2>0 DEF FailQueued, Followed, Untouched, NoRun
  <2>2. run' = Failed(r) /\ UNCHANGED results
    BY <1>4, <2>0 DEF FailQueued
  <2>3. /\ run'[r].status = "failed" /\ run'[r].message = TRUE
        /\ \A q \in Runs \ {r} : run'[q] = run[q]
    BY <1>0, <2>1, <2>2, FailedEffect
  <2>4. /\ stageNow' = [stageNow EXCEPT ![r] = "failed"]
        /\ messageNow' = [messageNow EXCEPT ![r] = TRUE]
    BY <2>1, <2>3, OneRow
  <2>5. stageNow[r] = "queued"
    BY <2>1 DEF stageNow
  <2>6. Life!Fail(r)
    BY <2>2, <2>4, <2>5 DEF Life!Fail, stageNow, messageNow
  <2> QED BY <2>6 DEF Life!LifeNext
<1> QED BY <1>1, <1>2, <1>3, <1>4 DEF RequestStep

\* So is each step of a job.
LEMMA JobLives ==
  ASSUME "reply" \notin Faults, Tracked, NEW r \in Runs, JobStep(r)
  PROVE  Life!LifeNext \/ UNCHANGED Life!life
<1>0. /\ TypeOK /\ JobFindsNoReport /\ Followed /\ run \in [Runs -> Run] /\ run[r] \in Run
      /\ results \in [Runs -> [Cases -> Outcome]] /\ outcome[r] \in [Cases -> Outcome]
  BY DEF Tracked, IInv, TypeOK
<1>q. \A q \in Runs \ {r} : run'[q] = run[q]
  BY <1>0, JobFrame
<1>1. CASE JobStart(r) \/ ListCases(r) \/ EvaluateCase(r) \/ RaiseError(r) \/ JobFinish(r)
             \/ JobRefused(r)
  <2>1. UNCHANGED <<run, results>>
    BY <1>1 DEF JobStart, ListCases, EvaluateCase, RaiseError, JobFinish, JobRefused, history
  <2> QED BY <2>1, Stutter
<1>2. CASE MarkRunning(r)
  <2>1. run' = [run EXCEPT ![r].status = "running"] /\ UNCHANGED results
    BY <1>2 DEF MarkRunning
  <2>2. run'[r].status = "running" /\ run'[r].message = run[r].message
    BY <1>0, <2>1 DEF Run
  <2>3. stageNow' = [stageNow EXCEPT ![r] = "running"] /\ messageNow' = messageNow
    BY <1>q, <2>2, OneRow DEF messageNow
  <2>4. stageNow[r] = "queued"
    BY <1>0, <1>2 DEF MarkRunning, Followed, NoRun, stageNow
  <2>5. Life!Begin(r)
    BY <2>1, <2>3, <2>4 DEF Life!Begin, stageNow, messageNow
  <2> QED BY <2>5 DEF Life!LifeNext
<1>3. CASE CompleteRun(r)
  <2>1. /\ run' = [run EXCEPT ![r].status = "completed", ![r].summary = Summarize(outcome[r])]
        /\ results' = [results EXCEPT ![r] = outcome[r]]
    BY <1>3 DEF CompleteRun
  <2>2. run'[r] = [run[r] EXCEPT !.status = "completed", !.summary = Summarize(outcome[r])]
    BY <1>0, <2>1
  <2>3. run'[r].status = "completed" /\ run'[r].message = run[r].message
    BY <1>0, <2>2 DEF Run
  <2>4. stageNow' = [stageNow EXCEPT ![r] = "completed"] /\ messageNow' = messageNow
    BY <1>q, <2>3, OneRow DEF messageNow
  <2>5. stageNow[r] = "running"
    BY <1>0, <1>3 DEF CompleteRun, Followed, NoRun, stageNow
  <2>6. Life!Complete(r)
    BY <1>0, <2>1, <2>4, <2>5 DEF Life!Complete, stageNow, messageNow
  <2> QED BY <2>6 DEF Life!LifeNext
<1>4. CASE FailRun(r)
  <2>1. CASE run' = Failed(r)
    <3>1. run'[r].status = "failed" /\ run'[r].message = TRUE
      BY <1>0, <2>1, FailedEffect
    <3>2. /\ stageNow' = [stageNow EXCEPT ![r] = "failed"]
          /\ messageNow' = [messageNow EXCEPT ![r] = TRUE]
      BY <1>q, <3>1, OneRow
    <3>3. stageNow[r] \in {"queued", "running"} /\ UNCHANGED results
      BY <1>0, <1>4 DEF FailRun, Followed, stageNow
    <3>4. Life!Fail(r)
      BY <3>2, <3>3 DEF Life!Fail, stageNow, messageNow
    <3> QED BY <3>4 DEF Life!LifeNext
  <2>2. CASE UNCHANGED run
    BY <1>4, <2>2, Stutter DEF FailRun
  <2> QED BY <1>4, <2>1, <2>2 DEF FailRun
<1> QED BY <1>1, <1>2, <1>3, <1>4 DEF JobStep

\* Unless an operation that took effect is reported as failed, enqueue_eval_run,
\* evaluate_run and the worker together give each run the life of RunLife: requested
\* once, run at most once, and final once it has ended.
THEOREM RunsAreHistory ==
  ASSUME "reply" \notin Faults
  PROVE  Spec => LifeSpec
<1>1. Init => Tracked
  <2>1. Init => Followed
    BY DEF Init, Followed
  <2> QED BY <2>1, InitInv DEF Tracked
<1>2. Tracked /\ [Next]_vars => Tracked'
  BY FollowedStep, InvStep DEF Tracked
<1>3. Init => Life!LifeInit
  BY DEF Init, Life!LifeInit, NoRun
<1>4. Tracked /\ [Next]_vars => [Life!LifeNext]_(Life!life)
  <2> SUFFICES ASSUME Tracked, [Next]_vars PROVE Life!LifeNext \/ UNCHANGED Life!life
    OBVIOUS
  <2>1. TypeOK
    BY DEF Tracked, IInv
  <2>2. CASE WorkerStop \/ WorkerStart \/ UNCHANGED vars
    BY <2>1, <2>2, WorkerFrame, Stutter
  <2> QED BY <2>2, RequestLives, JobLives DEF Next
<1> QED BY <1>1, <1>2, <1>3, <1>4, PTL DEF Spec, LifeSpec, Life!LifeSpec
=============================================================================
