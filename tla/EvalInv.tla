------------------------------ MODULE EvalInv ------------------------------
(* The inductive invariants behind the theorems of EvalProofs.             *)
EXTENDS EvalRuns

\* What a request knows of the run it has created: while it has yet to queue it,
\* nothing has happened to it.
Untouched(r) == run[r] = [NoRun EXCEPT !.status = "queued"] /\ job[r] = "none"

RequestKnows ==
  \A c \in Clients :
    /\ pc[c] \in {"enqueue", "fail"} => asked[c] \in Runs
    /\ pc[c] \notin {"enqueue", "fail"} => asked[c] = None
    /\ pc[c] = "enqueue" => Untouched(asked[c])

\* A run has one request, so nobody queues it twice.
OneRequest ==
  \A c, b \in Clients : asked[c] \in Runs /\ asked[c] = asked[b] => c = b

\* Only a run that exists is asked for, queued or reported on.
AbsentIsBlank ==
  \A r \in Runs : run[r].status = "absent" =>
    run[r] = NoRun /\ job[r] = "none" /\ \A c \in Clients : asked[c] # r

\* Until it completes, a run's job finds no report.
JobFindsNoReport ==
  \A r \in Runs :
    /\ step[r] # "idle" => job[r] = "running"
    /\ job[r] = "queued" \/ step[r] \in {"start", "list", "evaluate"} =>
         run[r].summary = None

\* The job adds rows for the cases it has selected, after it has selected them.
RowsAreListed ==
  \A r \in Runs :
    /\ step[r] \in {"idle", "start", "list"} => outcome[r] = NoResults
    /\ \A k \in Cases : outcome[r][k] # "none" => k \in listed[r]

IInv ==
  /\ TypeOK /\ RequestKnows /\ OneRequest /\ AbsentIsBlank
  /\ JobFindsNoReport /\ RowsAreListed /\ ReportMatchesResults

\* Without lost replies a run's status follows its request and its job.
Followed ==
  /\ \A c \in Clients : pc[c] = "fail" => Untouched(asked[c])
  /\ \A r \in Runs :
       /\ job[r] = "queued" \/ step[r] = "start" =>
            run[r] = [NoRun EXCEPT !.status = "queued"]
       /\ step[r] \in {"list", "evaluate"} =>
            run[r] = [NoRun EXCEPT !.status = "running"]
       /\ step[r] = "fail" => run[r].status \in {"queued", "running"}

\* One request at a time leaves the count right: what it loads is what is there when
\* it commits, and what it writes is the number of active cases there will be.
CountFollows ==
  /\ caseCount = Cardinality(Active)
  /\ \A c \in Clients :
       /\ pc[c] \in {"write", "count", "commit"} => loaded[c] = caseCount
       /\ pc[c] = "commit" =>
            counted[c] = Cardinality({k \in Cases : Seen(c)[k] = "active"})
=============================================================================
