---------------------------- MODULE EvalDataset ----------------------------
(***************************************************************************)
(* One evaluation dataset and the requests that change it                  *)
(* (app/evaluation/service.py, app/api/evaluation.py): cases are added,    *)
(* by hand or by the generation job, and reviewed, and each of these, like *)
(* the creation of a run, recomputes the dataset's cached case_count.      *)
(*                                                                         *)
(* A request is one READ COMMITTED transaction: it sees committed rows and *)
(* its own, and what it has written (draft) appears at its commit.         *)
(***************************************************************************)
EXTENDS Integers, FiniteSets

CONSTANTS
  Clients,  \* requests that can be in flight at once
  Cases,    \* identities for eval_cases rows
  None      \* no run

ASSUME CasesAssumption == IsFiniteSet(Cases)

VARIABLES
  cases,      \* eval_cases: the committed rows
  caseCount,  \* eval_datasets.case_count: committed
  pc,         \* where each request is
  kind,       \* what it does: "add", "review" or "run"
  draft,      \* the case rows it has written and not committed
  edit,       \* the case under review: as loaded, and as it shall become
  loaded,     \* the ORM's copy of case_count
  counted     \* the active cases the request has counted

dataset == <<cases, caseCount>>
transaction == <<kind, draft, edit, loaded, counted>>

CaseState == {"absent", "active", "inactive"}
NoCases == [k \in Cases |-> "absent"]

\* "absent" in a draft stands for a row the request has not touched.
NoEdit == [of |-> {}, was |-> "absent", to |-> "absent"]
Edits == [of : SUBSET Cases, was : CaseState, to : CaseState]

DatasetTypeOK ==
  /\ cases \in [Cases -> CaseState]
  /\ caseCount \in Nat
  /\ kind \in [Clients -> {"none", "add", "review", "run"}]
  /\ draft \in [Clients -> [Cases -> CaseState]]
  /\ edit \in [Clients -> Edits]
  /\ loaded \in [Clients -> Nat]
  /\ counted \in [Clients -> Nat]

DatasetInit ==
  /\ cases = NoCases
  /\ caseCount = 0
  /\ kind = [c \in Clients |-> "none"]
  /\ draft = [c \in Clients |-> NoCases]
  /\ edit = [c \in Clients |-> NoEdit]
  /\ loaded = [c \in Clients |-> 0]
  /\ counted = [c \in Clients |-> 0]

-----------------------------------------------------------------------------
Active == {k \in Cases : cases[k] = "active"}

\* The rows as request c's statements see them.
Seen(c) == [k \in Cases |-> IF draft[c][k] = "absent" THEN cases[k] ELSE draft[c][k]]

\* No other request has an uncommitted version of row k.
Free(c, k) == \A b \in Clients \ {c} : draft[b][k] = "absent"

Go(c, step) == pc' = [pc EXCEPT ![c] = step]

\* The session of c closes; what was not committed is gone.
Close(c) ==
  /\ kind' = [kind EXCEPT ![c] = "none"]
  /\ draft' = [draft EXCEPT ![c] = NoCases]
  /\ edit' = [edit EXCEPT ![c] = NoEdit]
  /\ loaded' = [loaded EXCEPT ![c] = 0]
  /\ counted' = [counted EXCEPT ![c] = 0]

\* COMMIT.  The ORM writes case_count when it differs from the copy it loaded.
CommitDataset(c) ==
  /\ cases' = Seen(c)
  /\ caseCount' = IF counted[c] # loaded[c] THEN counted[c] ELSE caseCount

-----------------------------------------------------------------------------
(* add_manual_eval_cases, generate_eval_dataset, review_eval_case and the  *)
(* first half of enqueue_eval_run.                                         *)

BeginAdd(c) ==
  /\ pc[c] = "idle"
  /\ \E K \in (SUBSET {k \in Cases : cases[k] = "absent"}) \ {{}} :
       /\ \A b \in Clients : K \cap edit[b].of = {}
       /\ edit' = [edit EXCEPT ![c] = [of |-> K, was |-> "absent", to |-> "active"]]
  /\ kind' = [kind EXCEPT ![c] = "add"]
  /\ Go(c, "load")
  /\ UNCHANGED <<dataset, draft, loaded, counted>>

\* session.get(EvalCase): the state the ORM compares the new one with.
BeginReview(c) ==
  /\ pc[c] = "idle"
  /\ \E k \in Cases, to \in {"active", "inactive"} :
       /\ cases[k] # "absent"
       /\ edit' = [edit EXCEPT ![c] = [of |-> {k}, was |-> cases[k], to |-> to]]
  /\ kind' = [kind EXCEPT ![c] = "review"]
  /\ Go(c, "load")
  /\ UNCHANGED <<dataset, draft, loaded, counted>>

BeginRun(c) ==
  /\ pc[c] = "idle"
  /\ kind' = [kind EXCEPT ![c] = "run"]
  /\ Go(c, "load")
  /\ UNCHANGED <<dataset, draft, edit, loaded, counted>>

LoadDataset(c) ==
  /\ pc[c] = "load"
  /\ loaded' = [loaded EXCEPT ![c] = caseCount]
  /\ Go(c, IF kind[c] = "run" THEN "count" ELSE "write")
  /\ UNCHANGED <<dataset, kind, draft, edit, counted>>

\* The flush: INSERT of the new cases, or UPDATE of a reviewed one that differs
\* from what was loaded, once no other review holds its row.
WriteCases(c) ==
  /\ pc[c] = "write"
  /\ \A k \in edit[c].of : Free(c, k)
  /\ draft' = [draft EXCEPT ![c] =
       [k \in Cases |-> IF k \in edit[c].of /\ edit[c].was # edit[c].to
                        THEN edit[c].to ELSE "absent"]]
  /\ Go(c, "count")
  /\ UNCHANGED <<dataset, kind, edit, loaded, counted>>

\* MUTANT of CountCases: the changed rows are not flushed before the count.
CountCommitted(c) ==
  /\ pc[c] = "count"
  /\ counted' = [counted EXCEPT ![c] = Cardinality(Active)]
  /\ Go(c, "commit")
  /\ UNCHANGED <<dataset, kind, draft, edit, loaded>>

\* refresh_dataset_case_count: the SELECT that counts.
CountCases(c) ==
  /\ pc[c] = "count"
  /\ counted' = [counted EXCEPT ![c] = Cardinality({k \in Cases : Seen(c)[k] = "active"})]
  /\ Go(c, "commit")
  /\ UNCHANGED <<dataset, kind, draft, edit, loaded>>

\* A change of cases is committed and answered.
CommitCases(c) ==
  /\ pc[c] = "commit" /\ kind[c] # "run"
  /\ CommitDataset(c)
  /\ Close(c)
  /\ Go(c, "idle")

DatasetStep(c) ==
  \/ BeginAdd(c) \/ BeginReview(c) \/ LoadDataset(c)
  \/ WriteCases(c) \/ CountCases(c) \/ CommitCases(c)
=============================================================================
