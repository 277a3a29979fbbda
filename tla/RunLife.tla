------------------------------ MODULE RunLife ------------------------------
(***************************************************************************)
(* What an evaluation run promises its reader: it is requested once, runs  *)
(* at most once, and ends at most once, completed with its report or       *)
(* failed with a message.  What has ended is history and never changes.    *)
(***************************************************************************)
CONSTANTS
  Runs,
  Reports,  \* what a completed run may report
  NoReport

VARIABLES
  stage,    \* "absent", "queued", "running", "completed" or "failed"
  report,
  message   \* the run has an error message

life == <<stage, report, message>>

LifeInit ==
  /\ stage = [r \in Runs |-> "absent"]
  /\ report = [r \in Runs |-> NoReport]
  /\ message = [r \in Runs |-> FALSE]

Request(r) ==
  /\ stage[r] = "absent"
  /\ stage' = [stage EXCEPT ![r] = "queued"]
  /\ UNCHANGED <<report, message>>

Begin(r) ==
  /\ stage[r] = "queued"
  /\ stage' = [stage EXCEPT ![r] = "running"]
  /\ UNCHANGED <<report, message>>

Complete(r) ==
  /\ stage[r] = "running"
  /\ stage' = [stage EXCEPT ![r] = "completed"]
  /\ \E rep \in Reports : report' = [report EXCEPT ![r] = rep]
  /\ UNCHANGED message

Fail(r) ==
  /\ stage[r] \in {"queued", "running"}
  /\ stage' = [stage EXCEPT ![r] = "failed"]
  /\ message' = [message EXCEPT ![r] = TRUE]
  /\ UNCHANGED report

LifeNext == \E r \in Runs : Request(r) \/ Begin(r) \/ Complete(r) \/ Fail(r)

LifeSpec == LifeInit /\ [][LifeNext]_life
=============================================================================
