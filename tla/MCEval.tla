------------------------------- MODULE MCEval -------------------------------
(* EvalRuns with model values, for TLC. *)
EXTENDS EvalInv, TLC

\* Requests, cases and runs are interchangeable.
Symmetry == Permutations(Clients) \cup Permutations(Cases) \cup Permutations(Runs)
=============================================================================
