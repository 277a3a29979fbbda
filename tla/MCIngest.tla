------------------------------ MODULE MCIngest ------------------------------
(* Ingest with model values, for TLC. *)
EXTENDS IngestInv, TLC

\* Clients and document identities are interchangeable.
Symmetry == Permutations(Clients) \cup Permutations(Docs)
=============================================================================
