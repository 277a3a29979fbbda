------------------------------- MODULE MCSeed -------------------------------
(* PublicSeed with model values, for TLC. *)
EXTENDS PublicSeed, TLC

\* Two files in the first library and one in the second.
SeedFiles == {<<"rules", 1>>, <<"rules", 2>>, <<"templates", 1>>}

\* A bound: requests are made only while there are no files, whose rows have nothing to
\* do with theirs.  Seeders and requests still share the table of collections.
RequestsApart ==
  \/ \A f \in Files : tree[f] = None /\ source[f] = NoSource
  \/ (\A c \in Callers : call[c] = NoCall) /\ \A i \in Ids : coll[i] # None => coll[i].owner = None

\* Contents, requests, seeding commands and row identities are interchangeable.
Symmetry ==
  Permutations(Contents) \cup Permutations(Callers) \cup Permutations(Seeders) \cup Permutations(Ids)
=============================================================================
