----------------------------- MODULE MCListing -----------------------------
(* Listing, and Browse under it, with model values, for TLC. *)
EXTENDS Listing, TLC

\* Document identities are interchangeable.
Symmetry == Permutations(Docs)

\* Bounds.  Lists are requested only while one filename is in use, for a list asks nothing
\* of filenames (the other readers meet both), and followed only while there is a source
\* of which they promise anything.
InUse == {name[c] : c \in Clients} \cup {row[s].name : s \in Sources} \cup {file[2] : file \in files}
ListsBounded ==
  listing.step # "idle" => /\ InUse \subseteq {None, CHOOSE n \in Names : TRUE}
                           /\ Sources \ (raced \cup gone) # {}
=============================================================================
