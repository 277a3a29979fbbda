---------------------------- MODULE MCAlgorithms ----------------------------
(***************************************************************************)
(* Algorithms over bounded inputs, for TLC.                                *)
(***************************************************************************)
EXTENDS Algorithms, TLC

\* Texts of five glyphs, five lines and page breaks, four chunks, three outcomes, three
\* reads after the suffix and the content type.
MCMaxLength == [text |-> 5, pages |-> 5, ranking |-> 4, outcomes |-> 3, upload |-> 5]

MCSizes == {<<limit, overlap>> \in (3..6) \X {0, 3, 4} : overlap < limit}

\* Lines by their characters: "e" and an accent that compose ("pair", once normalized
\* "joined"), the same with a zero-width space between ("split"), only that
\* ("hidden"), a page number with one ("parted") and one of wide digits ("wide").
MCSayings == {"a", "pair", "joined", "split", "hidden", "parted", "wide"}
MCNfkc == [s \in MCSayings |-> CASE s = "pair" -> "joined" [] s = "wide" -> "1/9" [] OTHER -> s]
MCVisible ==
  [s \in MCSayings |-> CASE s = "split" -> "pair" [] s = "hidden" -> "empty"
                         [] s = "parted" -> "1/9" [] OTHER -> s]

\* 1 / log2(rank + 1), in thousandths.
MCGain == <<1000, 631, 500, 431, 387, 356, 333, 315>>

\* A failed case retrieved nothing.
MCOutcomes ==
  {o \in [value : {0, 1000}, latency : {1, 2, 3}, src : {"manual", "synthetic"},
          label : {"hit", "not_recalled"}, failed : BOOLEAN] :
     /\ o.value = 0 <=> o.label = "not_recalled"
     /\ o.failed => o.label = "not_recalled"}

MCSourceWeights ==
  {<<>>, [manual |-> 2, synthetic |-> 1], [manual |-> 0], [synthetic |-> -1]}

MCScores == {<<0, 0, 0>>, <<1, 0, 1>>, <<1, 1, 1>>}

MCOverrides == {<<>>, [top_k |-> 8], [dataset_id |-> "d1"], [user |-> NoValue]}
=============================================================================
