------------------------------ MODULE Chunker ------------------------------
(***************************************************************************)
(* TextChunker (rag/chunker.py), the budget that ingest_service.py hands   *)
(* it, and the tokens that embeddings.py counts, as operators on texts.    *)
(*                                                                         *)
(* A text is a sequence of glyphs; a glyph is its place in the document    *)
(* and its class:                                                          *)
(*    c  a character that is a token      #  a heading mark ("\n## ")      *)
(*    w  a letter of a word               .  the end of a sentence         *)
(*    n  a line break, no token                                            *)
(* The four classes that separate stand for the ten separators: a heading  *)
(* and a line break open the piece on their right, a sentence end closes   *)
(* the one on its left.                                                    *)
(***************************************************************************)
EXTENDS Integers, SequencesExt, FiniteSetsExt, Functions

CONSTANTS
  MaxWord  \* a longer word is one [UNK] token

Classes == {"c", "w", "n", ".", "#"}

Glyph(place, class) == [place |-> place, class |-> class]
TextOf(classes) == [i \in DOMAIN classes |-> Glyph(i, classes[i])]

\* The line break that _join puts between two texts.
Break == Glyph(0, "n")

-----------------------------------------------------------------------------
(* LocalEmbedding.count_tokens.                                            *)

\* The words of s, each as <<first, last>>.
LetterRuns(s) == {w \in (DOMAIN s) \X (DOMAIN s) :
  /\ w[1] <= w[2] /\ \A k \in w[1]..w[2] : s[k].class = "w"
  /\ w[1] = 1 \/ s[w[1] - 1].class # "w"
  /\ w[2] = Len(s) \/ s[w[2] + 1].class # "w"}

\* A word is cut into tokens of two letters.
WordTokens(w) == LET letters == w[2] - w[1] + 1 IN
  IF letters > MaxWord THEN 1 ELSE (letters + 1) \div 2

SpecialTokens == 2  \* [CLS] and [SEP]

Tokens(s) ==
  SpecialTokens + Cardinality({i \in DOMAIN s : s[i].class \in {"c", "#", "."}})
                + SumFunction([w \in LetterRuns(s) |-> WordTokens(w)])

-----------------------------------------------------------------------------
(* Strings.                                                                *)

Inked(s) == {i \in DOMAIN s : s[i].class # "n"}

\* str.strip.
Strip(s) == IF Inked(s) = {} THEN <<>> ELSE SubSeq(s, Min(Inked(s)), Max(Inked(s)))

Join(left, right) == IF left = <<>> THEN Strip(right) ELSE Strip(left \o <<Break>> \o right)

\* The places of s where a piece opens.
Opens(s, separator) ==
  {i \in 2..Len(s) : IF separator = "." THEN s[i - 1].class = "."
                     ELSE s[i].class = separator}

\* MUTANT of CutAt: str.split, which drops the separator.
CutWithout(s, separator, pieces, i) ==
  IF s[i].class = separator THEN Append(pieces, <<>>)
  ELSE [pieces EXCEPT ![Len(pieces)] = Append(@, s[i])]

\* The i-th glyph opens a piece or joins the last one.
CutAt(s, separator, pieces, i) ==
  IF i \in Opens(s, separator) THEN Append(pieces, <<s[i]>>)
  ELSE [pieces EXCEPT ![Len(pieces)] = Append(@, s[i])]

\* _split_preserving_separator.  An empty first or last piece makes no difference.
PiecesAt(s, separator) ==
  FoldLeft(LAMBDA pieces, i : CutAt(s, separator, pieces, i), <<<<>>>>, [i \in DOMAIN s |-> i])

\* One turn of the binary search of _largest_prefix_within_limit ...
NarrowPrefix(s, limit, range) ==
  LET middle == (range.low + range.high + 1) \div 2 IN
  IF range.low >= range.high THEN range
  ELSE IF Tokens(SubSeq(s, 1, middle)) <= limit THEN [range EXCEPT !.low = middle]
       ELSE [range EXCEPT !.high = middle - 1]

\* ... and of _token_limited_tail: the tail starts after place low.
NarrowTail(s, limit, range) ==
  LET middle == (range.low + range.high) \div 2 IN
  IF range.low >= range.high THEN range
  ELSE IF Tokens(SubSeq(s, middle + 1, Len(s))) <= limit THEN [range EXCEPT !.high = middle]
       ELSE [range EXCEPT !.low = middle + 1]

\* Each turn takes a place away, so that as many turns as there are places are enough.
LargestPrefix(s, limit) ==
  FoldLeft(LAMBDA range, g : NarrowPrefix(s, limit, range), [low |-> 0, high |-> Len(s)], s).low
TailStart(s, limit) ==
  FoldLeft(LAMBDA range, g : NarrowTail(s, limit, range), [low |-> 0, high |-> Len(s)], s).low

TokenLimitedTail(s, limit) ==
  IF limit = 0 THEN <<>> ELSE Strip(SubSeq(s, TailStart(s, limit) + 1, Len(s)))

-----------------------------------------------------------------------------
(* Splitting.                                                              *)

\* The loop of _hard_split, for limits above SpecialTokens: a character always fits, so
\* that each turn takes one.  (With a lower limit it raises, and the ingestion fails.)
CutPrefix(state, limit) ==
  LET end == LargestPrefix(state.rest, limit) IN
  IF state.rest = <<>> THEN state
  ELSE [pieces |-> Append(state.pieces, Strip(SubSeq(state.rest, 1, end))),
        rest |-> Strip(SubSeq(state.rest, end + 1, Len(state.rest)))]

HardSplit(s, limit) ==
  FoldLeft(LAMBDA state, g : CutPrefix(state, limit), [pieces |-> <<>>, rest |-> s], s).pieces

\* _split_to_limit without a separator left.
SplitHard(s, limit) == IF Tokens(s) <= limit THEN <<s>> ELSE HardSplit(s, limit)

\* The pieces of s at a separator, stripped.
Parts(s, separator) ==
  LET pieces == PiecesAt(s, separator) IN [k \in DOMAIN pieces |-> Strip(pieces[k])]

\* What each of them was split into, in one sequence, without the empty ones.
AddPart(parts, part) == IF part = <<>> THEN parts ELSE Append(parts, part)
Extend(parts, more) == FoldLeft(AddPart, parts, more)
Flat(split) == FoldLeft(Extend, <<>>, split)

\* _split_to_limit with DEFAULT_SEPARATORS, in their order of preference.
SplitAtBreaks(s, limit) ==
  LET parts == Parts(s, "n") IN
  IF Tokens(s) <= limit THEN <<s>>
  ELSE Flat([k \in DOMAIN parts |-> SplitHard(parts[k], limit)])

SplitAtSentences(s, limit) ==
  LET parts == Parts(s, ".") IN
  IF Tokens(s) <= limit THEN <<s>>
  ELSE Flat([k \in DOMAIN parts |-> SplitAtBreaks(parts[k], limit)])

SplitToLimit(s, limit) ==
  LET parts == Parts(s, "#") IN
  IF Tokens(s) <= limit THEN <<s>>
  ELSE Flat([k \in DOMAIN parts |-> SplitAtSentences(parts[k], limit)])

\* MUTANT of AddPiece: the overlap is kept even when the piece fills the chunk.
AddPieceUnchecked(state, piece, limit, overlap) ==
  LET candidate == Join(state.current, piece) IN
  IF state.current # <<>> /\ Tokens(candidate) > limit
  THEN [chunks |-> Append(state.chunks, state.current),
        current |-> Join(TokenLimitedTail(state.current, overlap), piece)]
  ELSE [state EXCEPT !.current = candidate]

\* The loop of split: a piece that does not fit closes the chunk, and the next one
\* begins with the closed one's tail where that leaves room.
AddPiece(state, piece, limit, overlap) ==
  LET candidate == Join(state.current, piece)
      next == Join(TokenLimitedTail(state.current, overlap), piece)
  IN IF state.current # <<>> /\ Tokens(candidate) > limit
     THEN [chunks |-> Append(state.chunks, state.current),
           current |-> IF Tokens(next) <= limit THEN next ELSE piece]
     ELSE [state EXCEPT !.current = candidate]

Split(s, limit, overlap) ==
  IF Strip(s) = <<>> THEN <<>>
  ELSE LET Step(state, piece) == AddPiece(state, piece, limit, overlap)
           done == FoldLeft(Step, [chunks |-> <<>>, current |-> <<>>],
                            SplitToLimit(Strip(s), limit))
       IN Append(done.chunks, done.current)

PreserveAsSingleChunk(s) == IF Strip(s) = <<>> THEN <<>> ELSE <<Strip(s)>>

\* chunk_for_collection.
ChunkForCollection(s, wholeDocument, budget) ==
  IF wholeDocument THEN PreserveAsSingleChunk(s) ELSE Split(s, budget.limit, budget.overlap)

\* MUTANT of FitChunkBudget: the limit is capped and the overlap is not.
FitLimitOnly(limit, overlap, window) ==
  [limit |-> IF limit <= window THEN limit ELSE window, overlap |-> overlap]

\* _fit_chunk_budget.
FitChunkBudget(limit, overlap, window) ==
  IF limit <= window
  THEN [limit |-> limit, overlap |-> overlap]
  ELSE [limit |-> window, overlap |-> Min({(window * overlap) \div limit, window - 1})]

-----------------------------------------------------------------------------
(* Properties of text s.                                                   *)

\* The places of s that have ink.
Places(s) == {s[i].place : i \in Inked(s)}

\* Whatever size and overlap are configured (size above overlap) and whatever the
\* encoder's window, the fitted budget is one that TextChunker accepts and keeps to both.
BudgetFits(limit, overlap, window) ==
  LET budget == FitChunkBudget(limit, overlap, window) IN
  budget.overlap \in 0..budget.limit - 1 /\ budget.limit <= Min({limit, window})

\* No chunk is longer than its budget, special tokens, unknown words and joined
\* overlaps included.
ChunksFit(s, budget) ==
  LET chunks == ChunkForCollection(s, FALSE, budget) IN
  \A k \in DOMAIN chunks : Tokens(chunks[k]) <= budget.limit

\* No character is lost, repeated out of place or moved: each chunk is a stretch of
\* the text, begins at the latest where the one before it ended, and brings new text;
\* what it repeats is within the overlap.
ChunksCover(s, budget) ==
  \A wholeDocument \in BOOLEAN :
    LET chunks == ChunkForCollection(s, wholeDocument, budget)
        Repeated(k) == {i \in Inked(chunks[k]) : chunks[k][i].place \in Places(chunks[k - 1])}
    IN /\ UNION {Places(chunks[k]) : k \in DOMAIN chunks} = Places(s)
       /\ \A k \in DOMAIN chunks :
            /\ \A i, j \in Inked(chunks[k]) : i < j => chunks[k][i].place < chunks[k][j].place
            /\ Places(chunks[k]) = {p \in Places(s) : Min(Places(chunks[k])) <= p
                                                      /\ p <= Max(Places(chunks[k]))}
       /\ \A k \in DOMAIN chunks \ {1} :
            /\ Max(Places(chunks[k])) > Max(Places(chunks[k - 1]))
            /\ Repeated(k) # {} => Tokens(SubSeq(chunks[k], 1, Max(Repeated(k)))) <= budget.overlap
=============================================================================
