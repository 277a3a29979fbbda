------------------------------ MODULE Cleaner ------------------------------
(***************************************************************************)
(* TextCleaner (rag/cleaner.py) as an operator on lines.                   *)
(*                                                                         *)
(* A text is a sequence of lines, parted by "\n" alone, and page breaks    *)
(* ("page").  A line is stripped: "empty", a page number ("1/9", another   *)
(* at every place), or some other text.  Nfkc and Visible say what becomes of *)
(* such a text when its characters are normalized, and when its zero-width *)
(* and control characters are removed.                                     *)
(***************************************************************************)
EXTENDS Integers, SequencesExt, FiniteSetsExt

CONSTANTS
  Sayings, \* what a line that is neither empty nor a page number may say
  Nfkc,    \* unicodedata.normalize("NFKC", ...), and a strip
  Visible  \* without zero-width and control characters, and a strip

\* What a line of a text may say.
LineTexts == {"empty", "1/9", "page"} \cup Sayings

\* What a line says once it is normalized, and once its invisible characters went.
Normal == {Nfkc[says] : says \in Sayings} \cap Sayings
Shown == {Visible[says] : says \in Normal} \cap Sayings

\* Facts about Unicode.  What is removed may have kept two characters apart that
\* compose, so what is shown may be normalized again; nothing more comes of it.
ASSUME CharactersAssumption ==
  /\ Sayings \cap {"empty", "1/9", "page"} = {}
  /\ Nfkc \in [Sayings -> Sayings \cup {"1/9"}]
  /\ Visible \in [Sayings -> Sayings \cup {"empty", "1/9"}]
  /\ \A says \in Shown : /\ Nfkc[says] \in Sayings
                         /\ Nfkc[Nfkc[says]] = Nfkc[says]
                         /\ Visible[Nfkc[says]] = Nfkc[says]

Line(place, says) == [place |-> place, says |-> says]
Lines(texts) == [i \in DOMAIN texts |-> Line(i, texts[i])]

Blank == Line(0, "empty")
IsBlank(line) == line.says = "empty"
IsPageNumber(line) == line.says = "1/9"

\* Two lines say the same.
Same(line, other) == line.says = other.says /\ (IsPageNumber(line) => line.place = other.place)

-----------------------------------------------------------------------------
(* _remove_repeated_page_margins.                                          *)

\* text.split("\f"): a page break opens a page, any other line joins the last one.
AddLine(pages, line) ==
  IF line.says = "page" THEN Append(pages, <<>>)
  ELSE [pages EXCEPT ![Len(pages)] = Append(@, line)]
Pages(text) == FoldLeft(AddLine, <<<<>>>>, text)

Content(lines) == {i \in DOMAIN lines : ~IsBlank(lines[i])}

\* str.strip on joined lines.
StripBlank(lines) ==
  IF Content(lines) = {} THEN <<>> ELSE SubSeq(lines, Min(Content(lines)), Max(Content(lines)))

\* _first_content_line and _last_content_line of every page that has one.
FirstLines(pages) ==
  [k \in {k \in DOMAIN pages : Content(pages[k]) # {}} |-> pages[k][Min(Content(pages[k]))]]
LastLines(pages) ==
  [k \in {k \in DOMAIN pages : Content(pages[k]) # {}} |-> pages[k][Max(Content(pages[k]))]]

Threshold(pages) == Max({2, (Len(pages) + 1) \div 2})

\* The line is the margin of as many pages as the threshold asks.
Repeats(line, margins, pages) ==
  Cardinality({k \in DOMAIN margins : Same(margins[k], line)}) >= Threshold(pages)

\* MUTANT of WithoutMargins: the margins are removed wherever they occur.
WithoutMarginLines(lines, pages) ==
  SelectSeq(lines, LAMBDA line : ~Repeats(line, FirstLines(pages), pages)
                                 /\ ~Repeats(line, LastLines(pages), pages))

\* The page without its first line, and then without its last, if they repeat.
WithoutMargins(lines, pages) ==
  LET first == Min(Content(lines))
      body == IF Content(lines) # {} /\ Repeats(lines[first], FirstLines(pages), pages)
              THEN RemoveAt(lines, first) ELSE lines
      last == Max(Content(body))
  IN IF Content(body) # {} /\ Repeats(body[last], LastLines(pages), pages)
     THEN RemoveAt(body, last) ELSE body

\* Pages that are not empty are joined by an empty line.
AddPage(joined, page) ==
  IF page = <<>> THEN joined
  ELSE IF joined = <<>> THEN page ELSE joined \o <<Blank>> \o page
JoinPages(pages) == FoldLeft(AddPage, <<>>, pages)

RemoveRepeatedPageMargins(text) ==
  LET pages == Pages(text) IN
  IF Len(pages) < 2 THEN text
  ELSE JoinPages([k \in DOMAIN pages |-> StripBlank(WithoutMargins(pages[k], pages))])

-----------------------------------------------------------------------------
(* clean.                                                                  *)

\* Every line says what f makes of it.
Rewritten(lines, f) ==
  [i \in DOMAIN lines |->
    IF lines[i].says \in Sayings THEN [lines[i] EXCEPT !.says = f[@]] ELSE lines[i]]

Normalized(text) == Rewritten(text, Nfkc)
WithoutInvisible(text) == Rewritten(text, Visible)

\* _PAGE_NUMBER_LINE: such a line goes.
KeepBody(kept, line) == IF IsPageNumber(line) THEN kept ELSE Append(kept, line)
WithoutPageNumbers(lines) == FoldLeft(KeepBody, <<>>, lines)

\* _EXCESS_BLANK_LINES: an empty line that follows another goes.
KeepApart(kept, line) ==
  IF IsBlank(line) /\ kept # <<>> /\ IsBlank(Last(kept)) THEN kept ELSE Append(kept, line)
Collapse(lines) == FoldLeft(KeepApart, <<>>, lines)

\* MUTANT of Clean: empty lines are collapsed before the page numbers between them go.
CleanCollapsingFirst(text) ==
  LET shown == WithoutInvisible(RemoveRepeatedPageMargins(Normalized(text))) IN
  StripBlank(WithoutPageNumbers(Collapse(shown)))

\* Characters are normalized before margins are compared, invisible ones removed
\* after.
Clean(text) ==
  LET shown == WithoutInvisible(RemoveRepeatedPageMargins(Normalized(text))) IN
  StripBlank(Collapse(WithoutPageNumbers(shown)))

-----------------------------------------------------------------------------
(* Properties of a text.                                                   *)

\* Cleaning what is clean only normalizes characters that have come together, line
\* by line, and cleaning that changes nothing.
CleanSettles(text) ==
  LET once == Clean(text)
      twice == Clean(once)
  IN twice = Normalized(once) /\ Clean(twice) = twice

\* The places of the lines that say something.
Said(lines) == {lines[i].place : i \in {i \in DOMAIN lines :
                  ~IsBlank(lines[i]) /\ ~IsPageNumber(lines[i]) /\ lines[i].says # "page"}}

\* Cleaning keeps every line that says something visible, in its order and paragraphs
\* apart, but page numbers and at most the first and the last line of a page, where
\* another page begins or ends with the same line.
CleanKeepsBody(text) ==
  LET normal == Normalized(text)
      kept == Clean(text)
      pages == Pages(normal)
      Margin(k) == {i \in Content(pages[k]) :
        \/ \A j \in Content(pages[k]) : i <= j
        \/ \A j \in Content(pages[k]) : i >= j}
      Elsewhere(k, i) == \E l \in DOMAIN pages \ {k} :
        \E j \in Margin(l) : Same(pages[k][i], pages[l][j])
      lost == Said(WithoutInvisible(normal)) \ Said(kept)
  IN /\ \A i, j \in Content(kept) : i < j => kept[i].place < kept[j].place
     /\ \A k \in DOMAIN pages, p \in lost :
          \A i \in DOMAIN pages[k] :
            pages[k][i].place = p => i \in Margin(k) /\ Elsewhere(k, i)
     /\ \A i \in 1..Len(text) - 2 :
          {i, i + 2} \subseteq Said(kept) /\ IsBlank(text[i + 1])
            => \E j \in DOMAIN kept : kept[j].place = i + 1
=============================================================================
