---------------------------- MODULE CleanerProofs ----------------------------
(***************************************************************************)
(* What Cleaner does to lines of every number and on every page: cleaning  *)
(* again changes nothing, and the body stays.                              *)
(***************************************************************************)
EXTENDS Cleaner, Induction

-----------------------------------------------------------------------------
(* The folds of the cleaner: the states they go through.                   *)

Goes(h, n, from, to) == h[0] = from /\ h[n] = to

\* text.split.
LEMMA PagesPath ==
  ASSUME NEW S, NEW s \in Seq(S), NEW V, << <<>> >> \in V,
         \A v \in V, x \in S : AddLine(v, x) \in V
  PROVE  \E h \in [0..Len(s) -> V] :
           Goes(h, Len(s), << <<>> >>, Pages(s))
           /\ \A i \in 1..Len(s) : h[i] = AddLine(h[i - 1], s[i])
<1> DEFINE base == << <<>> >>
           n == Len(s)
           D == 1..n
           step == [x \in D |-> [v \in V |-> AddLine(v, s[x])]]
           it == CHOOSE it : it = [d \in SUBSET D |->
                   IF d = {} THEN base ELSE AddLine(it[d \ {Max(d)}], s[Max(d)])]
<1>0. base \in V
  OBVIOUS
<1>1. DOMAIN s = D /\ n \in Nat
  OBVIOUS
<1>2. Steps(step, n, V)
  BY <1>1 DEF Steps
<1>3. \A x \in D, v \in V : step[x][v] = AddLine(v, s[x])
  OBVIOUS
<1> HIDE DEF step, n, base
<1>4. PICK f : FoldsLeft(f, n, V, base, step)
  BY <1>0, <1>1, <1>2, FoldLeftExists
<1>5. f = [d \in SUBSET D |-> IF d = {} THEN base ELSE AddLine(f[d \ {Max(d)}], s[Max(d)])]
  <2>1. \A d \in SUBSET D : f[d] = IF d = {} THEN base ELSE AddLine(f[d \ {Max(d)}], s[Max(d)])
    BY <1>3, <1>4 DEF FoldsLeft
  <2> QED BY <1>4, <2>1 DEF FoldsLeft
<1>6. it = [d \in SUBSET D |-> IF d = {} THEN base ELSE AddLine(it[d \ {Max(d)}], s[Max(d)])]
  BY <1>5, Zenon
<1>7. Pages(s) = it[D]
  BY <1>1, Zenon DEF Pages, FoldLeft, MapThenFoldSet, base, n
<1> HIDE DEF it
<1>8. it[{}] = base
  BY <1>6
<1>9. ASSUME NEW d \in SUBSET (1..n), d # {}, Max(d) \in 1..n, it[d \ {Max(d)}] \in V
      PROVE  it[d] = step[Max(d)][it[d \ {Max(d)}]]
  BY <1>1, <1>3, <1>6, <1>9
<1>15. \A d \in SUBSET (1..n) : d # {} /\ Max(d) \in 1..n /\ it[d \ {Max(d)}] \in V
         => it[d] = step[Max(d)][it[d \ {Max(d)}]]
  BY <1>9
<1> HIDE DEF D
<1>16. n \in Nat /\ base \in V
  BY <1>0, <1>1
<1>17. Recurs(it, n, V, base, step)
  BY <1>2, <1>8, <1>15, <1>16 DEF Recurs
<1>18. PICK h : Walks(h, n, V, base, step, it[1..n])
  BY <1>17, FoldPath
<1>10. h \in [0..n -> V] /\ h[0] = base /\ h[n] = it[1..n] /\ \A i \in 1..n : h[i] = step[i][h[i - 1]]
  BY <1>18 DEF Walks
<1>11. \A i \in 1..n : i - 1 \in 0..n
  BY <1>16
<1>12. \A i \in 1..n : h[i - 1] \in V
  BY <1>10, <1>11
<1>13. \A i \in 1..n : h[i] = AddLine(h[i - 1], s[i])
  BY <1>3, <1>10, <1>12 DEF D
<1>14. Goes(h, n, base, Pages(s))
  BY <1>7, <1>10 DEF Goes, D
<1> QED BY <1>10, <1>13, <1>14 DEF n, base

\* The join of the pages.
LEMMA JoinPath ==
  ASSUME NEW S, NEW s \in Seq(S), NEW V, <<>> \in V,
         \A v \in V, x \in S : AddPage(v, x) \in V
  PROVE  \E h \in [0..Len(s) -> V] :
           Goes(h, Len(s), <<>>, JoinPages(s))
           /\ \A i \in 1..Len(s) : h[i] = AddPage(h[i - 1], s[i])
<1> DEFINE base == <<>>
           n == Len(s)
           D == 1..n
           step == [x \in D |-> [v \in V |-> AddPage(v, s[x])]]
           it == CHOOSE it : it = [d \in SUBSET D |->
                   IF d = {} THEN base ELSE AddPage(it[d \ {Max(d)}], s[Max(d)])]
<1>0. base \in V
  OBVIOUS
<1>1. DOMAIN s = D /\ n \in Nat
  OBVIOUS
<1>2. Steps(step, n, V)
  BY <1>1 DEF Steps
<1>3. \A x \in D, v \in V : step[x][v] = AddPage(v, s[x])
  OBVIOUS
<1> HIDE DEF step, n, base
<1>4. PICK f : FoldsLeft(f, n, V, base, step)
  BY <1>0, <1>1, <1>2, FoldLeftExists
<1>5. f = [d \in SUBSET D |-> IF d = {} THEN base ELSE AddPage(f[d \ {Max(d)}], s[Max(d)])]
  <2>1. \A d \in SUBSET D : f[d] = IF d = {} THEN base ELSE AddPage(f[d \ {Max(d)}], s[Max(d)])
    BY <1>3, <1>4 DEF FoldsLeft
  <2> QED BY <1>4, <2>1 DEF FoldsLeft
<1>6. it = [d \in SUBSET D |-> IF d = {} THEN base ELSE AddPage(it[d \ {Max(d)}], s[Max(d)])]
  BY <1>5, Zenon
<1>7. JoinPages(s) = it[D]
  BY <1>1, Zenon DEF JoinPages, FoldLeft, MapThenFoldSet, base, n
<1> HIDE DEF it
<1>8. it[{}] = base
  BY <1>6
<1>9. ASSUME NEW d \in SUBSET (1..n), d # {}, Max(d) \in 1..n, it[d \ {Max(d)}] \in V
      PROVE  it[d] = step[Max(d)][it[d \ {Max(d)}]]
  BY <1>1, <1>3, <1>6, <1>9
<1>15. \A d \in SUBSET (1..n) : d # {} /\ Max(d) \in 1..n /\ it[d \ {Max(d)}] \in V
         => it[d] = step[Max(d)][it[d \ {Max(d)}]]
  BY <1>9
<1> HIDE DEF D
<1>16. n \in Nat /\ base \in V
  BY <1>0, <1>1
<1>17. Recurs(it, n, V, base, step)
  BY <1>2, <1>8, <1>15, <1>16 DEF Recurs
<1>18. PICK h : Walks(h, n, V, base, step, it[1..n])
  BY <1>17, FoldPath
<1>10. h \in [0..n -> V] /\ h[0] = base /\ h[n] = it[1..n] /\ \A i \in 1..n : h[i] = step[i][h[i - 1]]
  BY <1>18 DEF Walks
<1>11. \A i \in 1..n : i - 1 \in 0..n
  BY <1>16
<1>12. \A i \in 1..n : h[i - 1] \in V
  BY <1>10, <1>11
<1>13. \A i \in 1..n : h[i] = AddPage(h[i - 1], s[i])
  BY <1>3, <1>10, <1>12 DEF D
<1>14. Goes(h, n, base, JoinPages(s))
  BY <1>7, <1>10 DEF Goes, D
<1> QED BY <1>10, <1>13, <1>14 DEF n, base

\* The lines that stay.
LEMMA BodyPath ==
  ASSUME NEW S, NEW s \in Seq(S), NEW V, <<>> \in V,
         \A v \in V, x \in S : KeepBody(v, x) \in V
  PROVE  \E h \in [0..Len(s) -> V] :
           Goes(h, Len(s), <<>>, WithoutPageNumbers(s))
           /\ \A i \in 1..Len(s) : h[i] = KeepBody(h[i - 1], s[i])
<1> DEFINE base == <<>>
           n == Len(s)
           D == 1..n
           step == [x \in D |-> [v \in V |-> KeepBody(v, s[x])]]
           it == CHOOSE it : it = [d \in SUBSET D |->
                   IF d = {} THEN base ELSE KeepBody(it[d \ {Max(d)}], s[Max(d)])]
<1>0. base \in V
  OBVIOUS
<1>1. DOMAIN s = D /\ n \in Nat
  OBVIOUS
<1>2. Steps(step, n, V)
  BY <1>1 DEF Steps
<1>3. \A x \in D, v \in V : step[x][v] = KeepBody(v, s[x])
  OBVIOUS
<1> HIDE DEF step, n, base
<1>4. PICK f : FoldsLeft(f, n, V, base, step)
  BY <1>0, <1>1, <1>2, FoldLeftExists
<1>5. f = [d \in SUBSET D |-> IF d = {} THEN base ELSE KeepBody(f[d \ {Max(d)}], s[Max(d)])]
  <2>1. \A d \in SUBSET D : f[d] = IF d = {} THEN base ELSE KeepBody(f[d \ {Max(d)}], s[Max(d)])
    BY <1>3, <1>4 DEF FoldsLeft
  <2> QED BY <1>4, <2>1 DEF FoldsLeft
<1>6. it = [d \in SUBSET D |-> IF d = {} THEN base ELSE KeepBody(it[d \ {Max(d)}], s[Max(d)])]
  BY <1>5, Zenon
<1>7. WithoutPageNumbers(s) = it[D]
  BY <1>1, Zenon DEF WithoutPageNumbers, FoldLeft, MapThenFoldSet, base, n
<1> HIDE DEF it
<1>8. it[{}] = base
  BY <1>6
<1>9. ASSUME NEW d \in SUBSET (1..n), d # {}, Max(d) \in 1..n, it[d \ {Max(d)}] \in V
      PROVE  it[d] = step[Max(d)][it[d \ {Max(d)}]]
  BY <1>1, <1>3, <1>6, <1>9
<1>15. \A d \in SUBSET (1..n) : d # {} /\ Max(d) \in 1..n /\ it[d \ {Max(d)}] \in V
         => it[d] = step[Max(d)][it[d \ {Max(d)}]]
  BY <1>9
<1> HIDE DEF D
<1>16. n \in Nat /\ base \in V
  BY <1>0, <1>1
<1>17. Recurs(it, n, V, base, step)
  BY <1>2, <1>8, <1>15, <1>16 DEF Recurs
<1>18. PICK h : Walks(h, n, V, base, step, it[1..n])
  BY <1>17, FoldPath
<1>10. h \in [0..n -> V] /\ h[0] = base /\ h[n] = it[1..n] /\ \A i \in 1..n : h[i] = step[i][h[i - 1]]
  BY <1>18 DEF Walks
<1>11. \A i \in 1..n : i - 1 \in 0..n
  BY <1>16
<1>12. \A i \in 1..n : h[i - 1] \in V
  BY <1>10, <1>11
<1>13. \A i \in 1..n : h[i] = KeepBody(h[i - 1], s[i])
  BY <1>3, <1>10, <1>12 DEF D
<1>14. Goes(h, n, base, WithoutPageNumbers(s))
  BY <1>7, <1>10 DEF Goes, D
<1> QED BY <1>10, <1>13, <1>14 DEF n, base

\* The empty lines that stay.
LEMMA ApartPath ==
  ASSUME NEW S, NEW s \in Seq(S), NEW V, <<>> \in V,
         \A v \in V, x \in S : KeepApart(v, x) \in V
  PROVE  \E h \in [0..Len(s) -> V] :
           Goes(h, Len(s), <<>>, Collapse(s))
           /\ \A i \in 1..Len(s) : h[i] = KeepApart(h[i - 1], s[i])
<1> DEFINE base == <<>>
           n == Len(s)
           D == 1..n
           step == [x \in D |-> [v \in V |-> KeepApart(v, s[x])]]
           it == CHOOSE it : it = [d \in SUBSET D |->
                   IF d = {} THEN base ELSE KeepApart(it[d \ {Max(d)}], s[Max(d)])]
<1>0. base \in V
  OBVIOUS
<1>1. DOMAIN s = D /\ n \in Nat
  OBVIOUS
<1>2. Steps(step, n, V)
  BY <1>1 DEF Steps
<1>3. \A x \in D, v \in V : step[x][v] = KeepApart(v, s[x])
  OBVIOUS
<1> HIDE DEF step, n, base
<1>4. PICK f : FoldsLeft(f, n, V, base, step)
  BY <1>0, <1>1, <1>2, FoldLeftExists
<1>5. f = [d \in SUBSET D |-> IF d = {} THEN base ELSE KeepApart(f[d \ {Max(d)}], s[Max(d)])]
  <2>1. \A d \in SUBSET D : f[d] = IF d = {} THEN base ELSE KeepApart(f[d \ {Max(d)}], s[Max(d)])
    BY <1>3, <1>4 DEF FoldsLeft
  <2> QED BY <1>4, <2>1 DEF FoldsLeft
<1>6. it = [d \in SUBSET D |-> IF d = {} THEN base ELSE KeepApart(it[d \ {Max(d)}], s[Max(d)])]
  BY <1>5, Zenon
<1>7. Collapse(s) = it[D]
  BY <1>1, Zenon DEF Collapse, FoldLeft, MapThenFoldSet, base, n
<1> HIDE DEF it
<1>8. it[{}] = base
  BY <1>6
<1>9. ASSUME NEW d \in SUBSET (1..n), d # {}, Max(d) \in 1..n, it[d \ {Max(d)}] \in V
      PROVE  it[d] = step[Max(d)][it[d \ {Max(d)}]]
  BY <1>1, <1>3, <1>6, <1>9
<1>15. \A d \in SUBSET (1..n) : d # {} /\ Max(d) \in 1..n /\ it[d \ {Max(d)}] \in V
         => it[d] = step[Max(d)][it[d \ {Max(d)}]]
  BY <1>9
<1> HIDE DEF D
<1>16. n \in Nat /\ base \in V
  BY <1>0, <1>1
<1>17. Recurs(it, n, V, base, step)
  BY <1>2, <1>8, <1>15, <1>16 DEF Recurs
<1>18. PICK h : Walks(h, n, V, base, step, it[1..n])
  BY <1>17, FoldPath
<1>10. h \in [0..n -> V] /\ h[0] = base /\ h[n] = it[1..n] /\ \A i \in 1..n : h[i] = step[i][h[i - 1]]
  BY <1>18 DEF Walks
<1>11. \A i \in 1..n : i - 1 \in 0..n
  BY <1>16
<1>12. \A i \in 1..n : h[i - 1] \in V
  BY <1>10, <1>11
<1>13. \A i \in 1..n : h[i] = KeepApart(h[i - 1], s[i])
  BY <1>3, <1>10, <1>12 DEF D
<1>14. Goes(h, n, base, Collapse(s))
  BY <1>7, <1>10 DEF Goes, D
<1> QED BY <1>10, <1>13, <1>14 DEF n, base

-----------------------------------------------------------------------------
(* Pages.                                                                  *)

\* The lines that break no page.
Unpaged(L) == {x \in L : x.says # "page"}

\* Texts in pages.
Paged(L) == {v \in Seq(Seq(Unpaged(L))) : v # <<>>}

\* What a line does to the pages v.
LineJoins(v, x, w) ==
  /\ Len(v) \in Nat /\ Len(v) >= 1 /\ DOMAIN v = 1..Len(v) /\ DOMAIN w = 1..Len(w)
  /\ x.says = "page" => /\ Len(w) = Len(v) + 1 /\ w[Len(v) + 1] = <<>>
                        /\ \A k \in 1..Len(v) : w[k] = v[k]
  /\ x.says # "page" => /\ Len(w) = Len(v) /\ w[Len(v)] = Append(v[Len(v)], x)
                        /\ \A k \in 1..(Len(v) - 1) : w[k] = v[k]

LEMMA LineAdded ==
  ASSUME NEW L, NEW v \in Paged(L), NEW x \in L
  PROVE  AddLine(v, x) \in Paged(L) /\ LineJoins(v, x, AddLine(v, x))
<1> DEFINE U == Unpaged(L)
           n == Len(v)
<1>1. v \in Seq(Seq(U)) /\ n \in Nat /\ n >= 1 /\ DOMAIN v = 1..n
  BY DEF Paged
<1>2. CASE x.says = "page"
  <2>1. AddLine(v, x) = Append(v, <<>>)
    BY <1>2 DEF AddLine
  <2>2. <<>> \in Seq(U)
    OBVIOUS
  <2> HIDE DEF U
  <2>3. Append(v, <<>>) \in Seq(Seq(U)) /\ Len(Append(v, <<>>)) = n + 1
        /\ Append(v, <<>>)[n + 1] = <<>> /\ \A k \in 1..n : Append(v, <<>>)[k] = v[k]
    BY <1>1, <2>2
  <2>4. Append(v, <<>>) # <<>>
    BY <1>1, <2>3
  <2> QED BY <1>1, <1>2, <2>1, <2>3, <2>4 DEF Paged, U, LineJoins
<1>3. CASE x.says # "page"
  <2> DEFINE page == Append(v[n], x)
             w == [v EXCEPT ![n] = page]
  <2>1. AddLine(v, x) = w
    BY <1>3 DEF AddLine
  <2>2. x \in U
    BY <1>3 DEF Unpaged
  <2>3. page \in Seq(U)
    <3>1. v[n] \in Seq(U)
      BY <1>1
    <3> HIDE DEF U
    <3> QED BY <2>2, <3>1
  <2> HIDE DEF page, U
  <2>6. n \in 1..Len(v) /\ page \in Seq(U) /\ v \in Seq(Seq(U))
    BY <1>1, <2>3
  <2>7. w \in Seq(Seq(U)) /\ Len(w) = Len(v) /\ w[n] = page
        /\ \A k \in 1..Len(v) : k # n => w[k] = v[k]
    BY <2>6, ItemReplaced
  <2>8. n = Len(v) /\ n \in Nat /\ n >= 1
    BY <1>1
  <2> HIDE DEF w, n
  <2>9. ASSUME NEW k \in 1..(n - 1) PROVE w[k] = v[k]
    <3>1. k \in 1..Len(v) /\ k # n
      BY <2>8
    <3> QED BY <2>7, <3>1
  <2>4. w \in Seq(Seq(U)) /\ Len(w) = n /\ w[n] = page /\ \A k \in 1..(n - 1) : w[k] = v[k]
    BY <2>7, <2>8, <2>9
  <2>5. w # <<>>
    BY <2>8, <2>4
  <2> HIDE DEF w
  <2>10. w \in Paged(L)
    BY <2>4, <2>5 DEF Paged, U
  <2>11. DOMAIN w = 1..Len(w)
    BY <2>4
  <2>12. w[n] = Append(v[n], x)
    BY <2>4 DEF page
  <2>13. LineJoins(v, x, w)
    BY <1>1, <1>3, <2>4, <2>8, <2>11, <2>12 DEF LineJoins
  <2> QED BY <2>1, <2>10, <2>13
<1> QED BY <1>2, <1>3

LEMMA PagesBegin ==
  ASSUME NEW L
  PROVE  << <<>> >> \in Paged(L)
<1> DEFINE U == Unpaged(L)
<1> HIDE DEF U
<1>1. <<>> \in Seq(U)
  OBVIOUS
<1>2. << <<>> >> \in Seq(Seq(U)) /\ << <<>> >> # <<>>
  BY <1>1
<1> QED BY <1>2 DEF Paged, U

\* The pages as they are read, line by line.
PagesRead(h, s, L) ==
  /\ h \in [0..Len(s) -> Paged(L)]
  /\ h[0] = << <<>> >> /\ h[Len(s)] = Pages(s)
  /\ \A i \in 1..Len(s) : h[i] = AddLine(h[i - 1], s[i])

LEMMA PagesAreRead ==
  ASSUME NEW L, NEW s \in Seq(L)
  PROVE  \E h : PagesRead(h, s, L)
<1>1. << <<>> >> \in Paged(L)
  BY PagesBegin
<1>2. \A v \in Paged(L), x \in L : AddLine(v, x) \in Paged(L)
  BY LineAdded
<1>3. PICK h \in [0..Len(s) -> Paged(L)] :
        Goes(h, Len(s), << <<>> >>, Pages(s)) /\ \A i \in 1..Len(s) : h[i] = AddLine(h[i - 1], s[i])
  BY <1>1, <1>2, PagesPath
<1> QED BY <1>3 DEF Goes, PagesRead

LEMMA PagesAreTexts ==
  ASSUME NEW L, NEW s \in Seq(L)
  PROVE  Pages(s) \in Paged(L)
<1>1. PICK h : PagesRead(h, s, L)
  BY PagesAreRead
<1>2. Len(s) \in Nat
  OBVIOUS
<1> QED BY <1>1, <1>2 DEF PagesRead

\* A text without a page break is one page.
LEMMA OnePage ==
  ASSUME NEW L, NEW s \in Seq(L), \A i \in DOMAIN s : s[i].says # "page"
  PROVE  Pages(s) = << s >>
<1> DEFINE n == Len(s)
<1>1. PICK h : PagesRead(h, s, L)
  BY PagesAreRead
<1>2. n \in Nat /\ DOMAIN s = 1..n /\ \A i \in 1..n : s[i] \in L
  OBVIOUS
<1>3. SubSeq(s, 1, 0) = <<>> /\ SubSeq(s, 1, n) = s
      /\ \A i \in 1..n : SubSeq(s, 1, i) = Append(SubSeq(s, 1, i - 1), s[i])
  BY FirstLinesOf
<1> HIDE DEF n
<1> DEFINE P == {i \in 0..n : h[i] = << SubSeq(s, 1, i) >>}
<1>8. h[0] = << <<>> >>
  BY <1>1 DEF PagesRead
<1>9. h[0] = << SubSeq(s, 1, 0) >>
  BY <1>3, <1>8, Zenon
<1>4. 0 \in P
  BY <1>2, <1>9
<1>5. ASSUME NEW i \in 1..n, i - 1 \in P PROVE i \in P
  <2> DEFINE b == SubSeq(s, 1, i - 1)
             x == s[i]
  <2>1. h[i] = AddLine(<< b >>, x)
    BY <1>1, <1>5 DEF PagesRead, n
  <2>2. x.says # "page" /\ SubSeq(s, 1, i) = Append(b, x) /\ i \in 0..n
    BY <1>2, <1>3
  <2> HIDE DEF b, x
  <2>3. AddLine(<< b >>, x) = << Append(b, x) >>
    BY <2>2 DEF AddLine
  <2> QED BY <2>1, <2>2, <2>3
<1> HIDE DEF P
<1>6. n \in P
  BY <1>2, <1>4, <1>5, Along
<1>7. h[n] = << s >>
  BY <1>3, <1>6 DEF P
<1> QED BY <1>1, <1>7 DEF PagesRead, n

\* And one page has no page break.
LEMMA OnePageOnly ==
  ASSUME NEW L, NEW s \in Seq(L), Len(Pages(s)) < 2
  PROVE  \A i \in DOMAIN s : s[i].says # "page"
<1> SUFFICES ASSUME NEW j \in DOMAIN s, s[j].says = "page" PROVE FALSE
  OBVIOUS
<1> DEFINE n == Len(s)
<1>1. PICK h : PagesRead(h, s, L)
  BY PagesAreRead
<1>2. n \in Nat /\ DOMAIN s = 1..n /\ \A i \in 1..n : s[i] \in L
  OBVIOUS
<1>3. /\ h \in [0..n -> Paged(L)] /\ h[n] = Pages(s)
      /\ \A i \in 1..n : h[i] = AddLine(h[i - 1], s[i])
  BY <1>1 DEF PagesRead
<1> HIDE DEF n
<1> DEFINE P == {i \in 0..n : j <= i => Len(h[i]) >= 2}
<1>4. 0 \in P
  BY <1>2
<1>5. ASSUME NEW i \in 1..n, i - 1 \in P PROVE i \in P
  <2>1. i - 1 \in 0..n /\ i \in 0..n
    BY <1>2
  <2>2. h[i - 1] \in Paged(L) /\ s[i] \in L /\ h[i] = AddLine(h[i - 1], s[i])
    BY <1>2, <1>3, <2>1
  <2>3. /\ Len(h[i - 1]) \in Nat /\ Len(h[i - 1]) >= 1
        /\ s[i].says = "page" => Len(h[i]) = Len(h[i - 1]) + 1
        /\ s[i].says # "page" => Len(h[i]) = Len(h[i - 1])
    <3> DEFINE v == h[i - 1]
               x == s[i]
    <3>1. v \in Paged(L) /\ x \in L /\ h[i] = AddLine(v, x)
      BY <2>2
    <3> HIDE DEF v, x
    <3>3. LineJoins(v, x, AddLine(v, x))
      BY <3>1, LineAdded
    <3>2. /\ Len(v) \in Nat /\ Len(v) >= 1
          /\ x.says = "page" => Len(AddLine(v, x)) = Len(v) + 1
          /\ x.says # "page" => Len(AddLine(v, x)) = Len(v)
      BY <3>3 DEF LineJoins
    <3> QED BY <3>1, <3>2 DEF v, x
  <2>4. j <= i - 1 \/ j = i \/ j > i
    BY <1>2
  <2> QED BY <1>2, <1>5, <2>1, <2>3, <2>4
<1> HIDE DEF P
<1>6. n \in P
  BY <1>2, <1>4, <1>5, Along
<1> QED BY <1>2, <1>3, <1>6 DEF P

-----------------------------------------------------------------------------
(* Lines taken away.                                                       *)

LEMMA ItemRemoved ==
  ASSUME NEW S, NEW s \in Seq(S), NEW i \in 1..Len(s)
  PROVE  /\ RemoveAt(s, i) \in Seq(S) /\ Len(RemoveAt(s, i)) = Len(s) - 1
         /\ \A j \in 1..(Len(s) - 1) : RemoveAt(s, i)[j] = IF j < i THEN s[j] ELSE s[j + 1]
<1> DEFINE n == Len(s)
           a == SubSeq(s, 1, i - 1)
           b == SubSeq(s, i + 1, n)
<1>0. n \in Nat /\ i \in Nat /\ 1 <= i /\ i <= n
  OBVIOUS
<1>1. a \in Seq(S) /\ Len(a) = i - 1 /\ \A j \in 1..(i - 1) : a[j] = s[j]
  OBVIOUS
<1>2. b \in Seq(S) /\ Len(b) = n - i /\ \A j \in 1..(n - i) : b[j] = s[j + i]
  OBVIOUS
<1>3. RemoveAt(s, i) = a \o b
  BY DEF RemoveAt
<1> HIDE DEF a, b, n
<1>4. a \o b \in Seq(S) /\ Len(a \o b) = Len(a) + Len(b)
      /\ (\A j \in 1..Len(a) : (a \o b)[j] = a[j])
      /\ \A j \in 1..Len(b) : (a \o b)[Len(a) + j] = b[j]
  <2>1. a \in Seq(S) /\ b \in Seq(S)
    BY <1>1, <1>2
  <2> QED BY <2>1
<1>5. ASSUME NEW j \in 1..(n - 1) PROVE (a \o b)[j] = IF j < i THEN s[j] ELSE s[j + 1]
  <2>1. CASE j < i
    <3>1. j \in 1..Len(a) /\ j \in 1..(i - 1)
      BY <1>0, <1>1, <2>1
    <3> QED BY <1>1, <1>4, <2>1, <3>1
  <2>2. CASE j >= i
    <3> DEFINE k == j - (i - 1)
    <3>1. k \in 1..(n - i) /\ k \in 1..Len(b) /\ Len(a) + k = j /\ k + i = j + 1 /\ ~(j < i)
      BY <1>0, <1>1, <1>2, <2>2
    <3> HIDE DEF k
    <3>2. (a \o b)[j] = b[k] /\ b[k] = s[j + 1]
      <4>1. (a \o b)[Len(a) + k] = b[k] /\ b[k] = s[k + i]
        BY <1>2, <1>4, <3>1
      <4> QED BY <3>1, <4>1
    <3> QED BY <3>1, <3>2
  <2>3. j < i \/ j >= i
    BY <1>0
  <2> QED BY <2>1, <2>2, <2>3, Zenon
<1>6. Len(a \o b) = n - 1
  BY <1>0, <1>1, <1>2, <1>4
<1> QED BY <1>3, <1>4, <1>5, <1>6 DEF n

\* The lines with content.
LEMMA ContentEnds ==
  ASSUME NEW S, NEW s \in Seq(S)
  PROVE  /\ Content(s) \in SUBSET (1..Len(s)) /\ Content(s) \in SUBSET Nat
         /\ IsFiniteSet(Content(s))
         /\ \A i \in 1..Len(s) : i \in Content(s) <=> ~IsBlank(s[i])
         /\ Content(s) # {} =>
              /\ Min(Content(s)) \in Content(s) /\ Max(Content(s)) \in Content(s)
              /\ \A i \in Content(s) : Min(Content(s)) <= i /\ i <= Max(Content(s))
<1> DEFINE C == Content(s)
<1>1. DOMAIN s = 1..Len(s) /\ IsFiniteSet(DOMAIN s) /\ DOMAIN s \subseteq Nat
  BY SequencePlaces
<1>2. C \in SUBSET DOMAIN s /\ \A i \in DOMAIN s : i \in C <=> ~IsBlank(s[i])
  BY DEF Content
<1> HIDE DEF C
<1>3. C \in SUBSET Nat /\ IsFiniteSet(C)
  BY <1>1, <1>2, FS_Subset
<1>4. C # {} => Min(C) \in C /\ \A i \in C : Min(C) <= i
  BY <1>3, MinIsLeast
<1>5. C # {} => Max(C) \in C /\ \A i \in C : i <= Max(C)
  BY <1>3, MaxIsGreatest
<1>6. C \in SUBSET (1..Len(s)) /\ \A i \in 1..Len(s) : i \in C <=> ~IsBlank(s[i])
  BY <1>1, <1>2
<1> QED BY <1>3, <1>4, <1>5, <1>6 DEF C

\* t is s from the line after place o on, without blank lines at its ends.
Strips(t, s, o) ==
  /\ o \in Nat
  /\ DOMAIN t = 1..Len(t) /\ Len(t) \in Nat /\ DOMAIN s = 1..Len(s) /\ Len(s) \in Nat
  /\ o + Len(t) <= Len(s)
  /\ \A i \in 1..Len(t) : t[i] = s[i + o]
  /\ \A i \in 1..Len(s) : i <= o \/ i > o + Len(t) => IsBlank(s[i])
  /\ Len(t) > 0 => ~IsBlank(t[1]) /\ ~IsBlank(t[Len(t)])

LEMMA Stripped ==
  ASSUME NEW S, NEW s \in Seq(S)
  PROVE  /\ StripBlank(s) \in Seq(S)
         /\ \E o : Strips(StripBlank(s), s, o)
<1> DEFINE C == Content(s)
           n == Len(s)
<1>1. DOMAIN s = 1..n /\ n \in Nat
  OBVIOUS
<1>2. /\ C \in SUBSET (1..n) /\ \A i \in 1..n : i \in C <=> ~IsBlank(s[i])
      /\ C # {} => /\ Min(C) \in C /\ Max(C) \in C
                   /\ \A i \in C : Min(C) <= i /\ i <= Max(C)
  BY ContentEnds
<1>3. CASE C = {}
  <2>1. StripBlank(s) = <<>>
    BY <1>3 DEF StripBlank
  <2>2. \A i \in 1..n : IsBlank(s[i])
    BY <1>2, <1>3
  <2>3. Strips(<<>>, s, 0)
    BY <1>1, <2>2 DEF Strips
  <2> QED BY <2>1, <2>3
<1>4. CASE C # {}
  <2> DEFINE a == Min(C)
             b == Max(C)
             t == SubSeq(s, a, b)
  <2>1. a \in C /\ b \in C /\ \A i \in C : a <= i /\ i <= b
    BY <1>2, <1>4
  <2>2. StripBlank(s) = t
    BY <1>4 DEF StripBlank
  <2> HIDE DEF a, b, C
  <2>3. a \in Nat /\ b \in Nat /\ a >= 1 /\ b <= n /\ a <= b
    BY <1>1, <1>2, <2>1
  <2>4. /\ t \in Seq(S) /\ Len(t) = b - a + 1 /\ DOMAIN t = 1..(b - a + 1)
        /\ \A i \in 1..(b - a + 1) : t[i] = s[i + (a - 1)]
    BY <2>3, SubText
  <2> HIDE DEF t, n
  <2>5. \A i \in 1..n : i < a \/ i > b => IsBlank(s[i])
    BY <1>1, <1>2, <2>1, <2>3
  <2>6. ~IsBlank(s[a]) /\ ~IsBlank(s[b])
    BY <1>2, <2>1
  <2>7. t[1] = s[a] /\ t[Len(t)] = s[b]
    <3>1. 1 + (a - 1) = a /\ Len(t) + (a - 1) = b /\ 1 \in 1..(b - a + 1) /\ Len(t) \in 1..(b - a + 1)
      BY <2>3, <2>4
    <3> QED BY <2>4, <3>1
  <2>8. \A i \in 1..Len(t) : t[i] = s[i + (a - 1)]
    BY <2>4
  <2>9. \A i \in 1..n : i <= a - 1 \/ i > (a - 1) + Len(t) => IsBlank(s[i])
    BY <1>1, <2>3, <2>4, <2>5
  <2>10. a - 1 \in Nat /\ (a - 1) + Len(t) <= n /\ Len(t) \in Nat /\ DOMAIN t = 1..Len(t)
    BY <1>1, <2>3, <2>4
  <2>11. Strips(t, s, a - 1)
    BY <1>1, <2>6, <2>7, <2>8, <2>9, <2>10 DEF Strips, n
  <2> QED BY <2>2, <2>4, <2>11
<1> QED BY <1>3, <1>4

\* A text without blank ends is left alone.
LEMMA NothingToStrip ==
  ASSUME NEW S, NEW s \in Seq(S), Len(s) > 0 => ~IsBlank(s[1]) /\ ~IsBlank(s[Len(s)])
  PROVE  StripBlank(s) = s
<1> DEFINE n == Len(s)
           t == StripBlank(s)
<1>1. t \in Seq(S) /\ \E o : Strips(t, s, o)
  BY Stripped
<1>2. PICK o : Strips(t, s, o)
  BY <1>1
<1>3. /\ o \in Nat /\ Len(t) \in Nat /\ n \in Nat /\ o + Len(t) <= n
      /\ \A i \in 1..Len(t) : t[i] = s[i + o]
      /\ \A i \in 1..n : i <= o \/ i > o + Len(t) => IsBlank(s[i])
  BY <1>2 DEF Strips
<1> HIDE DEF t, n
<1>4. CASE n > 0
  <2>1. 1 \in 1..n /\ n \in 1..n /\ ~IsBlank(s[1]) /\ ~IsBlank(s[n])
    BY <1>3, <1>4 DEF n
  <2>2. o = 0 /\ Len(t) = n
    BY <1>3, <2>1
  <2>3. \A i \in 1..n : t[i] = s[i]
    BY <1>3, <2>2
  <2> QED BY <1>1, <2>2, <2>3 DEF n, t
<1>5. CASE n = 0
  <2>1. Len(t) = 0
    BY <1>3, <1>5
  <2>2. t = <<>> /\ s = <<>>
    BY <1>1, <1>5, <2>1 DEF n
  <2> QED BY <2>2 DEF t
<1> QED BY <1>3, <1>4, <1>5

-----------------------------------------------------------------------------
(* What is clean stays.                                                    *)

\* No two empty lines in a row.
Spaced(s) == \A i \in 1..(Len(s) - 1) : ~(IsBlank(s[i]) /\ IsBlank(s[i + 1]))

Tidy(s) ==
  /\ \A i \in DOMAIN s : s[i].says # "page" /\ ~IsPageNumber(s[i])
  /\ Spaced(s)
  /\ Len(s) > 0 => ~IsBlank(s[1]) /\ ~IsBlank(s[Len(s)])

\* Without page numbers, all lines are kept.
LEMMA AllIsBody ==
  ASSUME NEW L, NEW s \in Seq(L), \A i \in DOMAIN s : ~IsPageNumber(s[i])
  PROVE  WithoutPageNumbers(s) = s
<1> DEFINE n == Len(s)
           V == Seq(L)
<1>1. n \in Nat /\ DOMAIN s = 1..n /\ \A i \in 1..n : s[i] \in L
  OBVIOUS
<1>2. <<>> \in V /\ \A v \in V, x \in L : KeepBody(v, x) \in V
  BY LineAppended DEF KeepBody
<1>3. PICK h \in [0..Len(s) -> V] :
        Goes(h, Len(s), <<>>, WithoutPageNumbers(s))
        /\ \A i \in 1..Len(s) : h[i] = KeepBody(h[i - 1], s[i])
  <2> HIDE DEF V
  <2> QED BY <1>2, BodyPath
<1>4. SubSeq(s, 1, 0) = <<>> /\ SubSeq(s, 1, n) = s
      /\ \A i \in 1..n : SubSeq(s, 1, i) = Append(SubSeq(s, 1, i - 1), s[i])
  BY FirstLinesOf
<1>5. h[0] = <<>> /\ h[n] = WithoutPageNumbers(s)
      /\ \A i \in 1..n : h[i] = KeepBody(h[i - 1], s[i])
  BY <1>3 DEF Goes
<1> DEFINE P == {i \in 0..n : h[i] = SubSeq(s, 1, i)}
<1> HIDE DEF n, V
<1>10. h[0] = SubSeq(s, 1, 0)
  BY <1>4, <1>5, Zenon
<1>6. 0 \in P
  BY <1>1, <1>10
<1>7. ASSUME NEW i \in 1..n, i - 1 \in P PROVE i \in P
  <2>3. h[i - 1] = SubSeq(s, 1, i - 1) /\ ~IsPageNumber(s[i]) /\ i \in 0..n
    BY <1>1, <1>7
  <2>1. h[i] = KeepBody(SubSeq(s, 1, i - 1), s[i]) /\ ~IsPageNumber(s[i]) /\ i \in 0..n
    BY <1>5, <2>3, Zenon
  <2>2. h[i] = Append(SubSeq(s, 1, i - 1), s[i])
    BY <2>1 DEF KeepBody
  <2> QED BY <1>4, <2>1, <2>2
<1> HIDE DEF P
<1>8. n \in P
  BY <1>1, <1>6, <1>7, Along
<1> QED BY <1>4, <1>5, <1>8 DEF P

\* With no two empty lines in a row, all lines are kept.
LEMMA AllIsApart ==
  ASSUME NEW L, NEW s \in Seq(L), Spaced(s)
  PROVE  Collapse(s) = s
<1> DEFINE n == Len(s)
           V == Seq(L)
<1>1. n \in Nat /\ DOMAIN s = 1..n /\ \A i \in 1..n : s[i] \in L
  OBVIOUS
<1>2. <<>> \in V /\ \A v \in V, x \in L : KeepApart(v, x) \in V
  BY LineAppended DEF KeepApart
<1>3. PICK h \in [0..Len(s) -> V] :
        Goes(h, Len(s), <<>>, Collapse(s))
        /\ \A i \in 1..Len(s) : h[i] = KeepApart(h[i - 1], s[i])
  <2> HIDE DEF V
  <2> QED BY <1>2, ApartPath
<1>4. SubSeq(s, 1, 0) = <<>> /\ SubSeq(s, 1, n) = s
      /\ \A i \in 1..n : SubSeq(s, 1, i) = Append(SubSeq(s, 1, i - 1), s[i])
  BY FirstLinesOf
<1>5. h[0] = <<>> /\ h[n] = Collapse(s)
      /\ \A i \in 1..n : h[i] = KeepApart(h[i - 1], s[i])
  BY <1>3 DEF Goes
<1>9. \A i \in 1..n : i > 1 /\ IsBlank(s[i]) => ~IsBlank(s[i - 1])
  <2> SUFFICES ASSUME NEW i \in 1..n, i > 1, IsBlank(s[i]) PROVE ~IsBlank(s[i - 1])
    OBVIOUS
  <2>1. i - 1 \in 1..(n - 1) /\ (i - 1) + 1 = i
    BY <1>1
  <2> QED BY <2>1 DEF Spaced
<1> DEFINE P == {i \in 0..n : h[i] = SubSeq(s, 1, i)}
<1> HIDE DEF n, V
<1>10. h[0] = SubSeq(s, 1, 0)
  BY <1>4, <1>5, Zenon
<1>6. 0 \in P
  BY <1>1, <1>10
<1>7. ASSUME NEW i \in 1..n, i - 1 \in P PROVE i \in P
  <2> DEFINE b == SubSeq(s, 1, i - 1)
             x == s[i]
  <2>4. h[i - 1] = b /\ i \in 0..n
    BY <1>1, <1>7
  <2>1. h[i] = KeepApart(b, x) /\ i \in 0..n
    BY <1>5, <2>4, Zenon
  <2>2. IsBlank(x) => b = <<>> \/ ~IsBlank(Last(b))
    <3>1. CASE i = 1
      BY <1>4, <3>1
    <3>2. CASE i > 1
      <4> DEFINE c == SubSeq(s, 1, (i - 1) - 1)
                 y == s[i - 1]
      <4>1. i - 1 \in 1..n /\ i - 1 <= Len(s)
        BY <1>1, <3>2 DEF n
      <4>2. b = Append(c, y)
        BY <1>4, <4>1
      <4>3. c \in Seq(L) /\ y \in L
        BY <1>1, <4>1, <3>2
      <4> HIDE DEF b, c, y
      <4>4. Last(b) = y
        BY <4>2, <4>3, LineAppended
      <4> QED BY <1>9, <3>2, <4>4 DEF y
    <3> QED BY <1>1, <3>1, <3>2
  <2>3. h[i] = Append(b, x)
    BY <2>1, <2>2 DEF KeepApart
  <2> QED BY <1>4, <2>1, <2>3
<1> HIDE DEF P
<1>8. n \in P
  BY <1>1, <1>6, <1>7, Along
<1> QED BY <1>4, <1>5, <1>8 DEF P

LEMMA TidyStays ==
  ASSUME NEW L, NEW s \in Seq(L), Tidy(s)
  PROVE  /\ RemoveRepeatedPageMargins(s) = s
         /\ StripBlank(Collapse(WithoutPageNumbers(s))) = s
<1>1. Pages(s) = << s >>
  BY OnePage DEF Tidy
<1>2. RemoveRepeatedPageMargins(s) = s
  BY <1>1 DEF RemoveRepeatedPageMargins
<1>3. WithoutPageNumbers(s) = s
  BY AllIsBody DEF Tidy
<1>4. Collapse(s) = s
  BY AllIsApart DEF Tidy
<1>5. StripBlank(s) = s
  BY NothingToStrip DEF Tidy
<1> QED BY <1>2, <1>3, <1>4, <1>5

-----------------------------------------------------------------------------
(* What lines say.                                                         *)

\* Lines that say one of T, or nothing.
OrNothing(T) == T \cup {"empty"}
Saying(T) == [place : Nat, says : OrNothing(T)]

LEMMA OfASequence ==
  ASSUME NEW S, NEW s \in Seq(S)
  PROVE  /\ Len(s) \in Nat /\ DOMAIN s = 1..Len(s) /\ s = [i \in 1..Len(s) |-> s[i]]
         /\ \A i \in 1..Len(s) : s[i] \in S
OBVIOUS

LEMMA ASequence ==
  ASSUME NEW S, NEW n \in Nat, NEW t, t = [i \in 1..n |-> t[i]],
         \A i \in 1..n : t[i] \in S
  PROVE  t \in Seq(S) /\ Len(t) = n
OBVIOUS

\* What a line says is rewritten, and it stays where it is.
LEMMA LinesRewritten ==
  ASSUME NEW T, NEW U, NEW s \in Seq(Saying(T)), NEW f,
         \A x \in T \cap Sayings : f[x] \in OrNothing(U), T \ Sayings \subseteq OrNothing(U),
         NEW t, t = Rewritten(s, f)
  PROVE  /\ t \in Seq(Saying(U)) /\ Len(t) = Len(s) /\ DOMAIN t = DOMAIN s
         /\ \A i \in 1..Len(s) :
              /\ t[i].place = s[i].place
              /\ t[i].says = IF s[i].says \in Sayings THEN f[s[i].says] ELSE s[i].says
<1> DEFINE n == Len(s)
<1>1. n \in Nat /\ DOMAIN s = 1..n /\ \A i \in 1..n : s[i] \in Saying(T)
  BY OfASequence
<1>2. t = [i \in 1..n |-> IF s[i].says \in Sayings THEN [s[i] EXCEPT !.says = f[@]] ELSE s[i]]
  BY <1>1 DEF Rewritten
<1> HIDE DEF n
<1>3. ASSUME NEW i \in 1..n
      PROVE  /\ t[i] \in Saying(U) /\ t[i].place = s[i].place
             /\ t[i].says = IF s[i].says \in Sayings THEN f[s[i].says] ELSE s[i].says
  <2> DEFINE x == s[i]
  <2>1. x \in Saying(T) /\ t[i] = IF x.says \in Sayings THEN [x EXCEPT !.says = f[x.says]] ELSE x
    BY <1>1, <1>2
  <2> HIDE DEF x
  <2>2. CASE x.says \in Sayings
    <3>1. t[i] = [x EXCEPT !.says = f[x.says]] /\ (x.says \in T \/ x.says = "empty")
      BY <2>1, <2>2 DEF Saying, OrNothing
    <3>2. x.says # "empty"
      BY <2>2, CharactersAssumption
    <3>3. f[x.says] \in OrNothing(U)
      BY <2>2, <3>1, <3>2
    <3> QED BY <2>1, <2>2, <3>1, <3>3 DEF Saying, OrNothing, x
  <2>3. CASE x.says \notin Sayings
    BY <2>1, <2>3 DEF Saying, OrNothing, x
  <2> QED BY <2>2, <2>3
<1>4. t \in Seq(Saying(U)) /\ Len(t) = n
  <2> DEFINE V == Saying(U)
  <2>1. (\A i \in 1..n : t[i] \in V) /\ t = [i \in 1..n |-> t[i]]
    BY <1>2, <1>3
  <2> HIDE DEF V
  <2>2. t \in Seq(V) /\ Len(t) = n
    BY <1>1, <2>1, ASequence
  <2> QED BY <2>2 DEF V
<1>5. DOMAIN t = 1..n
  BY <1>2
<1> QED BY <1>1, <1>3, <1>4, <1>5 DEF n

-----------------------------------------------------------------------------
(* What cleaning leaves is clean.                                          *)

\* A page without its first line, if that repeats.
WithoutFirst(lines, pages) ==
  IF Content(lines) # {} /\ Repeats(lines[Min(Content(lines))], FirstLines(pages), pages)
  THEN RemoveAt(lines, Min(Content(lines))) ELSE lines

\* A page without its last line, if that repeats.
WithoutLast(lines, pages) ==
  IF Content(lines) # {} /\ Repeats(lines[Max(Content(lines))], LastLines(pages), pages)
  THEN RemoveAt(lines, Max(Content(lines))) ELSE lines

LEMMA MarginsAreTwo ==
  ASSUME NEW lines, NEW pages
  PROVE  WithoutMargins(lines, pages) = WithoutLast(WithoutFirst(lines, pages), pages)
BY DEF WithoutMargins, WithoutFirst, WithoutLast

LEMMA MarginsTaken ==
  ASSUME NEW S, NEW lines \in Seq(S), NEW pages
  PROVE  /\ WithoutFirst(lines, pages) \in Seq(S)
         /\ WithoutLast(lines, pages) \in Seq(S)
<1>1. Content(lines) # {} => /\ Min(Content(lines)) \in 1..Len(lines)
                             /\ Max(Content(lines)) \in 1..Len(lines)
  <2>1. Content(lines) \in SUBSET (1..Len(lines))
        /\ (Content(lines) # {} => Min(Content(lines)) \in Content(lines)
                                   /\ Max(Content(lines)) \in Content(lines))
    BY ContentEnds
  <2> QED BY <2>1
<1>2. \A i \in 1..Len(lines) : RemoveAt(lines, i) \in Seq(S)
  BY ItemRemoved
<1> QED BY <1>1, <1>2 DEF WithoutFirst, WithoutLast

LEMMA JoinedInOne ==
  ASSUME NEW S, Blank \in S, NEW pages \in Seq(Seq(S))
  PROVE  JoinPages(pages) \in Seq(S)
<1> DEFINE V == Seq(S)
<1>1. <<>> \in V
  OBVIOUS
<1>2. ASSUME NEW v \in V, NEW x \in V PROVE AddPage(v, x) \in V
  <2>1. <<Blank>> \in Seq(S)
    OBVIOUS
  <2>2. v \o <<Blank>> \in Seq(S)
    BY <2>1
  <2>3. v \o <<Blank>> \o x \in Seq(S)
    BY <2>2
  <2> QED BY <2>3 DEF AddPage
<1> HIDE DEF V
<1>3. pages \in Seq(V)
  BY DEF V
<1>4. PICK h \in [0..Len(pages) -> V] :
        Goes(h, Len(pages), <<>>, JoinPages(pages))
        /\ \A i \in 1..Len(pages) : h[i] = AddPage(h[i - 1], pages[i])
  BY <1>1, <1>2, <1>3, JoinPath
<1>5. Len(pages) \in Nat
  OBVIOUS
<1> QED BY <1>4, <1>5 DEF Goes, V

LEMMA MarginsGone ==
  ASSUME NEW L, Blank \in L, NEW s \in Seq(L)
  PROVE  RemoveRepeatedPageMargins(s) \in Seq(Unpaged(L))
<1> DEFINE U == Unpaged(L)
           pages == Pages(s)
           left == [k \in DOMAIN pages |-> StripBlank(WithoutMargins(pages[k], pages))]
<1>1. pages \in Paged(L)
  BY PagesAreTexts
<1>2. pages \in Seq(Seq(U))
  BY <1>1 DEF Paged
<1>3. Blank \in U
  BY DEF Unpaged, Blank, Line
<1>4. CASE Len(pages) < 2
  <2>1. \A i \in DOMAIN s : s[i].says # "page"
    BY <1>4, OnePageOnly
  <2>2. \A i \in DOMAIN s : s[i] \in U
    BY <2>1 DEF Unpaged
  <2>3. RemoveRepeatedPageMargins(s) = s
    BY <1>4 DEF RemoveRepeatedPageMargins
  <2>4. s = [i \in 1..Len(s) |-> s[i]] /\ Len(s) \in Nat /\ DOMAIN s = 1..Len(s)
    OBVIOUS
  <2> HIDE DEF U
  <2>5. s \in Seq(U)
    BY <2>2, <2>4
  <2> QED BY <2>3, <2>5 DEF U
<1>5. CASE ~(Len(pages) < 2)
  <2>1. RemoveRepeatedPageMargins(s) = JoinPages(left)
    BY <1>5 DEF RemoveRepeatedPageMargins
  <2> HIDE DEF U, pages
  <2>2. ASSUME NEW k \in DOMAIN pages PROVE left[k] \in Seq(U)
    <3> DEFINE a == pages[k]
               b == WithoutFirst(a, pages)
               c == WithoutLast(b, pages)
    <3>1. a \in Seq(U)
      BY <1>2
    <3> HIDE DEF a
    <3>2. b \in Seq(U)
      BY <3>1, MarginsTaken
    <3> HIDE DEF b
    <3>3. c \in Seq(U)
      BY <3>2, MarginsTaken
    <3> HIDE DEF c
    <3>4. StripBlank(c) \in Seq(U)
      BY <3>3, Stripped
    <3>5. left[k] = StripBlank(c)
      BY MarginsAreTwo DEF a, b, c
    <3> QED BY <3>4, <3>5
  <2>3. DOMAIN pages = 1..Len(pages) /\ Len(pages) \in Nat
    BY <1>2
  <2>4. left \in Seq(Seq(U))
    <3> DEFINE S == Seq(U)
    <3>1. \A k \in 1..Len(pages) : left[k] \in S
      BY <2>2, <2>3
    <3>2. left = [k \in 1..Len(pages) |-> left[k]]
      BY <2>3
    <3> HIDE DEF S, left
    <3>3. left \in Seq(S)
      BY <2>3, <3>1, <3>2
    <3> QED BY <3>3 DEF S
  <2> HIDE DEF left
  <2>5. JoinPages(left) \in Seq(U)
    BY <1>3, <2>4, JoinedInOne
  <2> QED BY <2>1, <2>5 DEF U
<1> QED BY <1>4, <1>5

\* The lines that are no page number.
Body(S) == {x \in S : ~IsPageNumber(x)}

LEMMA BodyLeft ==
  ASSUME NEW S, NEW s \in Seq(S)
  PROVE  WithoutPageNumbers(s) \in Seq(Body(S))
<1> DEFINE V == Seq(Body(S))
<1>1. <<>> \in V
  OBVIOUS
<1>2. ASSUME NEW v \in V, NEW x \in S PROVE KeepBody(v, x) \in V
  <2>1. CASE IsPageNumber(x)
    BY <2>1 DEF KeepBody
  <2>2. CASE ~IsPageNumber(x)
    <3>1. x \in Body(S)
      BY <2>2 DEF Body
    <3> QED BY <2>2, <3>1, LineAppended DEF KeepBody
  <2> QED BY <2>1, <2>2
<1> HIDE DEF V
<1>3. PICK h \in [0..Len(s) -> V] :
        Goes(h, Len(s), <<>>, WithoutPageNumbers(s))
        /\ \A i \in 1..Len(s) : h[i] = KeepBody(h[i - 1], s[i])
  BY <1>1, <1>2, BodyPath
<1>4. Len(s) \in Nat
  OBVIOUS
<1> QED BY <1>3, <1>4 DEF Goes, V

LEMMA ApartLeft ==
  ASSUME NEW S, NEW s \in Seq(S)
  PROVE  Collapse(s) \in Seq(S) /\ Spaced(Collapse(s))
<1> DEFINE V == {v \in Seq(S) : Spaced(v)}
<1>1. <<>> \in V
  BY DEF Spaced
<1>2. ASSUME NEW v \in V, NEW x \in S PROVE KeepApart(v, x) \in V
  <2>1. v \in Seq(S) /\ Spaced(v)
    OBVIOUS
  <2> HIDE DEF V
  <2>2. CASE IsBlank(x) /\ v # <<>> /\ IsBlank(Last(v))
    BY <2>2 DEF KeepApart
  <2>3. CASE ~(IsBlank(x) /\ v # <<>> /\ IsBlank(Last(v)))
    <3> DEFINE w == Append(v, x)
               n == Len(v)
    <3>1. w \in Seq(S) /\ Len(w) = n + 1 /\ (\A j \in 1..n : w[j] = v[j]) /\ w[n + 1] = x
      BY <2>1, LineAppended
    <3>2. n \in Nat /\ (n > 0 => v # <<>> /\ Last(v) = v[n])
      BY <2>1 DEF Last
    <3>3. \A i \in 1..(n - 1) : ~(IsBlank(v[i]) /\ IsBlank(v[i + 1]))
      BY <2>1 DEF Spaced
    <3>4. KeepApart(v, x) = w
      BY <2>3 DEF KeepApart
    <3> HIDE DEF w, n
    <3>5. ASSUME NEW i \in 1..(Len(w) - 1) PROVE ~(IsBlank(w[i]) /\ IsBlank(w[i + 1]))
      <4>1. CASE i = n
        <5>1. n > 0 /\ w[i] = v[n] /\ w[i + 1] = x
          BY <3>1, <3>2, <4>1
        <5> QED BY <2>3, <3>2, <5>1
      <4>2. CASE i # n
        <5>1. i \in 1..(n - 1) /\ i \in 1..n /\ i + 1 \in 1..n
          BY <3>1, <3>2, <4>2
        <5> QED BY <3>1, <3>3, <5>1
      <4> QED BY <4>1, <4>2
    <3>6. Spaced(w)
      BY <3>5 DEF Spaced
    <3> QED BY <3>1, <3>4, <3>6 DEF V
  <2> QED BY <2>2, <2>3
<1> HIDE DEF V
<1>3. PICK h \in [0..Len(s) -> V] :
        Goes(h, Len(s), <<>>, Collapse(s))
        /\ \A i \in 1..Len(s) : h[i] = KeepApart(h[i - 1], s[i])
  BY <1>1, <1>2, ApartPath
<1>4. Len(s) \in Nat
  OBVIOUS
<1>5. Collapse(s) \in V
  BY <1>3, <1>4 DEF Goes
<1> QED BY <1>5 DEF V

\* What lines say when they are read, normalized, without invisible characters, and clean.
Even == {"empty", "1/9", "page"} \cup Normal
Seen == {"empty", "1/9"} \cup Shown

LEMMA CleanIsTidy ==
  ASSUME NEW s \in Seq(Saying(LineTexts))
  PROVE  Clean(s) \in Seq(Saying(Shown)) /\ Tidy(Clean(s))
<1> DEFINE e == Normalized(s)
           r == RemoveRepeatedPageMargins(e)
           a == WithoutInvisible(r)
           b == WithoutPageNumbers(a)
           c == Collapse(b)
           d == StripBlank(c)
           B == Body(Saying(Seen))
<1>1. e \in Seq(Saying(Even))
  <2>1. \A x \in LineTexts \cap Sayings : Nfkc[x] \in OrNothing(Even)
    BY CharactersAssumption DEF Even, Normal, OrNothing
  <2>2. LineTexts \ Sayings \subseteq OrNothing(Even)
    BY DEF LineTexts, Even, OrNothing
  <2> QED BY <2>1, <2>2, LinesRewritten DEF Normalized
<1> HIDE DEF e
<1>2. r \in Seq(Unpaged(Saying(Even)))
  <2>1. Blank \in Saying(Even)
    BY DEF Blank, Line, Saying, OrNothing
  <2> QED BY <1>1, <2>1, MarginsGone
<1> HIDE DEF r
<1>3. r \in Seq(Saying(Even \ {"page"}))
  <2>1. \A x \in Unpaged(Saying(Even)) : x \in Saying(Even \ {"page"})
    BY DEF Unpaged, Saying, OrNothing
  <2> DEFINE U == Unpaged(Saying(Even))
             V == Saying(Even \ {"page"})
  <2>2. r \in Seq(U) /\ \A x \in U : x \in V
    BY <1>2, <2>1
  <2> HIDE DEF U, V
  <2>3. r \in Seq(V)
    BY <2>2
  <2> QED BY <2>3 DEF V
<1>4. a \in Seq(Saying(Seen))
  <2> DEFINE T == Even \ {"page"}
  <2>1. \A x \in T \cap Sayings : Visible[x] \in OrNothing(Seen)
    BY CharactersAssumption DEF Even, Seen, Shown, OrNothing
  <2>2. T \ Sayings \subseteq OrNothing(Seen)
    BY DEF Even, Seen, Normal, OrNothing
  <2> HIDE DEF T
  <2>3. r \in Seq(Saying(T))
    BY <1>3 DEF T
  <2> QED BY <2>1, <2>2, <2>3, LinesRewritten DEF WithoutInvisible
<1> HIDE DEF a
<1>5. b \in Seq(B)
  BY <1>4, BodyLeft
<1> HIDE DEF b, B
<1>6. c \in Seq(B) /\ Spaced(c)
  BY <1>5, ApartLeft
<1> HIDE DEF c
<1>7. d \in Seq(B) /\ \E o : Strips(d, c, o)
  BY <1>6, Stripped
<1>8. PICK o : Strips(d, c, o)
  BY <1>7
<1>9. Clean(s) = d
  BY DEF Clean, e, r, a, b, c, d
<1> HIDE DEF d
<1>10. \A x \in B : x \in Saying(Shown) /\ x.says # "page" /\ ~IsPageNumber(x)
  BY CharactersAssumption DEF B, Body, Saying, OrNothing, Seen, Shown, IsPageNumber
<1>11. \A i \in DOMAIN d : d[i] \in B
  BY <1>7
<1>12. d \in Seq(Saying(Shown))
  <2> DEFINE V == Saying(Shown)
  <2>1. \A x \in B : x \in V
    BY <1>10
  <2> HIDE DEF V
  <2>2. d \in Seq(V)
    BY <1>7, <2>1
  <2> QED BY <2>2 DEF V
<1>13. Spaced(d)
  <2> DEFINE n == Len(d)
             m == Len(c)
  <2>1. o \in Nat /\ n \in Nat /\ m \in Nat /\ o + n <= m /\ \A i \in 1..n : d[i] = c[i + o]
    BY <1>8 DEF Strips
  <2>2. \A i \in 1..(m - 1) : ~(IsBlank(c[i]) /\ IsBlank(c[i + 1]))
    BY <1>6 DEF Spaced
  <2> SUFFICES ASSUME NEW i \in 1..(n - 1) PROVE ~(IsBlank(d[i]) /\ IsBlank(d[i + 1]))
    BY DEF Spaced
  <2> HIDE DEF n, m
  <2>3. i \in 1..n /\ i + 1 \in 1..n /\ i + o \in 1..(m - 1) /\ (i + 1) + o = (i + o) + 1
    BY <2>1
  <2>4. d[i] = c[i + o] /\ d[i + 1] = c[(i + o) + 1]
    BY <2>1, <2>3
  <2> QED BY <2>2, <2>3, <2>4
<1>14. Len(d) > 0 => ~IsBlank(d[1]) /\ ~IsBlank(d[Len(d)])
  BY <1>8 DEF Strips
<1> QED BY <1>9, <1>10, <1>11, <1>12, <1>13, <1>14 DEF Tidy

\* Cleaning such lines only normalizes them.
LEMMA TidyIsNormalized ==
  ASSUME NEW s \in Seq(Saying(Shown)), Tidy(s)
  PROVE  /\ Clean(s) = Normalized(s) /\ Tidy(Normalized(s))
         /\ Normalized(s) \in Seq(Saying(Sayings))
         /\ \A i \in 1..Len(Normalized(s)) : LET x == Normalized(s)[i].says IN
              x \in Sayings => Visible[x] = x /\ Nfkc[x] = x
<1> DEFINE e == Normalized(s)
<1>1. /\ e \in Seq(Saying(Sayings)) /\ Len(e) = Len(s) /\ DOMAIN e = DOMAIN s
      /\ \A i \in 1..Len(s) :
           e[i].says = IF s[i].says \in Sayings THEN Nfkc[s[i].says] ELSE s[i].says
  <2>1. \A x \in Shown \cap Sayings : Nfkc[x] \in OrNothing(Sayings)
    BY CharactersAssumption DEF OrNothing
  <2>2. Shown \ Sayings \subseteq OrNothing(Sayings)
    BY DEF Shown, OrNothing
  <2> HIDE DEF e
  <2>3. e = Rewritten(s, Nfkc)
    BY DEF e, Normalized
  <2> DEFINE T == Shown
             U == Sayings
             f == Nfkc
  <2>4. s \in Seq(Saying(T)) /\ (\A x \in T \cap Sayings : f[x] \in OrNothing(U))
        /\ T \ Sayings \subseteq OrNothing(U) /\ e = Rewritten(s, f)
    BY <2>1, <2>2, <2>3
  <2> HIDE DEF T, U, f
  <2>5. /\ e \in Seq(Saying(U)) /\ Len(e) = Len(s) /\ DOMAIN e = DOMAIN s
        /\ \A i \in 1..Len(s) :
             /\ e[i].place = s[i].place
             /\ e[i].says = IF s[i].says \in Sayings THEN f[s[i].says] ELSE s[i].says
    BY <2>4, LinesRewritten
  <2> QED BY <2>5 DEF U, f
<1>2. Len(s) \in Nat /\ DOMAIN s = 1..Len(s) /\ \A i \in 1..Len(s) : s[i].says \in OrNothing(Shown)
  <2>1. Len(s) \in Nat /\ DOMAIN s = 1..Len(s) /\ \A i \in 1..Len(s) : s[i] \in Saying(Shown)
    BY OfASequence
  <2> QED BY <2>1 DEF Saying, OrNothing
<1> HIDE DEF e
<1>3. ASSUME NEW i \in 1..Len(s)
      PROVE  \/ e[i].says = "empty" /\ s[i].says = "empty"
             \/ /\ e[i].says \in Sayings /\ s[i].says # "empty"
                /\ Visible[e[i].says] = e[i].says /\ Nfkc[e[i].says] = e[i].says
  <2>1. CASE s[i].says \in Shown
    <3>1. s[i].says \in Sayings
      BY <2>1 DEF Shown
    <3> QED BY <1>1, <2>1, <3>1, CharactersAssumption
  <2>2. CASE s[i].says = "empty"
    BY <1>1, <2>2, CharactersAssumption
  <2> QED BY <1>2, <2>1, <2>2 DEF OrNothing
<1>10. Len(e) \in Nat /\ Len(e) = Len(s) /\ DOMAIN e = 1..Len(e) /\ e = [i \in 1..Len(e) |-> e[i]]
       /\ \A i \in 1..Len(e) : e[i] \in Saying(Sayings)
  BY <1>1, OfASequence
<1>4. \A i \in 1..Len(s) : IsBlank(e[i]) <=> IsBlank(s[i])
  BY <1>3, CharactersAssumption DEF IsBlank
<1>5. \A i \in DOMAIN e : e[i].says # "page" /\ ~IsPageNumber(e[i])
  BY <1>1, <1>2, <1>3, CharactersAssumption DEF IsPageNumber
<1>6. Tidy(e)
  <2>1. Spaced(e)
    <3> SUFFICES ASSUME NEW i \in 1..(Len(e) - 1) PROVE ~(IsBlank(e[i]) /\ IsBlank(e[i + 1]))
      BY DEF Spaced
    <3>1. i \in 1..(Len(s) - 1) /\ i \in 1..Len(s) /\ i + 1 \in 1..Len(s)
      <4> DEFINE n == Len(s)
      <4>1. n \in Nat /\ i \in 1..(n - 1)
        BY <1>2, <1>10
      <4> HIDE DEF n
      <4>2. i \in 1..(n - 1) /\ i \in 1..n /\ i + 1 \in 1..n
        BY <4>1
      <4> QED BY <4>2 DEF n
    <3> QED BY <1>4, <3>1 DEF Tidy, Spaced
  <2>2. Len(e) > 0 => ~IsBlank(e[1]) /\ ~IsBlank(e[Len(e)])
    <3>1. Len(s) > 0 => 1 \in 1..Len(s) /\ Len(s) \in 1..Len(s)
      <4> DEFINE n == Len(s)
      <4>1. n \in Nat
        BY <1>2
      <4> HIDE DEF n
      <4>2. n > 0 => 1 \in 1..n /\ n \in 1..n
        BY <4>1
      <4> QED BY <4>2 DEF n
    <3> QED BY <1>1, <1>4, <3>1 DEF Tidy
  <2> QED BY <1>5, <2>1, <2>2 DEF Tidy
<1>7. WithoutInvisible(e) = e
  <2>1. \A i \in DOMAIN e : e[i].says \in Sayings => [e[i] EXCEPT !.says = Visible[@]] = e[i]
    <3> SUFFICES ASSUME NEW i \in DOMAIN e, e[i].says \in Sayings
                 PROVE  [e[i] EXCEPT !.says = Visible[@]] = e[i]
      OBVIOUS
    <3>1. e[i] \in Saying(Sayings)
      BY <1>10
    <3>2. Visible[e[i].says] = e[i].says
      <4>1. i \in 1..Len(s) /\ e[i].says # "empty"
        BY <1>10, CharactersAssumption
      <4> QED BY <1>3, <4>1
    <3> QED BY <3>1, <3>2 DEF Saying, OrNothing
  <2>2. e = [i \in DOMAIN e |-> e[i]]
    BY <1>10
  <2> QED BY <2>1, <2>2 DEF WithoutInvisible, Rewritten
<1>8. RemoveRepeatedPageMargins(e) = e /\ StripBlank(Collapse(WithoutPageNumbers(e))) = e
  BY <1>1, <1>6, TidyStays
<1>9. Clean(s) = e
  BY <1>7, <1>8 DEF Clean, e
<1> QED BY <1>1, <1>3, <1>6, <1>9, CharactersAssumption DEF e

\* Lines that are normalized stay.
LEMMA NormalStays ==
  ASSUME NEW s \in Seq(Saying(Sayings)),
         \A i \in 1..Len(s) : s[i].says \in Sayings => Nfkc[s[i].says] = s[i].says
  PROVE  Normalized(s) = s
<1>1. DOMAIN s = 1..Len(s) /\ s = [i \in DOMAIN s |-> s[i]]
  OBVIOUS
<1>2. ASSUME NEW i \in DOMAIN s, s[i].says \in Sayings
      PROVE  [s[i] EXCEPT !.says = Nfkc[@]] = s[i]
  <2>1. s[i] \in Saying(Sayings)
    OBVIOUS
  <2> QED BY <1>1, <1>2, <2>1 DEF Saying, OrNothing
<1> QED BY <1>1, <1>2 DEF Normalized, Rewritten

LEMMA CleaningSettlesDown ==
  ASSUME NEW s \in Seq(Saying(LineTexts))
  PROVE  CleanSettles(s)
<1> DEFINE c == Clean(s)
           e == Normalized(c)
<1>1. c \in Seq(Saying(Shown)) /\ Tidy(c)
  BY CleanIsTidy
<1> HIDE DEF c
<1>2. /\ Clean(c) = e /\ Tidy(e) /\ e \in Seq(Saying(Sayings))
      /\ \A i \in 1..Len(e) : e[i].says \in Sayings => /\ Visible[e[i].says] = e[i].says
                                                      /\ Nfkc[e[i].says] = e[i].says
  BY <1>1, TidyIsNormalized
<1> HIDE DEF e
<1>3. Normalized(e) = e
  BY <1>2, NormalStays
<1>4. WithoutInvisible(e) = e
  <2>1. DOMAIN e = 1..Len(e) /\ e = [i \in DOMAIN e |-> e[i]]
    BY <1>2
  <2>2. ASSUME NEW i \in DOMAIN e, e[i].says \in Sayings
        PROVE  [e[i] EXCEPT !.says = Visible[@]] = e[i]
    <3>1. e[i] \in Saying(Sayings)
      BY <1>2
    <3> QED BY <1>2, <2>1, <2>2, <3>1 DEF Saying, OrNothing
  <2> QED BY <2>1, <2>2 DEF WithoutInvisible, Rewritten
<1>5. Clean(e) = e
  BY <1>2, <1>3, <1>4, TidyStays DEF Clean
<1> QED BY <1>2, <1>5 DEF CleanSettles, c, e

-----------------------------------------------------------------------------
(* Lines in their order.                                                   *)

\* A line of the text has a place of its own there, an inserted line has place 0.
InOrder(t) == \A i, j \in 1..Len(t) :
  i < j /\ t[i].place > 0 /\ t[j].place > 0 => t[i].place < t[j].place

\* Places tell which line is first.
LEMMA PlacesTell ==
  ASSUME NEW S, \A x \in S : x.place \in Nat, NEW u \in Seq(S), InOrder(u),
         NEW i \in 1..Len(u), NEW j \in 1..Len(u), u[i].place > 0, u[j].place > 0
  PROVE  /\ u[i].place = u[j].place => i = j
         /\ u[i].place < u[j].place => i < j
<1>1. /\ i < j => u[i].place < u[j].place
      /\ j < i => u[j].place < u[i].place
  BY DEF InOrder
<1>2. u[i].place \in Nat /\ u[j].place \in Nat /\ i \in Nat /\ j \in Nat
  OBVIOUS
<1> QED BY <1>1, <1>2

Has(t, p) == \E i \in 1..Len(t) : t[i].place = p

\* The lines of places p and p + 1 follow each other.
Adjoin(t, p) == \E i \in 1..Len(t) :
  i + 1 <= Len(t) /\ t[i].place = p /\ t[i + 1].place = p + 1

\* t is what is left when lines of the first m of u are dropped: f says where each
\* line of t was.
Chooses(f, t, u, m) ==
  /\ f \in [1..Len(t) -> 1..m]
  /\ \A i, j \in 1..Len(t) : i < j => f[i] < f[j]
  /\ \A i \in 1..Len(t) : t[i] = u[f[i]]

Drops(t, u) == \E f : Chooses(f, t, u, Len(u))

\* What is left is in order, and what was adjacent is.
LEMMA DropKeepsOrder ==
  ASSUME NEW S, \A x \in S : x.place \in Nat,
         NEW u \in Seq(S), NEW t \in Seq(S), Drops(t, u), InOrder(u)
  PROVE  /\ InOrder(t)
         /\ \A p \in Nat : Has(t, p) => Has(u, p)
         /\ \A p \in Nat \ {0} : Adjoin(u, p) /\ Has(t, p) /\ Has(t, p + 1) => Adjoin(t, p)
<1> DEFINE n == Len(t)
           m == Len(u)
<1>1. PICK f : Chooses(f, t, u, m)
  BY DEF Drops
<1>11. n \in Nat /\ m \in Nat
  OBVIOUS
<1>12. /\ f \in [1..n -> 1..m]
       /\ \A i, j \in 1..n : i < j => f[i] < f[j]
       /\ \A i \in 1..n : t[i] = u[f[i]]
  BY <1>1, Zenon DEF Chooses
<1>2. /\ \A i \in 1..n : f[i] \in 1..m /\ t[i] = u[f[i]]
      /\ \A i, j \in 1..n : i < j => f[i] < f[j]
      /\ n \in Nat /\ m \in Nat
  <2> HIDE DEF n, m
  <2> QED BY <1>11, <1>12
<1>3. \A i, j \in 1..m : i < j /\ u[i].place > 0 /\ u[j].place > 0 => u[i].place < u[j].place
  BY DEF InOrder
<1>4. \A i \in 1..m : u[i].place \in Nat
  OBVIOUS
<1> HIDE DEF n, m
<1>5. \A i, j \in 1..n : i < j /\ t[i].place > 0 /\ t[j].place > 0 => t[i].place < t[j].place
  BY <1>2, <1>3
<1>6. ASSUME NEW p \in Nat, NEW i \in 1..n, t[i].place = p
      PROVE  \E j \in 1..m : u[j].place = p
  BY <1>2, <1>6
<1>7. ASSUME NEW p \in Nat \ {0}, NEW i \in 1..m, i + 1 <= m,
             u[i].place = p, u[i + 1].place = p + 1,
             NEW a \in 1..n, t[a].place = p, NEW b \in 1..n, t[b].place = p + 1
      PROVE  b = a + 1
  <2>1. f[a] \in 1..m /\ f[b] \in 1..m /\ u[f[a]].place = p /\ u[f[b]].place = p + 1
    BY <1>2, <1>7
  <2>2. i + 1 \in 1..m
    BY <1>2, <1>7
  <2>3. f[a] = i
    <3> DEFINE k == f[a]
    <3>1. k \in 1..Len(u) /\ i \in 1..Len(u) /\ u[k].place = u[i].place
          /\ u[k].place > 0 /\ u[i].place > 0
      BY <1>7, <2>1 DEF m
    <3> HIDE DEF k
    <3>2. k = i
      BY <3>1, PlacesTell
    <3> QED BY <3>2 DEF k
  <2>4. f[b] = i + 1
    <3> DEFINE k == f[b]
               l == i + 1
    <3>1. k \in 1..Len(u) /\ l \in 1..Len(u) /\ u[k].place = u[l].place
          /\ u[k].place > 0 /\ u[l].place > 0
      BY <1>7, <2>1, <2>2 DEF m
    <3> HIDE DEF k, l
    <3>2. k = l
      BY <3>1, PlacesTell
    <3> QED BY <3>2 DEF k, l
  <2>5. a < b
    <3>1. CASE b < a
      BY <1>2, <2>3, <2>4, <3>1
    <3>2. CASE a = b
      BY <1>7, <3>2
    <3> QED BY <1>2, <3>1, <3>2
  <2>6. CASE a + 1 < b
    <3>1. a + 1 \in 1..n /\ a < a + 1
      BY <1>2, <2>6
    <3>2. f[a] < f[a + 1] /\ f[a + 1] < f[b] /\ f[a + 1] \in 1..m
      BY <1>2, <2>6, <3>1
    <3> QED BY <2>3, <2>4, <3>2
  <2> QED BY <1>2, <2>5, <2>6
<1>8. InOrder(t)
  BY <1>5 DEF InOrder, n
<1>9. \A p \in Nat : Has(t, p) => Has(u, p)
  BY <1>6 DEF Has, n, m
<1>10. \A p \in Nat \ {0} : Adjoin(u, p) /\ Has(t, p) /\ Has(t, p + 1) => Adjoin(t, p)
  <2> SUFFICES ASSUME NEW p \in Nat \ {0}, Adjoin(u, p), Has(t, p), Has(t, p + 1)
               PROVE  Adjoin(t, p)
    OBVIOUS
  <2>1. PICK i \in 1..m : i + 1 <= m /\ u[i].place = p /\ u[i + 1].place = p + 1
    BY DEF Adjoin, m
  <2>2. PICK a \in 1..n : t[a].place = p
    BY DEF Has, n
  <2>3. PICK b \in 1..n : t[b].place = p + 1
    BY DEF Has, n
  <2>4. b = a + 1
    BY <1>7, <2>1, <2>2, <2>3
  <2>5. a + 1 <= n /\ t[a + 1].place = p + 1
    BY <1>2, <2>3, <2>4
  <2> QED BY <2>2, <2>5 DEF Adjoin, n
<1> QED BY <1>8, <1>9, <1>10

LEMMA AllIsLeft ==
  ASSUME NEW S, NEW u \in Seq(S)
  PROVE  Drops(u, u)
<1> DEFINE m == Len(u)
           f == [i \in 1..m |-> i]
<1>1. m \in Nat
  OBVIOUS
<1>2. f \in [1..m -> 1..m] /\ \A i \in 1..m : f[i] = i
  OBVIOUS
<1> HIDE DEF f
<1>3. Chooses(f, u, u, m)
  BY <1>1, <1>2 DEF Chooses
<1> QED BY <1>3 DEF Drops

LEMMA RemovalDrops ==
  ASSUME NEW S, NEW u \in Seq(S), NEW i \in 1..Len(u)
  PROVE  Drops(RemoveAt(u, i), u)
<1> DEFINE m == Len(u)
           t == RemoveAt(u, i)
           f == [j \in 1..(m - 1) |-> IF j < i THEN j ELSE j + 1]
<1>1. t \in Seq(S) /\ Len(t) = m - 1
      /\ \A j \in 1..(m - 1) : t[j] = IF j < i THEN u[j] ELSE u[j + 1]
  BY ItemRemoved
<1>2. m \in Nat /\ i \in 1..m
  OBVIOUS
<1> HIDE DEF m, t
<1>3. f \in [1..(m - 1) -> 1..m]
  BY <1>2
<1>4. \A j \in 1..(m - 1) : f[j] = IF j < i THEN j ELSE j + 1
  OBVIOUS
<1> HIDE DEF f
<1>5. \A j, k \in 1..(m - 1) : j < k => f[j] < f[k]
  BY <1>2, <1>4
<1>6. \A j \in 1..(m - 1) : t[j] = u[f[j]]
  BY <1>1, <1>4
<1>7. Chooses(f, t, u, m)
  BY <1>1, <1>3, <1>5, <1>6 DEF Chooses
<1> QED BY <1>7 DEF Drops, t, m

LEMMA StripDrops ==
  ASSUME NEW t, NEW u, NEW o, Strips(t, u, o)
  PROVE  Drops(t, u)
<1> DEFINE n == Len(t)
           m == Len(u)
           f == [j \in 1..n |-> j + o]
<1>1. o \in Nat /\ n \in Nat /\ m \in Nat /\ o + n <= m /\ \A i \in 1..n : t[i] = u[i + o]
  BY DEF Strips
<1> HIDE DEF n, m
<1>2. f \in [1..n -> 1..m] /\ \A j \in 1..n : f[j] = j + o
  BY <1>1
<1> HIDE DEF f
<1>3. Chooses(f, t, u, m)
  BY <1>1, <1>2 DEF Chooses, n
<1> QED BY <1>3 DEF Drops, m

\* A line that is no blank end stays.
LEMMA StripKeeps ==
  ASSUME NEW S, \A x \in S : x.place \in Nat,
         NEW u \in Seq(S), NEW t \in Seq(S), NEW o, Strips(t, u, o)
  PROVE  /\ \A i \in 1..Len(u) : ~IsBlank(u[i]) => Has(t, u[i].place)
         /\ InOrder(u) => \A p, q, r \in Nat \ {0} :
              Has(t, p) /\ Has(t, q) /\ Has(u, r) /\ p < r /\ r < q => Has(t, r)
<1> DEFINE n == Len(t)
           m == Len(u)
<1>1. /\ o \in Nat /\ n \in Nat /\ m \in Nat /\ o + n <= m /\ \A i \in 1..n : t[i] = u[i + o]
      /\ \A i \in 1..m : i <= o \/ i > o + n => IsBlank(u[i])
  BY DEF Strips
<1>2. \A i \in 1..m : u[i].place \in Nat
  OBVIOUS
<1> HIDE DEF n, m
<1>3. ASSUME NEW i \in 1..m, i > o, i <= o + n PROVE \E j \in 1..n : t[j].place = u[i].place
  <2>1. i - o \in 1..n /\ (i - o) + o = i
    BY <1>1, <1>3
  <2>2. t[i - o] = u[i]
    BY <1>1, <2>1
  <2> QED BY <2>1, <2>2
<1>4. ASSUME NEW i \in 1..m, ~IsBlank(u[i]) PROVE Has(t, u[i].place)
  <2>1. i > o /\ i <= o + n
    BY <1>1, <1>4
  <2> QED BY <1>3, <2>1 DEF Has, n
<1>5. ASSUME InOrder(u), NEW p \in Nat \ {0}, NEW q \in Nat \ {0}, NEW r \in Nat \ {0},
             Has(t, p), Has(t, q), Has(u, r), p < r, r < q
      PROVE  Has(t, r)
  <2>1. PICK a \in 1..n : t[a].place = p
    BY <1>5 DEF Has, n
  <2>2. PICK b \in 1..n : t[b].place = q
    BY <1>5 DEF Has, n
  <2>3. PICK i \in 1..m : u[i].place = r
    BY <1>5 DEF Has, m
  <2>4. a + o \in 1..m /\ b + o \in 1..m /\ u[a + o].place = p /\ u[b + o].place = q
    BY <1>1, <2>1, <2>2
  <2> DEFINE k == a + o
             l == b + o
  <2>5. /\ k \in 1..Len(u) /\ l \in 1..Len(u) /\ i \in 1..Len(u)
        /\ u[k].place > 0 /\ u[l].place > 0 /\ u[i].place > 0
        /\ u[k].place < u[i].place /\ u[i].place < u[l].place
    BY <1>5, <2>3, <2>4 DEF m
  <2> HIDE DEF k, l
  <2>9. k < i /\ i < l
    BY <1>5, <2>5, PlacesTell
  <2>6. a + o < i /\ i < b + o
    BY <2>9 DEF k, l
  <2>7. i > o /\ i <= o + n
    BY <1>1, <2>6
  <2>8. \E j \in 1..n : t[j].place = r
    BY <1>3, <2>3, <2>7
  <2> QED BY <2>8 DEF Has, n
<1> QED BY <1>4, <1>5 DEF m

\* h sifts the lines of s: each is kept or dropped.
Sifts(h, s, S) ==
  /\ h \in [0..Len(s) -> Seq(S)] /\ h[0] = <<>>
  /\ \A i \in 1..Len(s) : h[i] \in {h[i - 1], Append(h[i - 1], s[i])}

LEMMA SiftingDrops ==
  ASSUME NEW S, \A x \in S : x.place \in Nat, NEW s \in Seq(S), NEW h, Sifts(h, s, S)
  PROVE  /\ h[Len(s)] \in Seq(S) /\ Drops(h[Len(s)], s)
         /\ \A j \in 1..Len(s) : h[j] = Append(h[j - 1], s[j]) => Has(h[Len(s)], s[j].place)
<1> DEFINE n == Len(s)
           Partial(i) == \E f : Chooses(f, h[i], s, i)
<1>1. n \in Nat /\ \A i \in 1..n : s[i] \in S
  OBVIOUS
<1>2. /\ h \in [0..n -> Seq(S)] /\ h[0] = <<>>
      /\ \A i \in 1..n : h[i] \in {h[i - 1], Append(h[i - 1], s[i])}
  BY DEF Sifts
<1> HIDE DEF n
<1>3. ASSUME NEW i \in 1..n
      PROVE  /\ i - 1 \in 0..n /\ i \in 0..n /\ h[i - 1] \in Seq(S) /\ h[i] \in Seq(S)
             /\ h[i] = h[i - 1] \/ h[i] = Append(h[i - 1], s[i])
  BY <1>1, <1>2
<1>4. ASSUME NEW i \in 1..n, Partial(i - 1) PROVE Partial(i)
  <2> DEFINE v == h[i - 1]
             x == s[i]
             m == Len(v)
  <2>1. PICK f : Chooses(f, v, s, i - 1)
    BY <1>4
  <2>2. v \in Seq(S) /\ x \in S /\ m \in Nat /\ i \in Nat /\ i >= 1
    BY <1>1, <1>3
  <2>3. h[i] = v \/ h[i] = Append(v, x)
    BY <1>3
  <2>4. /\ f \in [1..m -> 1..(i - 1)]
        /\ \A j, k \in 1..m : j < k => f[j] < f[k]
        /\ \A j \in 1..m : v[j] = s[f[j]]
    BY <2>1 DEF Chooses
  <2> HIDE DEF v, x, m
  <2>5. CASE h[i] = v
    <3>1. f \in [1..m -> 1..i]
      BY <2>2, <2>4
    <3>2. Chooses(f, v, s, i)
      BY <2>4, <3>1 DEF Chooses, m
    <3> QED BY <2>5, <3>2
  <2>6. CASE h[i] = Append(v, x)
    <3> DEFINE w == Append(v, x)
               g == [j \in 1..(m + 1) |-> IF j = m + 1 THEN i ELSE f[j]]
    <3>1. Len(w) = m + 1 /\ (\A j \in 1..m : w[j] = v[j]) /\ w[m + 1] = x
      BY <2>2, LineAppended DEF m
    <3> HIDE DEF w
    <3>2. \A j \in 1..(m + 1) : g[j] = IF j = m + 1 THEN i ELSE f[j]
      OBVIOUS
    <3>3. \A j \in 1..m : f[j] \in 1..(i - 1) /\ f[j] \in 1..i /\ f[j] < i
      BY <2>2, <2>4
    <3>4. g \in [1..(m + 1) -> 1..i]
      BY <2>2, <3>3
    <3> HIDE DEF g
    <3>5. \A j, k \in 1..(m + 1) : j < k => g[j] < g[k]
      <4> SUFFICES ASSUME NEW j \in 1..(m + 1), NEW k \in 1..(m + 1), j < k PROVE g[j] < g[k]
        OBVIOUS
      <4>1. j \in 1..m /\ g[j] = f[j]
        BY <2>2, <3>2
      <4>2. CASE k = m + 1
        BY <2>2, <3>2, <3>3, <4>1, <4>2
      <4>3. CASE k # m + 1
        <5>1. k \in 1..m /\ g[k] = f[k]
          BY <2>2, <3>2, <4>3
        <5> QED BY <2>4, <4>1, <5>1
      <4> QED BY <4>2, <4>3
    <3>6. \A j \in 1..(m + 1) : w[j] = s[g[j]]
      <4> SUFFICES ASSUME NEW j \in 1..(m + 1) PROVE w[j] = s[g[j]]
        OBVIOUS
      <4>1. CASE j = m + 1
        BY <3>1, <3>2, <4>1 DEF x
      <4>2. CASE j # m + 1
        <5>1. j \in 1..m /\ g[j] = f[j]
          BY <2>2, <3>2, <4>2
        <5> QED BY <2>4, <3>1, <5>1
      <4> QED BY <4>1, <4>2
    <3>7. Chooses(g, w, s, i)
      BY <3>1, <3>4, <3>5, <3>6 DEF Chooses
    <3>8. h[i] = w
      BY <2>6 DEF w
    <3> QED BY <3>7, <3>8
  <2> QED BY <2>3, <2>5, <2>6
<1>5. Partial(0)
  <2> DEFINE f == [j \in 1..0 |-> 0]
  <2>1. f \in [1..0 -> 1..0] /\ Len(<<>>) = 0 /\ \A j \in 1..0 : FALSE
    OBVIOUS
  <2> HIDE DEF f
  <2>2. Chooses(f, <<>>, s, 0)
    BY <2>1 DEF Chooses
  <2> QED BY <1>2, <2>2
<1> DEFINE P == {i \in 0..n : Partial(i)}
<1> HIDE DEF Partial
<1>6. 0 \in P
  BY <1>1, <1>5
<1>7. \A i \in 1..n : i - 1 \in P => i \in P
  BY <1>3, <1>4
<1> HIDE DEF P
<1>8. n \in P
  BY <1>1, <1>6, <1>7, Along
<1>9. Drops(h[n], s)
  BY <1>8 DEF P, Partial, Drops, n
<1>10. ASSUME NEW j \in 1..n, h[j] = Append(h[j - 1], s[j]) PROVE Has(h[n], s[j].place)
  <2> DEFINE q == s[j].place
             Q == {i \in 0..n : j <= i => Has(h[i], q)}
  <2>1. Has(h[j], q)
    <3>1. h[j - 1] \in Seq(S) /\ s[j] \in S
      BY <1>1, <1>3
    <3> DEFINE v == h[j - 1]
               x == s[j]
               w == Append(v, x)
    <3>4. v \in Seq(S) /\ x \in S
      BY <3>1
    <3> HIDE DEF v, x
    <3>2. Len(w) = Len(v) + 1 /\ w[Len(v) + 1] = x /\ Len(v) + 1 \in 1..(Len(v) + 1)
      BY <3>4, LineAppended
    <3>3. Has(w, x.place)
      BY <3>2 DEF Has
    <3> QED BY <1>10, <3>3 DEF w, v, x
  <2>2. 0 \in Q
    BY <1>1
  <2>3. ASSUME NEW i \in 1..n, i - 1 \in Q PROVE i \in Q
    <3>1. CASE j = i
      BY <1>3, <2>1, <3>1
    <3>2. CASE j < i
      <4> DEFINE v == h[i - 1]
                 x == s[i]
      <4>1. Has(v, q)
        BY <1>1, <2>3, <3>2
      <4>2. v \in Seq(S) /\ x \in S /\ (h[i] = v \/ h[i] = Append(v, x))
        BY <1>1, <1>3
      <4> HIDE DEF v, x, q
      <4>3. Has(Append(v, x), q)
        <5>1. PICK k \in 1..Len(v) : v[k].place = q
          BY <4>1 DEF Has
        <5>2. Len(Append(v, x)) = Len(v) + 1 /\ Append(v, x)[k] = v[k] /\ Len(v) \in Nat
          BY <4>2, LineAppended
        <5>3. k \in 1..Len(Append(v, x))
          BY <5>2
        <5> QED BY <5>1, <5>2, <5>3 DEF Has
      <4>4. Has(h[i], q)
        BY <4>1, <4>2, <4>3, Zenon
      <4> QED BY <1>3, <4>4
    <3>3. CASE i < j
      BY <1>3, <3>3
    <3> QED BY <1>1, <3>1, <3>2, <3>3
  <2> HIDE DEF Q
  <2>4. n \in Q
    BY <1>1, <2>2, <2>3, Along
  <2>5. j <= n
    BY <1>1
  <2> QED BY <2>4, <2>5 DEF Q
<1>11. h[n] \in Seq(S)
  BY <1>1, <1>2
<1> QED BY <1>9, <1>10, <1>11 DEF n

\* Only page numbers go, ...
LEMMA BodyKept ==
  ASSUME NEW S, \A x \in S : x.place \in Nat, NEW s \in Seq(S)
  PROVE  LET t == WithoutPageNumbers(s) IN
         /\ t \in Seq(S) /\ Drops(t, s)
         /\ \A j \in 1..Len(s) : ~IsPageNumber(s[j]) => Has(t, s[j].place)
<1> DEFINE n == Len(s)
           V == Seq(S)
<1>1. <<>> \in V /\ \A v \in V, x \in S : KeepBody(v, x) \in V
  BY LineAppended DEF KeepBody
<1> HIDE DEF V
<1>2. PICK h \in [0..Len(s) -> V] :
        Goes(h, Len(s), <<>>, WithoutPageNumbers(s))
        /\ \A i \in 1..Len(s) : h[i] = KeepBody(h[i - 1], s[i])
  BY <1>1, BodyPath
<1>3. h[0] = <<>> /\ h[n] = WithoutPageNumbers(s)
  BY <1>2 DEF Goes
<1>4. /\ \A i \in 1..n : h[i] \in {h[i - 1], Append(h[i - 1], s[i])}
      /\ \A i \in 1..n : ~IsPageNumber(s[i]) => h[i] = Append(h[i - 1], s[i])
  BY <1>2 DEF KeepBody
<1>5. Sifts(h, s, S)
  BY <1>2, <1>3, <1>4 DEF Sifts, V
<1>6. /\ h[n] \in Seq(S) /\ Drops(h[n], s)
      /\ \A j \in 1..n : h[j] = Append(h[j - 1], s[j]) => Has(h[n], s[j].place)
  BY <1>5, SiftingDrops
<1> HIDE DEF n
<1> QED BY <1>3, <1>4, <1>6 DEF n

\* ... and empty lines after other empty lines.
LEMMA ApartKept ==
  ASSUME NEW S, \A x \in S : x.place \in Nat, NEW s \in Seq(S)
  PROVE  LET t == Collapse(s) IN
         /\ t \in Seq(S) /\ Drops(t, s)
         /\ \A j \in 1..Len(s) : ~IsBlank(s[j]) => Has(t, s[j].place)
         /\ \A j \in 1..Len(s) : j + 1 <= Len(s) /\ ~IsBlank(s[j]) => Has(t, s[j + 1].place)
<1> DEFINE n == Len(s)
           V == Seq(S)
<1>1. <<>> \in V /\ \A v \in V, x \in S : KeepApart(v, x) \in V
  BY LineAppended DEF KeepApart
<1> HIDE DEF V
<1>2. PICK h \in [0..Len(s) -> V] :
        Goes(h, Len(s), <<>>, Collapse(s))
        /\ \A i \in 1..Len(s) : h[i] = KeepApart(h[i - 1], s[i])
  BY <1>1, ApartPath
<1>3. h[0] = <<>> /\ h[n] = Collapse(s) /\ n \in Nat
  BY <1>2 DEF Goes
<1>4. /\ \A i \in 1..n : h[i] \in {h[i - 1], Append(h[i - 1], s[i])}
      /\ \A i \in 1..n : ~IsBlank(s[i]) => h[i] = Append(h[i - 1], s[i])
      /\ \A i \in 1..n : h[i - 1] # <<>> /\ ~IsBlank(Last(h[i - 1])) => h[i] = Append(h[i - 1], s[i])
  BY <1>2 DEF KeepApart
<1>5. Sifts(h, s, S)
  BY <1>2, <1>3, <1>4 DEF Sifts, V
<1>6. /\ h[n] \in Seq(S) /\ Drops(h[n], s)
      /\ \A j \in 1..n : h[j] = Append(h[j - 1], s[j]) => Has(h[n], s[j].place)
  BY <1>5, SiftingDrops
<1>9. \A i \in 1..n : s[i] \in S /\ h[i - 1] \in Seq(S)
  <2>1. \A i \in 1..n : i - 1 \in 0..n
    BY <1>3
  <2> QED BY <1>2, <2>1 DEF V
<1> HIDE DEF n
<1>7. ASSUME NEW j \in 1..n, j + 1 <= n, ~IsBlank(s[j])
      PROVE  Has(h[n], s[j + 1].place)
  <2>1. j + 1 \in 1..n /\ (j + 1) - 1 = j
    BY <1>3, <1>7
  <2> DEFINE v == h[j - 1]
             x == s[j]
  <2>2. h[j] = Append(v, x) /\ v \in Seq(S) /\ x \in S
    BY <1>4, <1>7, <1>9
  <2> HIDE DEF v, x
  <2>3. h[j] # <<>> /\ Last(h[j]) = x
    BY <2>2, LineAppended
  <2>4. h[(j + 1) - 1] # <<>> /\ ~IsBlank(Last(h[(j + 1) - 1]))
    BY <1>7, <2>1, <2>3 DEF x
  <2> DEFINE k == j + 1
  <2> HIDE DEF k
  <2>5. k \in 1..n /\ h[k - 1] # <<>> /\ ~IsBlank(Last(h[k - 1]))
    BY <2>1, <2>4 DEF k
  <2>6. h[k] = Append(h[k - 1], s[k])
    BY <1>4, <2>5
  <2>7. Has(h[n], s[k].place)
    BY <1>6, <2>5, <2>6
  <2> QED BY <2>7 DEF k
<1> QED BY <1>3, <1>4, <1>6, <1>7 DEF n

-----------------------------------------------------------------------------
(* Margins.                                                                *)

\* Lines that their places tell apart.
Placed(S) ==
  /\ \A x \in S : x.place \in Nat
  /\ \A x, y \in S : x.place = y.place => x = y
  /\ \A x \in S : ~IsBlank(x) => x.place > 0

\* Only the first line of a page with its line there, ...
LEMMA FirstGoes ==
  ASSUME NEW S, NEW lines \in Seq(S), NEW pages
  PROVE  LET t == WithoutFirst(lines, pages) IN
         /\ t \in Seq(S) /\ Drops(t, lines)
         /\ \A i \in 1..Len(lines) :
              \/ Has(t, lines[i].place)
              \/ /\ i \in Content(lines) /\ \A j \in Content(lines) : i <= j
                 /\ Repeats(lines[i], FirstLines(pages), pages)
<1> DEFINE n == Len(lines)
           C == Content(lines)
           m == Min(C)
           t == WithoutFirst(lines, pages)
<1>1. /\ C \in SUBSET (1..n)
      /\ C # {} => m \in C /\ \A i \in C : m <= i
  BY ContentEnds
<1>2. CASE C # {} /\ Repeats(lines[m], FirstLines(pages), pages)
  <2> DEFINE r == RemoveAt(lines, m)
  <2>1. t = r
    BY <1>2 DEF WithoutFirst
  <2>2. m \in 1..n /\ m \in C /\ n \in Nat /\ \A i \in C : m <= i
    BY <1>1, <1>2
  <2> HIDE DEF m, C, t
  <2>3. r \in Seq(S) /\ Len(r) = n - 1 /\ Drops(r, lines)
        /\ \A j \in 1..(n - 1) : r[j] = IF j < m THEN lines[j] ELSE lines[j + 1]
    BY <2>2, ItemRemoved, RemovalDrops
  <2> HIDE DEF r, n
  <2>4. ASSUME NEW i \in 1..n, i # m PROVE Has(r, lines[i].place)
    <3>1. CASE i < m
      <4>1. i \in 1..(n - 1) /\ r[i] = lines[i]
        BY <2>2, <2>3, <3>1
      <4>2. i \in 1..Len(r)
        BY <2>3, <4>1
      <4> QED BY <4>1, <4>2 DEF Has
    <3>2. CASE i > m
      <4> DEFINE k == i - 1
      <4>1. k \in 1..(n - 1) /\ k + 1 = i /\ ~(k < m)
        BY <2>2, <3>2
      <4> HIDE DEF k
      <4>2. r[k] = lines[i] /\ k \in 1..Len(r)
        BY <2>3, <4>1
      <4> QED BY <4>2 DEF Has
    <3> QED BY <2>2, <2>4, <3>1, <3>2
  <2> QED BY <1>2, <2>1, <2>2, <2>3, <2>4 DEF n, C, t
<1>3. CASE ~(C # {} /\ Repeats(lines[m], FirstLines(pages), pages))
  <2>1. t = lines
    BY <1>3 DEF WithoutFirst
  <2>2. Drops(lines, lines) /\ \A i \in 1..n : Has(lines, lines[i].place)
    BY AllIsLeft DEF Has
  <2> QED BY <2>1, <2>2
<1> QED BY <1>2, <1>3

\* ... and the last one goes.
LEMMA LastGoes ==
  ASSUME NEW S, NEW lines \in Seq(S), NEW pages
  PROVE  LET t == WithoutLast(lines, pages) IN
         /\ t \in Seq(S) /\ Drops(t, lines)
         /\ \A i \in 1..Len(lines) :
              \/ Has(t, lines[i].place)
              \/ /\ i \in Content(lines) /\ \A j \in Content(lines) : i >= j
                 /\ Repeats(lines[i], LastLines(pages), pages)
<1> DEFINE n == Len(lines)
           C == Content(lines)
           m == Max(C)
           t == WithoutLast(lines, pages)
<1>1. /\ C \in SUBSET (1..n)
      /\ C # {} => m \in C /\ \A i \in C : m >= i
  <2>1. /\ C \in SUBSET (1..n)
        /\ C # {} => m \in C /\ \A i \in C : i <= m
    BY ContentEnds
  <2> QED BY <2>1
<1>2. CASE C # {} /\ Repeats(lines[m], LastLines(pages), pages)
  <2> DEFINE r == RemoveAt(lines, m)
  <2>1. t = r
    BY <1>2 DEF WithoutLast
  <2>2. m \in 1..n /\ m \in C /\ n \in Nat /\ \A i \in C : m >= i
    BY <1>1, <1>2
  <2> HIDE DEF m, C, t
  <2>3. r \in Seq(S) /\ Len(r) = n - 1 /\ Drops(r, lines)
        /\ \A j \in 1..(n - 1) : r[j] = IF j < m THEN lines[j] ELSE lines[j + 1]
    BY <2>2, ItemRemoved, RemovalDrops
  <2> HIDE DEF r, n
  <2>4. ASSUME NEW i \in 1..n, i # m PROVE Has(r, lines[i].place)
    <3>1. CASE i < m
      <4>1. i \in 1..(n - 1) /\ r[i] = lines[i]
        BY <2>2, <2>3, <3>1
      <4>2. i \in 1..Len(r)
        BY <2>3, <4>1
      <4> QED BY <4>1, <4>2 DEF Has
    <3>2. CASE i > m
      <4> DEFINE k == i - 1
      <4>1. k \in 1..(n - 1) /\ k + 1 = i /\ ~(k < m)
        BY <2>2, <3>2
      <4> HIDE DEF k
      <4>2. r[k] = lines[i] /\ k \in 1..Len(r)
        BY <2>3, <4>1
      <4> QED BY <4>2 DEF Has
    <3> QED BY <2>2, <2>4, <3>1, <3>2
  <2> QED BY <1>2, <2>1, <2>2, <2>3, <2>4 DEF n, C, t
<1>3. CASE ~(C # {} /\ Repeats(lines[m], LastLines(pages), pages))
  <2>1. t = lines
    BY <1>3 DEF WithoutLast
  <2>2. Drops(lines, lines) /\ \A i \in 1..n : Has(lines, lines[i].place)
    BY AllIsLeft DEF Has
  <2> QED BY <2>1, <2>2
<1> QED BY <1>2, <1>3

\* The i-th line of a page is its first or last one, and other pages have it there too.
Marginal(i, lines, pages) ==
  /\ i \in Content(lines)
  /\ \/ (\A j \in Content(lines) : i <= j) /\ Repeats(lines[i], FirstLines(pages), pages)
     \/ (\A j \in Content(lines) : i >= j) /\ Repeats(lines[i], LastLines(pages), pages)

LEMMA MarginsGo ==
  ASSUME NEW S, Placed(S), NEW lines \in Seq(S), InOrder(lines), NEW pages
  PROVE  LET t == WithoutMargins(lines, pages) IN
         /\ t \in Seq(S) /\ InOrder(t)
         /\ \A p \in Nat : Has(t, p) => Has(lines, p)
         /\ \A p \in Nat \ {0} :
              Adjoin(lines, p) /\ Has(t, p) /\ Has(t, p + 1) => Adjoin(t, p)
         /\ \A i \in 1..Len(lines) : lines[i].place > 0 =>
              Has(t, lines[i].place) \/ Marginal(i, lines, pages)
<1> DEFINE b == WithoutFirst(lines, pages)
           t == WithoutLast(b, pages)
           n == Len(lines)
<1>1. WithoutMargins(lines, pages) = t
  BY MarginsAreTwo
<1>2. \A x \in S : x.place \in Nat
  BY DEF Placed
<1>3. /\ b \in Seq(S) /\ Drops(b, lines)
      /\ \A i \in 1..n : Has(b, lines[i].place) \/ 
              /\ i \in Content(lines) /\ \A j \in Content(lines) : i <= j
              /\ Repeats(lines[i], FirstLines(pages), pages)
  BY FirstGoes
<1> HIDE DEF b
<1>4. /\ InOrder(b)
      /\ \A p \in Nat : Has(b, p) => Has(lines, p)
      /\ \A p \in Nat \ {0} : Adjoin(lines, p) /\ Has(b, p) /\ Has(b, p + 1) => Adjoin(b, p)
  BY <1>2, <1>3, DropKeepsOrder
<1>5. /\ t \in Seq(S) /\ Drops(t, b)
      /\ \A i \in 1..Len(b) : Has(t, b[i].place) \/ 
              /\ i \in Content(b) /\ \A j \in Content(b) : i >= j
              /\ Repeats(b[i], LastLines(pages), pages)
  BY <1>3, LastGoes
<1> HIDE DEF t
<1>6. /\ InOrder(t)
      /\ \A p \in Nat : Has(t, p) => Has(b, p)
      /\ \A p \in Nat \ {0} : Adjoin(b, p) /\ Has(t, p) /\ Has(t, p + 1) => Adjoin(t, p)
  BY <1>2, <1>3, <1>4, <1>5, DropKeepsOrder
<1>7. \A p \in Nat : Has(t, p) => Has(lines, p)
  BY <1>4, <1>6
<1>8. \A p \in Nat \ {0} : Adjoin(lines, p) /\ Has(t, p) /\ Has(t, p + 1) => Adjoin(t, p)
  <2> SUFFICES ASSUME NEW p \in Nat \ {0}, Adjoin(lines, p), Has(t, p), Has(t, p + 1)
               PROVE  Adjoin(t, p)
    OBVIOUS
  <2>1. p \in Nat /\ p + 1 \in Nat
    OBVIOUS
  <2>2. Has(b, p) /\ Has(b, p + 1)
    BY <1>6, <2>1
  <2> QED BY <1>4, <1>6, <2>2
<1>9. ASSUME NEW i \in 1..n, lines[i].place > 0, ~Has(t, lines[i].place)
      PROVE  Marginal(i, lines, pages)
  <2> DEFINE p == lines[i].place
  <2>1. CASE ~Has(b, p)
    <3>1. /\ i \in Content(lines) /\ \A j \in Content(lines) : i <= j
          /\ Repeats(lines[i], FirstLines(pages), pages)
      BY <1>3, <2>1
    <3> QED BY <3>1 DEF Marginal
  <2>2. CASE Has(b, p)
    <3>1. PICK k \in 1..Len(b) : b[k].place = p
      BY <2>2 DEF Has
    <3>2. b[k] \in S /\ lines[i] \in S
      BY <1>3
    <3>3. b[k] = lines[i]
      BY <3>1, <3>2 DEF Placed
    <3>4. ~Has(t, b[k].place)
      BY <1>9, <3>1
    <3>5. /\ k \in Content(b) /\ \A j \in Content(b) : k >= j
          /\ Repeats(b[k], LastLines(pages), pages)
      BY <1>5, <3>4
    <3>6. ~IsBlank(lines[i]) /\ i \in Content(lines)
      <4>1. ~IsBlank(b[k])
        BY <3>5 DEF Content
      <4>2. i \in DOMAIN lines
        OBVIOUS
      <4> QED BY <3>3, <4>1, <4>2 DEF Content
    <3>7. ASSUME NEW j \in Content(lines), j > i PROVE FALSE
      <4>1. j \in 1..n /\ ~IsBlank(lines[j]) /\ lines[j] \in S /\ i \in Nat /\ j \in Nat
        <5>1. j \in DOMAIN lines /\ ~IsBlank(lines[j])
          BY DEF Content
        <5>2. DOMAIN lines = 1..n /\ n \in Nat
          OBVIOUS
        <5> QED BY <5>1, <5>2
      <4>2. lines[j].place > 0
        BY <4>1 DEF Placed
      <4>3. lines[i].place < lines[j].place
        BY <1>9, <3>7, <4>1, <4>2 DEF InOrder
      <4>4. Has(b, lines[j].place)
        <5>1. ~(\A l \in Content(lines) : j <= l)
          BY <3>6, <3>7, <4>1
        <5> QED BY <1>3, <4>1, <5>1
      <4>5. PICK l \in 1..Len(b) : b[l].place = lines[j].place
        BY <4>4 DEF Has
      <4>6. b[l] = lines[j]
        <5>1. b[l] \in S
          BY <1>3
        <5> QED BY <4>1, <4>5, <5>1 DEF Placed
      <4>7. l \in Content(b)
        <5>1. l \in DOMAIN b
          BY <1>3
        <5> QED BY <4>1, <4>6, <5>1 DEF Content
      <4>8. k < l
        <5>1. b[k].place > 0 /\ b[l].place > 0 /\ b[k].place < b[l].place
          BY <1>9, <3>1, <4>2, <4>3, <4>5
        <5> QED BY <1>2, <1>3, <1>4, <5>1, PlacesTell
      <4>9. k >= l
        BY <3>5, <4>7
      <4>10. k \in Nat /\ l \in Nat
        OBVIOUS
      <4> QED BY <4>8, <4>9, <4>10
    <3>8. \A j \in Content(lines) : i >= j
      <4>1. \A j \in Content(lines) : j \in Nat /\ i \in Nat
        <5>1. Content(lines) \in SUBSET Nat
          BY ContentEnds
        <5> QED BY <5>1
      <4> QED BY <3>7, <4>1
    <3> QED BY <3>3, <3>5, <3>6, <3>8 DEF Marginal
  <2> QED BY <2>1, <2>2
<1> QED BY <1>1, <1>5, <1>6, <1>7, <1>8, <1>9

LEMMA ThresholdIsTwo ==
  ASSUME NEW pages, Len(pages) \in Nat
  PROVE  Threshold(pages) \in Nat /\ Threshold(pages) >= 2
<1> DEFINE half == (Len(pages) + 1) \div 2
           T == {2, half}
<1>1. half \in Nat
  OBVIOUS
<1> HIDE DEF half
<1>2. IsFiniteSet(T)
  <2>1. IsFiniteSet({half})
    BY FS_Singleton
  <2>2. IsFiniteSet({half} \cup {2})
    BY <2>1, FS_AddElement
  <2>3. T = {half} \cup {2}
    OBVIOUS
  <2> QED BY <2>2, <2>3
<1>3. T \in SUBSET Nat /\ T # {} /\ 2 \in T
  BY <1>1
<1>4. Threshold(pages) = Max(T)
  BY DEF Threshold, half
<1> HIDE DEF T
<1>5. Max(T) \in T /\ \A x \in T : x <= Max(T)
  BY <1>2, <1>3, MaxIsGreatest
<1> QED BY <1>3, <1>4, <1>5

\* The pages that have a line as their margin are more than one.
LEMMA RepeatsTwice ==
  ASSUME NEW n \in Nat, NEW margins, DOMAIN margins \in SUBSET (1..n), NEW pages,
         Len(pages) = n, NEW line, Repeats(line, margins, pages), NEW k
  PROVE  \E l \in DOMAIN margins \ {k} : Same(margins[l], line)
<1> DEFINE M == {l \in DOMAIN margins : Same(margins[l], line)}
<1>1. Cardinality(M) >= Threshold(pages)
  BY DEF Repeats
<1>2. Threshold(pages) \in Nat /\ Threshold(pages) >= 2
  BY ThresholdIsTwo
<1>3. M \in SUBSET (1..n)
  OBVIOUS
<1>4. IsFiniteSet(M) /\ Cardinality(M) \in Nat
  <2>1. IsFiniteSet(1..n)
    BY FS_Interval
  <2> DEFINE D == 1..n
  <2>2. IsFiniteSet(D) /\ M \in SUBSET D
    BY <1>3, <2>1
  <2> HIDE DEF D, M
  <2> QED BY <2>2, FS_Subset, FS_CardinalityType
<1>6. ~(M \subseteq {k})
  <2> SUFFICES ASSUME M \subseteq {k} PROVE FALSE
    OBVIOUS
  <2>1. IsFiniteSet({k}) /\ Cardinality({k}) = 1
    BY FS_Singleton
  <2> HIDE DEF M
  <2>2. Cardinality(M) <= Cardinality({k})
    BY <2>1, FS_Subset
  <2> QED BY <1>1, <1>2, <1>4, <2>1, <2>2
<1> QED BY <1>6

\* A page's margin that goes is the margin of another page.
LEMMA MarginElsewhere ==
  ASSUME NEW L, NEW pages \in Seq(Seq(L)), NEW k \in DOMAIN pages, NEW i,
         Marginal(i, pages[k], pages)
  PROVE  /\ i \in Content(pages[k])
         /\ \/ \A j \in Content(pages[k]) : i <= j
            \/ \A j \in Content(pages[k]) : i >= j
         /\ \E l \in DOMAIN pages \ {k} : \E j \in Content(pages[l]) :
              /\ \/ \A m \in Content(pages[l]) : j <= m
                 \/ \A m \in Content(pages[l]) : j >= m
              /\ Same(pages[k][i], pages[l][j])
<1> DEFINE n == Len(pages)
           line == pages[k][i]
           firsts == FirstLines(pages)
           lasts == LastLines(pages)
<1>1. n \in Nat /\ DOMAIN pages = 1..n /\ \A l \in 1..n : pages[l] \in Seq(L)
  OBVIOUS
<1>2. \A l \in 1..n : Content(pages[l]) # {} =>
        /\ Min(Content(pages[l])) \in Content(pages[l])
        /\ Max(Content(pages[l])) \in Content(pages[l])
        /\ \A m \in Content(pages[l]) : Min(Content(pages[l])) <= m /\ m <= Max(Content(pages[l]))
  BY <1>1, ContentEnds
<1>3. \A l \in 1..n : Content(pages[l]) \in SUBSET Nat
  BY <1>1, ContentEnds
<1>4. /\ DOMAIN firsts \in SUBSET (1..n)
      /\ \A l \in DOMAIN firsts :
           Content(pages[l]) # {} /\ firsts[l] = pages[l][Min(Content(pages[l]))]
  BY <1>1 DEF FirstLines
<1>5. /\ DOMAIN lasts \in SUBSET (1..n)
      /\ \A l \in DOMAIN lasts :
           Content(pages[l]) # {} /\ lasts[l] = pages[l][Max(Content(pages[l]))]
  BY <1>1 DEF LastLines
<1>6. \A x, y : Same(x, y) => Same(y, x)
  BY DEF Same, IsPageNumber
<1> HIDE DEF firsts, lasts, line, n
<1>7. CASE Repeats(line, firsts, pages)
  <2>1. PICK l \in DOMAIN firsts \ {k} : Same(firsts[l], line)
    BY <1>1, <1>4, <1>7, RepeatsTwice DEF n
  <2> DEFINE j == Min(Content(pages[l]))
  <2>2. l \in DOMAIN pages \ {k} /\ j \in Content(pages[l]) /\ \A m \in Content(pages[l]) : j <= m
    BY <1>1, <1>2, <1>4, <2>1
  <2>3. Same(line, pages[l][j])
    BY <1>4, <1>6, <2>1
  <2> HIDE DEF j
  <2> QED BY <2>2, <2>3 DEF Marginal, line
<1>8. CASE Repeats(line, lasts, pages)
  <2>1. PICK l \in DOMAIN lasts \ {k} : Same(lasts[l], line)
    BY <1>1, <1>5, <1>8, RepeatsTwice DEF n
  <2> DEFINE j == Max(Content(pages[l]))
  <2>2. l \in DOMAIN pages \ {k} /\ j \in Content(pages[l]) /\ \A m \in Content(pages[l]) : m <= j
    BY <1>1, <1>2, <1>5, <2>1
  <2>4. \A m \in Content(pages[l]) : j >= m
    BY <2>2
  <2>3. Same(line, pages[l][j])
    BY <1>5, <1>6, <2>1
  <2> HIDE DEF j
  <2> QED BY <2>2, <2>3, <2>4 DEF Marginal, line
<1> QED BY <1>7, <1>8 DEF Marginal, line, firsts, lasts

-----------------------------------------------------------------------------
(* Where the pages are in the text.                                        *)

\* Of the first m lines of s, page k of v has those after place off[k].
Lies(off, v, s, m) ==
  /\ off \in [1..Len(v) -> Nat]
  /\ \A k, l \in 1..Len(v) : k < l => off[k] + Len(v[k]) < off[l]
  /\ off[Len(v)] + Len(v[Len(v)]) = m
  /\ \A k \in 1..Len(v) : \A i \in 1..Len(v[k]) : v[k][i] = s[off[k] + i]
  /\ \A p \in 1..m : s[p].says # "page" =>
       \E k \in 1..Len(v) : off[k] < p /\ p <= off[k] + Len(v[k])

LEMMA PageLies ==
  ASSUME NEW L, NEW s \in Seq(L), NEW m \in Nat, m + 1 <= Len(s),
         NEW v \in Paged(L), NEW off, Lies(off, v, s, m)
  PROVE  \E new : Lies(new, AddLine(v, s[m + 1]), s, m + 1)
<1> DEFINE x == s[m + 1]
           w == AddLine(v, x)
           n == Len(v)
<1>1. m + 1 \in 1..Len(s) /\ x \in L
  OBVIOUS
<1>2. w \in Paged(L) /\ LineJoins(v, x, w)
  <2> HIDE DEF x
  <2> QED BY <1>1, LineAdded
<1>3. /\ off \in [1..n -> Nat]
      /\ \A k, l \in 1..n : k < l => off[k] + Len(v[k]) < off[l]
      /\ off[n] + Len(v[n]) = m
      /\ \A k \in 1..n : \A i \in 1..Len(v[k]) : v[k][i] = s[off[k] + i]
      /\ \A p \in 1..m : s[p].says # "page" =>
           \E k \in 1..n : off[k] < p /\ p <= off[k] + Len(v[k])
  BY DEF Lies
<1>4. n \in Nat /\ n >= 1
  BY <1>2 DEF LineJoins
<1>5. \A k \in 1..n : v[k] \in Seq(Unpaged(L)) /\ Len(v[k]) \in Nat
  <2>1. v \in Seq(Seq(Unpaged(L)))
    BY DEF Paged
  <2> QED BY <2>1
<1>6. CASE x.says = "page"
  <2> DEFINE new == [k \in 1..(n + 1) |-> IF k = n + 1 THEN m + 1 ELSE off[k]]
  <2>1. Len(w) = n + 1 /\ w[n + 1] = <<>> /\ \A k \in 1..n : w[k] = v[k]
    BY <1>2, <1>6 DEF LineJoins
  <2>2. new \in [1..(n + 1) -> Nat] /\ new[n + 1] = m + 1 /\ \A k \in 1..n : new[k] = off[k]
    BY <1>3, <1>4
  <2> HIDE DEF w, new, n
  <2>3. \A k \in 1..n : off[k] + Len(v[k]) <= m
    <3> SUFFICES ASSUME NEW k \in 1..n PROVE off[k] + Len(v[k]) <= m
      OBVIOUS
    <3>5. n \in 1..n
      BY <1>4
    <3>1. n \in 1..n /\ off[k] \in Nat /\ off[n] \in Nat /\ Len(v[n]) \in Nat /\ Len(v[k]) \in Nat
      BY <1>3, <1>5, <3>5
    <3>2. k = n \/ k < n
      BY <1>4
    <3>3. CASE k = n
      BY <1>3, <3>3
    <3>4. CASE k < n
      BY <1>3, <3>1, <3>4
    <3> QED BY <3>2, <3>3, <3>4
  <2>4. \A k, l \in 1..(n + 1) : k < l => new[k] + Len(w[k]) < new[l]
    <3> SUFFICES ASSUME NEW k \in 1..(n + 1), NEW l \in 1..(n + 1), k < l
                 PROVE  new[k] + Len(w[k]) < new[l]
      OBVIOUS
    <3>1. k \in 1..n /\ new[k] = off[k] /\ w[k] = v[k] /\ off[k] \in Nat /\ Len(v[k]) \in Nat
      BY <1>3, <1>4, <1>5, <2>1, <2>2
    <3>2. CASE l = n + 1
      BY <2>2, <2>3, <3>1, <3>2
    <3>3. CASE l # n + 1
      <4>1. l \in 1..n /\ new[l] = off[l]
        BY <1>4, <2>2, <3>3
      <4> QED BY <1>3, <3>1, <4>1
    <3> QED BY <3>2, <3>3
  <2>5. new[n + 1] + Len(w[n + 1]) = m + 1
    BY <2>1, <2>2
  <2>6. ASSUME NEW k \in 1..(n + 1), NEW i \in 1..Len(w[k]) PROVE w[k][i] = s[new[k] + i]
    <3>1. CASE k = n + 1
      BY <2>1, <3>1
    <3>2. CASE k # n + 1
      <4>1. k \in 1..n /\ new[k] = off[k] /\ w[k] = v[k]
        BY <1>4, <2>1, <2>2, <3>2
      <4> QED BY <1>3, <4>1
    <3> QED BY <3>1, <3>2
  <2>7. ASSUME NEW p \in 1..(m + 1), s[p].says # "page"
        PROVE  \E k \in 1..(n + 1) : new[k] < p /\ p <= new[k] + Len(w[k])
    <3>1. p \in 1..m
      BY <1>6, <2>7
    <3>2. PICK k \in 1..n : off[k] < p /\ p <= off[k] + Len(v[k])
      BY <1>3, <2>7, <3>1
    <3>3. k \in 1..(n + 1) /\ new[k] = off[k] /\ w[k] = v[k]
      BY <1>4, <2>1, <2>2
    <3> QED BY <3>2, <3>3
  <2>9. Lies(new, w, s, m + 1)
    BY <2>1, <2>2, <2>4, <2>5, <2>6, <2>7 DEF Lies
  <2> QED BY <2>9 DEF w
<1>7. CASE x.says # "page"
  <2>1. Len(w) = n /\ w[n] = Append(v[n], x) /\ \A k \in 1..(n - 1) : w[k] = v[k]
    BY <1>2, <1>7 DEF LineJoins
  <2>2. x \in Unpaged(L)
    BY <1>1, <1>7 DEF Unpaged
  <2> HIDE DEF w, n
  <2>3. /\ Len(w[n]) = Len(v[n]) + 1 /\ (\A i \in 1..Len(v[n]) : w[n][i] = v[n][i])
        /\ w[n][Len(v[n]) + 1] = x
    <3> DEFINE t == v[n]
               U == Unpaged(L)
    <3>1. t \in Seq(U) /\ x \in U
      BY <1>4, <1>5, <2>2
    <3> HIDE DEF t, U, x
    <3>2. /\ Len(Append(t, x)) = Len(t) + 1 /\ Append(t, x)[Len(t) + 1] = x
          /\ \A i \in 1..Len(t) : Append(t, x)[i] = t[i]
      BY <3>1, LineAppended
    <3>3. w[n] = Append(t, x)
      BY <2>1 DEF t
    <3> QED BY <3>2, <3>3 DEF t
  <2>4. n \in 1..n /\ off[n] \in Nat /\ Len(v[n]) \in Nat
    BY <1>3, <1>4, <1>5
  <2>5. \A k, l \in 1..n : k < l => off[k] + Len(w[k]) < off[l]
    <3> SUFFICES ASSUME NEW k \in 1..n, NEW l \in 1..n, k < l PROVE off[k] + Len(w[k]) < off[l]
      OBVIOUS
    <3>1. k \in 1..(n - 1)
      BY <1>4
    <3>2. w[k] = v[k]
      BY <2>1, <3>1
    <3> QED BY <1>3, <3>2
  <2>6. off[n] + Len(w[n]) = m + 1
    <3>1. Len(w[n]) = Len(v[n]) + 1
      BY <2>3
    <3>2. off[n] + Len(v[n]) = m
      BY <1>3
    <3> QED BY <2>4, <3>1, <3>2
  <2>7. ASSUME NEW k \in 1..n, NEW i \in 1..Len(w[k]) PROVE w[k][i] = s[off[k] + i]
    <3>1. CASE k = n
      <4>1. CASE i = Len(v[n]) + 1
        <5>1. off[n] + Len(v[n]) = m
          BY <1>3
        <5>2. off[n] + i = m + 1
          BY <2>4, <4>1, <5>1
        <5> QED BY <2>3, <3>1, <4>1, <5>2 DEF x
      <4>2. CASE i # Len(v[n]) + 1
        <5>1. i \in 1..Len(v[n])
          BY <2>3, <2>4, <2>7, <3>1, <4>2
        <5> QED BY <1>3, <2>3, <2>4, <3>1, <5>1
      <4> QED BY <4>1, <4>2
    <3>2. CASE k # n
      <4>1. k \in 1..(n - 1)
        BY <1>4, <3>2
      <4>2. w[k] = v[k]
        BY <2>1, <4>1
      <4> QED BY <1>3, <2>7, <4>2
    <3> QED BY <3>1, <3>2
  <2>8. ASSUME NEW p \in 1..(m + 1), s[p].says # "page"
        PROVE  \E k \in 1..n : off[k] < p /\ p <= off[k] + Len(w[k])
    <3>1. CASE p = m + 1
      <4>1. off[n] < p /\ p <= off[n] + Len(w[n])
        BY <1>3, <2>4, <2>6, <3>1
      <4> QED BY <2>4, <4>1
    <3>2. CASE p # m + 1
      <4>1. p \in 1..m
        BY <3>2
      <4>2. PICK k \in 1..n : off[k] < p /\ p <= off[k] + Len(v[k])
        BY <1>3, <2>8, <4>1
      <4>3. CASE k = n
        BY <2>3, <2>4, <4>2, <4>3
      <4>4. CASE k # n
        <5>1. k \in 1..(n - 1)
          BY <1>4, <4>4
        <5>2. w[k] = v[k]
          BY <2>1, <5>1
        <5> QED BY <4>2, <5>2
      <4> QED BY <4>3, <4>4
    <3> QED BY <3>1, <3>2
  <2>10. Lies(off, w, s, m + 1)
    BY <1>3, <2>1, <2>5, <2>6, <2>7, <2>8 DEF Lies
  <2> QED BY <2>10 DEF w
<1> QED BY <1>6, <1>7

LEMMA PagesLie ==
  ASSUME NEW L, NEW s \in Seq(L)
  PROVE  \E off : Lies(off, Pages(s), s, Len(s))
<1> DEFINE n == Len(s)
<1>1. PICK h : PagesRead(h, s, L)
  BY PagesAreRead
<1>2. /\ h \in [0..n -> Paged(L)] /\ h[0] = << <<>> >> /\ h[n] = Pages(s)
      /\ \A i \in 1..n : h[i] = AddLine(h[i - 1], s[i])
  BY <1>1 DEF PagesRead
<1>3. n \in Nat
  OBVIOUS
<1> DEFINE P == {i \in 0..n : \E off : Lies(off, h[i], s, i)}
<1>4. 0 \in P
  <2> DEFINE off == [k \in 1..1 |-> 0]
             v == << <<>> >>
  <2>1. off \in [1..1 -> Nat] /\ off[1] = 0
    OBVIOUS
  <2>2. Len(v) = 1 /\ v[1] = <<>>
    OBVIOUS
  <2> HIDE DEF off, v
  <2>3. Lies(off, v, s, 0)
    BY <2>1, <2>2 DEF Lies
  <2> QED BY <1>2, <1>3, <2>3 DEF v
<1>5. ASSUME NEW i \in 1..n, i - 1 \in P PROVE i \in P
  <2> DEFINE m == i - 1
             v == h[m]
  <2>1. m \in Nat /\ m + 1 = i /\ m + 1 <= Len(s) /\ i \in 0..n /\ v \in Paged(L)
    BY <1>2, <1>3
  <2>2. PICK off : Lies(off, v, s, m)
    BY <1>5
  <2>3. h[i] = AddLine(v, s[i])
    BY <1>2
  <2> HIDE DEF m, v
  <2>4. \E new : Lies(new, AddLine(v, s[m + 1]), s, m + 1)
    BY <2>1, <2>2, PageLies
  <2> QED BY <2>1, <2>3, <2>4
<1> HIDE DEF P, n
<1>6. n \in P
  BY <1>3, <1>4, <1>5, Along
<1> QED BY <1>2, <1>6 DEF P, n

-----------------------------------------------------------------------------
(* The pages in one text again.                                            *)

Precedes(v, x) == \A p, q \in Nat \ {0} : Has(v, p) /\ Has(x, q) => p < q

LEMMA TwoJoined ==
  ASSUME NEW S, \A x \in S : x.place \in Nat, NEW v \in Seq(S), NEW x \in Seq(S)
  PROVE  LET w == v \o x IN
         /\ \A p \in Nat : Has(w, p) <=> Has(v, p) \/ Has(x, p)
         /\ \A p \in Nat : Adjoin(v, p) \/ Adjoin(x, p) => Adjoin(w, p)
         /\ InOrder(v) /\ InOrder(x) /\ Precedes(v, x) => InOrder(w)
<1> DEFINE w == v \o x
           n == Len(v)
           m == Len(x)
<1>1. /\ w \in Seq(S) /\ Len(w) = n + m
      /\ (\A j \in 1..n : w[j] = v[j]) /\ \A j \in 1..m : w[n + j] = x[j]
  BY Joined
<1>2. n \in Nat /\ m \in Nat
  OBVIOUS
<1>6. (\A i \in 1..n : v[i].place \in Nat) /\ \A i \in 1..m : x[i].place \in Nat
  OBVIOUS
<1> HIDE DEF w, n, m
<1>3. ASSUME NEW p \in Nat PROVE Has(w, p) <=> Has(v, p) \/ Has(x, p)
  <2>1. ASSUME NEW i \in 1..n, v[i].place = p PROVE Has(w, p)
    <3>1. i \in 1..Len(w) /\ w[i].place = p
      BY <1>1, <1>2, <2>1
    <3> QED BY <3>1 DEF Has
  <2>2. ASSUME NEW i \in 1..m, x[i].place = p PROVE Has(w, p)
    <3>1. n + i \in 1..Len(w) /\ w[n + i].place = p
      BY <1>1, <1>2, <2>2
    <3> QED BY <3>1 DEF Has
  <2>3. ASSUME NEW i \in 1..Len(w), w[i].place = p PROVE Has(v, p) \/ Has(x, p)
    <3>1. CASE i <= n
      <4>1. i \in 1..n /\ v[i].place = p
        BY <1>1, <1>2, <2>3, <3>1
      <4> QED BY <4>1 DEF Has, n
    <3>2. CASE i > n
      <4> DEFINE j == i - n
      <4>1. j \in 1..m /\ n + j = i
        BY <1>1, <1>2, <3>2
      <4> HIDE DEF j
      <4>2. x[j].place = p
        BY <1>1, <2>3, <4>1
      <4> QED BY <4>1, <4>2 DEF Has, m
    <3> QED BY <1>1, <1>2, <3>1, <3>2
  <2> QED BY <2>1, <2>2, <2>3 DEF Has, n, m
<1>4. ASSUME NEW p \in Nat, Adjoin(v, p) \/ Adjoin(x, p) PROVE Adjoin(w, p)
  <2>1. CASE Adjoin(v, p)
    <3>1. PICK i \in 1..n : i + 1 <= n /\ v[i].place = p /\ v[i + 1].place = p + 1
      BY <2>1 DEF Adjoin, n
    <3>2. i + 1 \in 1..n /\ i \in 1..Len(w) /\ i + 1 <= Len(w)
      BY <1>1, <1>2, <3>1
    <3>3. w[i] = v[i] /\ w[i + 1] = v[i + 1]
      BY <1>1, <3>2
    <3> QED BY <3>1, <3>2, <3>3 DEF Adjoin
  <2>2. CASE Adjoin(x, p)
    <3>1. PICK i \in 1..m : i + 1 <= m /\ x[i].place = p /\ x[i + 1].place = p + 1
      BY <2>2 DEF Adjoin, m
    <3> DEFINE j == i + 1
               k == n + i
    <3>2. j \in 1..m /\ k \in 1..Len(w) /\ k + 1 <= Len(w) /\ n + j = k + 1
      BY <1>1, <1>2, <3>1
    <3>3. w[n + i] = x[i] /\ w[n + j] = x[j]
      BY <1>1, <3>2
    <3>4. w[k].place = p /\ w[k + 1].place = p + 1
      BY <3>1, <3>2, <3>3
    <3> HIDE DEF k
    <3> QED BY <3>2, <3>4 DEF Adjoin
  <2> QED BY <1>4, <2>1, <2>2
<1>5. ASSUME InOrder(v), InOrder(x), Precedes(v, x) PROVE InOrder(w)
  <2> SUFFICES ASSUME NEW i \in 1..Len(w), NEW j \in 1..Len(w), i < j,
                      w[i].place > 0, w[j].place > 0
               PROVE  w[i].place < w[j].place
    BY DEF InOrder
  <2>1. CASE j <= n
    <3>1. i \in 1..n /\ j \in 1..n
      BY <1>1, <1>2, <2>1
    <3>2. w[i] = v[i] /\ w[j] = v[j]
      BY <1>1, <3>1
    <3> QED BY <1>5, <3>1, <3>2 DEF InOrder, n
  <2>2. CASE i > n
    <3> DEFINE k == i - n
               l == j - n
    <3>1. k \in 1..m /\ l \in 1..m /\ n + k = i /\ n + l = j /\ k < l
      BY <1>1, <1>2, <2>2
    <3> HIDE DEF k, l
    <3>2. w[i] = x[k] /\ w[j] = x[l]
      BY <1>1, <3>1
    <3> QED BY <1>5, <3>1, <3>2 DEF InOrder, m
  <2>3. CASE i <= n /\ j > n
    <3> DEFINE l == j - n
    <3>1. i \in 1..n /\ l \in 1..m /\ n + l = j
      BY <1>1, <1>2, <2>3
    <3> HIDE DEF l
    <3>2. w[i] = v[i] /\ w[j] = x[l]
      BY <1>1, <3>1
    <3> DEFINE p == v[i].place
               q == x[l].place
    <3>3. p \in Nat \ {0} /\ q \in Nat \ {0}
      BY <1>6, <3>1, <3>2
    <3>4. Has(v, p) /\ Has(x, q)
      BY <3>1 DEF Has, n, m
    <3>5. p < q
      BY <1>5, <3>3, <3>4 DEF Precedes
    <3> QED BY <3>2, <3>5
  <2> QED BY <1>1, <1>2, <2>1, <2>2, <2>3
<1> QED BY <1>3, <1>4, <1>5 DEF w

LEMMA PageJoined ==
  ASSUME NEW S, \A x \in S : x.place \in Nat, Blank \in S, NEW v \in Seq(S), NEW x \in Seq(S)
  PROVE  LET w == AddPage(v, x) IN
         /\ w \in Seq(S)
         /\ \A p \in Nat \ {0} : Has(w, p) <=> Has(v, p) \/ Has(x, p)
         /\ \A p \in Nat : Adjoin(v, p) \/ Adjoin(x, p) => Adjoin(w, p)
         /\ InOrder(v) /\ InOrder(x) /\ Precedes(v, x) => InOrder(w)
<1> DEFINE b == <<Blank>>
           a == v \o b
           w == a \o x
<1>1. b \in Seq(S) /\ Len(b) = 1 /\ b[1] = Blank
  OBVIOUS
<1>2. Blank.place = 0
  BY DEF Blank, Line
<1>3. /\ \A p \in Nat \ {0} : ~Has(b, p)
      /\ InOrder(b) /\ Precedes(v, b)
  BY <1>1, <1>2 DEF Has, InOrder, Precedes
<1>4. /\ ~Has(<<>>, 0) /\ \A p \in Nat : ~Has(<<>>, p) /\ ~Adjoin(<<>>, p)
      /\ InOrder(<<>>)
  BY DEF Has, Adjoin, InOrder
<1> HIDE DEF b
<1>5. /\ \A p \in Nat : Has(a, p) <=> Has(v, p) \/ Has(b, p)
      /\ \A p \in Nat : Adjoin(v, p) \/ Adjoin(b, p) => Adjoin(a, p)
      /\ InOrder(v) /\ InOrder(b) /\ Precedes(v, b) => InOrder(a)
  BY <1>1, TwoJoined
<1>6. a \in Seq(S)
  BY <1>1
<1> HIDE DEF a
<1>7. /\ \A p \in Nat : Has(w, p) <=> Has(a, p) \/ Has(x, p)
      /\ \A p \in Nat : Adjoin(a, p) \/ Adjoin(x, p) => Adjoin(w, p)
      /\ InOrder(a) /\ InOrder(x) /\ Precedes(a, x) => InOrder(w)
  BY <1>6, TwoJoined
<1>8. w \in Seq(S)
  BY <1>6
<1> HIDE DEF w
<1>9. \A p \in Nat \ {0} : Has(w, p) <=> Has(v, p) \/ Has(x, p)
  BY <1>3, <1>5, <1>7
<1>10. \A p \in Nat : Adjoin(v, p) \/ Adjoin(x, p) => Adjoin(w, p)
  BY <1>5, <1>7
<1>11. InOrder(v) /\ InOrder(x) /\ Precedes(v, x) => InOrder(w)
  <2>1. Precedes(v, x) => Precedes(a, x)
    BY <1>3, <1>5 DEF Precedes
  <2> QED BY <1>3, <1>5, <1>7, <2>1
<1>12. CASE x = <<>>
  <2>1. AddPage(v, x) = v
    BY <1>12 DEF AddPage
  <2> QED BY <1>4, <1>12, <2>1
<1>13. CASE x # <<>> /\ v = <<>>
  <2>1. AddPage(v, x) = x
    BY <1>13 DEF AddPage
  <2> QED BY <1>4, <1>13, <2>1
<1>14. CASE x # <<>> /\ v # <<>>
  <2>1. AddPage(v, x) = w
    BY <1>14 DEF AddPage, w, a, b
  <2> QED BY <1>8, <1>9, <1>10, <1>11, <2>1
<1> QED BY <1>12, <1>13, <1>14

LEMMA AllJoined ==
  ASSUME NEW S, \A x \in S : x.place \in Nat, Blank \in S, NEW left \in Seq(Seq(S))
  PROVE  LET w == JoinPages(left) IN
         /\ w \in Seq(S)
         /\ \A p \in Nat \ {0} : Has(w, p) <=> \E k \in 1..Len(left) : Has(left[k], p)
         /\ \A p \in Nat, k \in 1..Len(left) : Adjoin(left[k], p) => Adjoin(w, p)
         /\ (/\ \A k \in 1..Len(left) : InOrder(left[k])
             /\ \A k, l \in 1..Len(left) : k < l => Precedes(left[k], left[l])) => InOrder(w)
<1> DEFINE n == Len(left)
           V == Seq(S)
           Neat == /\ \A k \in 1..n : InOrder(left[k])
                   /\ \A k, l \in 1..n : k < l => Precedes(left[k], left[l])
<1>1. n \in Nat /\ \A k \in 1..n : left[k] \in V
  OBVIOUS
<1>2. <<>> \in V /\ \A v \in V, x \in V : AddPage(v, x) \in V
  BY PageJoined
<1>3. PICK h \in [0..n -> V] :
        Goes(h, n, <<>>, JoinPages(left)) /\ \A i \in 1..n : h[i] = AddPage(h[i - 1], left[i])
  <2> HIDE DEF V
  <2>1. left \in Seq(V)
    BY DEF V
  <2> QED BY <1>2, <2>1, JoinPath
<1>4. h[0] = <<>> /\ h[n] = JoinPages(left)
  BY <1>3 DEF Goes
<1> HIDE DEF n, V, Neat
<1> DEFINE Sound(i) ==
             /\ \A p \in Nat \ {0} : Has(h[i], p) <=> \E k \in 1..i : Has(left[k], p)
             /\ \A p \in Nat, k \in 1..i : Adjoin(left[k], p) => Adjoin(h[i], p)
             /\ Neat => InOrder(h[i])
           P == {i \in 0..n : Sound(i)}
<1>5. Sound(0)
  <2>1. (\A p \in Nat : ~Has(<<>>, p)) /\ InOrder(<<>>)
    BY DEF Has, InOrder
  <2> QED BY <1>4, <2>1
<1>6. ASSUME NEW i \in 1..n, Sound(i - 1) PROVE Sound(i)
  <2> DEFINE v == h[i - 1]
             x == left[i]
             w == AddPage(v, x)
  <2>1. i - 1 \in 0..n /\ i \in 1..i /\ \A k \in 1..i : k = i \/ (k \in 1..(i - 1) /\ k < i)
    BY <1>1
  <2>2. h[i] = w /\ v \in Seq(S) /\ x \in Seq(S)
    BY <1>1, <1>3, <2>1 DEF V
  <2>3. /\ \A p \in Nat \ {0} : Has(v, p) <=> \E k \in 1..(i - 1) : Has(left[k], p)
        /\ \A p \in Nat, k \in 1..(i - 1) : Adjoin(left[k], p) => Adjoin(v, p)
        /\ Neat => InOrder(v)
    BY <1>6
  <2> HIDE DEF v
  <2>4. /\ \A p \in Nat \ {0} : Has(w, p) <=> Has(v, p) \/ Has(x, p)
        /\ \A p \in Nat : Adjoin(v, p) \/ Adjoin(x, p) => Adjoin(w, p)
        /\ InOrder(v) /\ InOrder(x) /\ Precedes(v, x) => InOrder(w)
    <3> HIDE DEF x
    <3> QED BY <2>2, PageJoined
  <2> HIDE DEF w
  <2>5. \A k \in 1..(i - 1) : k \in 1..i /\ k \in 1..n /\ k < i
    BY <1>1
  <2>6. \A p \in Nat \ {0} : Has(w, p) <=> \E k \in 1..i : Has(left[k], p)
    BY <2>1, <2>3, <2>4, <2>5
  <2>7. \A p \in Nat, k \in 1..i : Adjoin(left[k], p) => Adjoin(w, p)
    BY <2>1, <2>3, <2>4
  <2>8. Neat => InOrder(w)
    <3> SUFFICES ASSUME Neat PROVE InOrder(w)
      OBVIOUS
    <3>1. InOrder(x)
      BY DEF Neat
    <3>2. \A k \in 1..(i - 1) : Precedes(left[k], x)
      BY <2>5 DEF Neat
    <3>3. Precedes(v, x)
      <4> SUFFICES ASSUME NEW p \in Nat \ {0}, NEW q \in Nat \ {0}, Has(v, p), Has(x, q)
                   PROVE  p < q
        BY DEF Precedes
      <4>1. PICK k \in 1..(i - 1) : Has(left[k], p)
        BY <2>3
      <4> HIDE DEF x
      <4> QED BY <3>2, <4>1 DEF Precedes
    <3> QED BY <2>3, <2>4, <3>1, <3>3
  <2> QED BY <2>2, <2>6, <2>7, <2>8
<1> HIDE DEF Sound
<1>7. 0 \in P
  BY <1>1, <1>5
<1>8. ASSUME NEW i \in 1..n, i - 1 \in P PROVE i \in P
  <2>1. i \in 0..n
    BY <1>1
  <2> QED BY <1>6, <1>8, <2>1
<1> HIDE DEF P
<1>9. n \in P
  BY <1>1, <1>7, <1>8, Along
<1>10. Sound(n)
  BY <1>9 DEF P
<1>11. h[n] \in Seq(S)
  BY <1>1, <1>3 DEF V
<1> QED BY <1>4, <1>10, <1>11 DEF Sound, Neat, n

-----------------------------------------------------------------------------
(* The body of a text.                                                     *)

\* Every line is at its place.
Numbered(s) == \A i \in 1..Len(s) : s[i].place = i

LEMMA NumberedIsPlaced ==
  ASSUME NEW L, NEW s \in Seq(L), Numbered(s)
  PROVE  LET S == {s[i] : i \in 1..Len(s)} \cup {Blank} IN
         Placed(S) /\ s \in Seq(S) /\ InOrder(s)
<1> DEFINE n == Len(s)
           S == {s[i] : i \in 1..n} \cup {Blank}
<1>1. n \in Nat /\ \A i \in 1..n : s[i].place = i /\ i \in Nat /\ i > 0
  BY DEF Numbered
<1>2. Blank.place = 0 /\ IsBlank(Blank)
  BY DEF Blank, Line, IsBlank
<1>3. s \in Seq(S)
  <2>1. DOMAIN s = 1..n /\ s = [i \in 1..n |-> s[i]]
    OBVIOUS
  <2>2. \A i \in 1..n : s[i] \in S
    OBVIOUS
  <2> HIDE DEF S
  <2> QED BY <1>1, <2>1, <2>2
<1>4. \A x \in S : x = Blank \/ \E i \in 1..n : x = s[i]
  OBVIOUS
<1> HIDE DEF S, n
<1>5. \A x \in S : x.place \in Nat
  BY <1>1, <1>2, <1>4
<1>6. ASSUME NEW x \in S, NEW y \in S, x.place = y.place PROVE x = y
  BY <1>1, <1>2, <1>4, <1>6
<1>7. \A x \in S : ~IsBlank(x) => x.place > 0
  BY <1>1, <1>2, <1>4
<1>8. Placed(S)
  BY <1>5, <1>6, <1>7 DEF Placed
<1>9. InOrder(s)
  BY <1>1 DEF InOrder, n
<1> QED BY <1>3, <1>8, <1>9 DEF S, n

\* Pages in their order, a line of its own between two.
Apart(pages) ==
  /\ \A k \in 1..Len(pages) : InOrder(pages[k])
  /\ \A k, l \in 1..Len(pages) : k < l => Precedes(pages[k], pages[l])
  /\ \A k, l \in 1..Len(pages) : \A p \in Nat \ {0} :
       Has(pages[k], p) /\ Has(pages[l], p + 1) => k = l /\ Adjoin(pages[k], p)

LEMMA PagesApart ==
  ASSUME NEW L, NEW s \in Seq(L), Numbered(s)
  PROVE  /\ Apart(Pages(s))
         /\ \A p \in 1..Len(s) : s[p].says # "page" =>
              \E k \in 1..Len(Pages(s)) : Has(Pages(s)[k], p)
<1> DEFINE pages == Pages(s)
           m == Len(s)
           N == Len(pages)
<1>1. PICK off : Lies(off, pages, s, m)
  BY PagesLie
<1>2. pages \in Seq(Seq(Unpaged(L))) /\ N >= 1
  <2>1. pages \in Paged(L)
    BY PagesAreTexts
  <2> HIDE DEF pages
  <2>2. pages \in Seq(Seq(Unpaged(L))) /\ pages # <<>>
    BY <2>1 DEF Paged
  <2> QED BY <2>2 DEF N
<1>3. N \in Nat /\ \A k \in 1..N : pages[k] \in Seq(Unpaged(L)) /\ Len(pages[k]) \in Nat
  <2> HIDE DEF pages
  <2> QED BY <1>2
<1> HIDE DEF pages
<1>4. /\ off \in [1..N -> Nat]
      /\ \A k, l \in 1..N : k < l => off[k] + Len(pages[k]) < off[l]
      /\ off[N] + Len(pages[N]) = m
      /\ \A k \in 1..N : \A i \in 1..Len(pages[k]) : pages[k][i] = s[off[k] + i]
      /\ \A p \in 1..m : s[p].says # "page" =>
           \E k \in 1..N : off[k] < p /\ p <= off[k] + Len(pages[k])
  BY <1>1 DEF Lies
<1>5. m \in Nat /\ \A i \in 1..m : s[i].place = i
  BY DEF Numbered
<1> HIDE DEF N, m
<1>6. ASSUME NEW k \in 1..N PROVE off[k] + Len(pages[k]) <= m
  <2>1. N \in 1..N
    BY <1>2, <1>3
  <2>2. off[k] \in Nat /\ off[N] \in Nat /\ Len(pages[k]) \in Nat /\ Len(pages[N]) \in Nat
    BY <1>3, <1>4, <2>1
  <2>3. CASE k = N
    BY <1>4, <2>3
  <2>4. CASE k < N
    <3>1. off[k] + Len(pages[k]) < off[N] /\ off[N] + Len(pages[N]) = m
      BY <1>4, <2>1, <2>4
    <3> QED BY <2>2, <3>1
  <2> QED BY <1>3, <2>3, <2>4
<1>7. ASSUME NEW k \in 1..N, NEW i \in 1..Len(pages[k])
      PROVE  off[k] + i \in 1..m /\ pages[k][i].place = off[k] + i
  <2>1. off[k] \in Nat /\ Len(pages[k]) \in Nat /\ off[k] + Len(pages[k]) <= m
    BY <1>3, <1>4, <1>6
  <2>2. off[k] + i \in 1..m
    BY <1>5, <2>1
  <2>3. pages[k][i] = s[off[k] + i]
    BY <1>4
  <2> QED BY <1>5, <2>2, <2>3
<1>8. ASSUME NEW k \in 1..N, NEW p \in Nat
      PROVE  Has(pages[k], p) <=> off[k] < p /\ p <= off[k] + Len(pages[k])
  <2>1. off[k] \in Nat /\ Len(pages[k]) \in Nat
    BY <1>3, <1>4
  <2>2. ASSUME NEW i \in 1..Len(pages[k]), pages[k][i].place = p
        PROVE  off[k] < p /\ p <= off[k] + Len(pages[k])
    <3>1. p = off[k] + i
      BY <1>7, <2>2
    <3> QED BY <2>1, <3>1
  <2>3. ASSUME off[k] < p, p <= off[k] + Len(pages[k]) PROVE Has(pages[k], p)
    <3> DEFINE i == p - off[k]
    <3>1. i \in 1..Len(pages[k]) /\ off[k] + i = p
      BY <2>1, <2>3
    <3> HIDE DEF i
    <3>2. pages[k][i].place = p
      BY <1>7, <3>1
    <3> QED BY <3>1, <3>2 DEF Has
  <2> QED BY <2>2, <2>3 DEF Has
<1>9. ASSUME NEW k \in 1..N PROVE InOrder(pages[k])
  <2>1. off[k] \in Nat /\ Len(pages[k]) \in Nat
    BY <1>3, <1>4
  <2>2. \A i \in 1..Len(pages[k]) : pages[k][i].place = off[k] + i
    BY <1>7
  <2> QED BY <2>1, <2>2 DEF InOrder
<1>10. ASSUME NEW k \in 1..N, NEW l \in 1..N, k < l PROVE Precedes(pages[k], pages[l])
  <2> SUFFICES ASSUME NEW p \in Nat \ {0}, NEW q \in Nat \ {0}, Has(pages[k], p), Has(pages[l], q)
               PROVE  p < q
    BY DEF Precedes
  <2>1. p <= off[k] + Len(pages[k]) /\ off[l] < q
    BY <1>8
  <2>2. off[k] + Len(pages[k]) < off[l] /\ off[k] \in Nat /\ off[l] \in Nat /\ Len(pages[k]) \in Nat
    BY <1>3, <1>4, <1>10
  <2> QED BY <2>1, <2>2
<1>11. ASSUME NEW k \in 1..N, NEW l \in 1..N, NEW p \in Nat \ {0},
              Has(pages[k], p), Has(pages[l], p + 1)
       PROVE  k = l /\ Adjoin(pages[k], p)
  <2>1. /\ off[k] \in Nat /\ off[l] \in Nat /\ Len(pages[k]) \in Nat /\ Len(pages[l]) \in Nat
        /\ p \in Nat /\ p + 1 \in Nat
    BY <1>3, <1>4
  <2>2. off[k] < p /\ p <= off[k] + Len(pages[k])
    BY <1>8, <1>11
  <2>3. off[l] < p + 1 /\ p + 1 <= off[l] + Len(pages[l])
    BY <1>8, <1>11, <2>1
  <2>4. CASE k < l
    <3>1. off[k] + Len(pages[k]) < off[l]
      BY <1>4, <2>4
    <3> QED BY <2>1, <2>2, <2>3, <3>1
  <2>5. CASE l < k
    <3>1. off[l] + Len(pages[l]) < off[k]
      BY <1>4, <2>5
    <3> QED BY <2>1, <2>2, <2>3, <3>1
  <2>6. CASE k = l
    <3> DEFINE i == p - off[k]
    <3> DEFINE o == off[k]
               z == Len(pages[k])
    <3>5. o \in Nat /\ z \in Nat /\ o < p /\ p + 1 <= o + z /\ i = p - o
      BY <2>1, <2>2, <2>3, <2>6
    <3> HIDE DEF i, o, z
    <3>6. i \in 1..z /\ i + 1 \in 1..z /\ o + i = p /\ o + (i + 1) = p + 1 /\ i + 1 <= z
      BY <3>5
    <3>1. i \in 1..Len(pages[k]) /\ i + 1 \in 1..Len(pages[k]) /\ off[k] + i = p
          /\ off[k] + (i + 1) = p + 1 /\ i + 1 <= Len(pages[k])
      BY <3>6 DEF o, z
    <3>2. pages[k][i].place = p
      BY <1>7, <3>1
    <3> DEFINE j == i + 1
    <3>3. j \in 1..Len(pages[k]) /\ off[k] + j = p + 1
      BY <3>1
    <3> HIDE DEF j
    <3>4. pages[k][j].place = p + 1
      BY <1>7, <3>3
    <3> QED BY <2>6, <3>1, <3>2, <3>4 DEF Adjoin, j
  <2> QED BY <1>3, <2>4, <2>5, <2>6
<1>12. Apart(pages)
  BY <1>9, <1>10, <1>11 DEF Apart, N
<1>13. \A p \in 1..m : s[p].says # "page" => \E k \in 1..N : Has(pages[k], p)
  BY <1>4, <1>5, <1>8
<1> QED BY <1>12, <1>13 DEF pages, N, m

\* What is left of a page.
LEMMA PageLeft ==
  ASSUME NEW S, Placed(S), NEW x \in Seq(S), InOrder(x), NEW pages
  PROVE  LET t == StripBlank(WithoutMargins(x, pages)) IN
         /\ t \in Seq(S) /\ InOrder(t)
         /\ \A p \in Nat : Has(t, p) => Has(x, p)
         /\ \A i \in 1..Len(x) : ~IsBlank(x[i]) => Has(t, x[i].place) \/ Marginal(i, x, pages)
         /\ \A p \in Nat \ {0} : \A y \in S :
              Adjoin(x, p) /\ y.place = p + 1 /\ IsBlank(y)
              /\ Has(t, p) /\ Has(t, p + 2) => Adjoin(t, p)
<1> DEFINE v == WithoutMargins(x, pages)
           t == StripBlank(v)
<1>1. \A y \in S : y.place \in Nat
  BY DEF Placed
<1>2. /\ v \in Seq(S) /\ InOrder(v)
      /\ \A p \in Nat : Has(v, p) => Has(x, p)
      /\ \A p \in Nat \ {0} : Adjoin(x, p) /\ Has(v, p) /\ Has(v, p + 1) => Adjoin(v, p)
      /\ \A i \in 1..Len(x) : x[i].place > 0 => Has(v, x[i].place) \/ Marginal(i, x, pages)
  BY MarginsGo
<1> HIDE DEF v
<1>3. PICK o : Strips(t, v, o)
  BY <1>2, Stripped
<1>4. t \in Seq(S)
  BY <1>2, Stripped
<1> HIDE DEF t
<1>5. /\ InOrder(t)
      /\ \A p \in Nat : Has(t, p) => Has(v, p)
      /\ \A p \in Nat \ {0} : Adjoin(v, p) /\ Has(t, p) /\ Has(t, p + 1) => Adjoin(t, p)
  <2>1. Drops(t, v)
    BY <1>3, StripDrops
  <2> QED BY <1>1, <1>2, <1>4, <2>1, DropKeepsOrder
<1>6. /\ \A i \in 1..Len(v) : ~IsBlank(v[i]) => Has(t, v[i].place)
      /\ \A p, q, r \in Nat \ {0} :
           Has(t, p) /\ Has(t, q) /\ Has(v, r) /\ p < r /\ r < q => Has(t, r)
  BY <1>1, <1>2, <1>3, <1>4, StripKeeps
<1>7. ASSUME NEW i \in 1..Len(x), ~IsBlank(x[i]), ~Marginal(i, x, pages)
      PROVE  Has(t, x[i].place)
  <2>1. x[i] \in S /\ x[i].place > 0
    BY <1>7 DEF Placed
  <2>2. Has(v, x[i].place)
    BY <1>2, <1>7, <2>1
  <2>3. PICK j \in 1..Len(v) : v[j].place = x[i].place
    BY <2>2 DEF Has
  <2>4. v[j] = x[i]
    <3>1. v[j] \in S
      BY <1>2
    <3> QED BY <2>1, <2>3, <3>1 DEF Placed
  <2> QED BY <1>6, <1>7, <2>4
<1>8. ASSUME NEW p \in Nat \ {0}, NEW y \in S, Adjoin(x, p), y.place = p + 1, IsBlank(y),
             Has(t, p), Has(t, p + 2)
      PROVE  Adjoin(t, p)
  <2>1. p \in Nat /\ p + 1 \in Nat \ {0} /\ p + 2 \in Nat \ {0} /\ p < p + 1 /\ p + 1 < p + 2
    OBVIOUS
  <2>2. Has(v, p + 1)
    <3>1. PICK i \in 1..Len(x) : i + 1 <= Len(x) /\ x[i + 1].place = p + 1
      BY <1>8 DEF Adjoin
    <3> DEFINE j == i + 1
    <3>2. j \in 1..Len(x) /\ x[j].place = p + 1
      BY <3>1
    <3> HIDE DEF j
    <3>3. x[j] = y
      <4>1. x[j] \in S
        BY <3>2
      <4> QED BY <1>8, <3>2, <4>1 DEF Placed
    <3>4. j \notin Content(x)
      BY <1>8, <3>3 DEF Content
    <3>5. x[j].place > 0
      BY <2>1, <3>2
    <3>6. Has(v, x[j].place)
      BY <1>2, <3>2, <3>4, <3>5 DEF Marginal
    <3> QED BY <3>2, <3>6
  <2>3. Has(v, p)
    BY <1>5, <1>8, <2>1
  <2>4. Adjoin(v, p)
    BY <1>2, <1>8, <2>2, <2>3
  <2>5. Has(t, p + 1)
    <3> DEFINE r == p + 1
               q == p + 2
    <3>1. r \in Nat \ {0} /\ q \in Nat \ {0} /\ p < r /\ r < q /\ Has(v, r) /\ Has(t, q)
      BY <1>8, <2>1, <2>2
    <3> HIDE DEF r, q
    <3>2. Has(t, r)
      BY <1>6, <1>8, <3>1
    <3> QED BY <3>2 DEF r
  <2> QED BY <1>5, <1>8, <2>4, <2>5
<1>9. \A p \in Nat : Has(t, p) => Has(x, p)
  BY <1>2, <1>5
<1> QED BY <1>4, <1>5, <1>7, <1>8, <1>9 DEF t, v

\* Removing margins keeps what clean promises.
LEMMA MarginsOff ==
  ASSUME NEW S, Placed(S), Blank \in S, NEW s \in Seq(S), Numbered(s)
  PROVE  LET t == RemoveRepeatedPageMargins(s)
             pages == Pages(s) IN
         /\ t \in Seq(S) /\ InOrder(t)
         /\ \A k \in 1..Len(pages) : \A i \in 1..Len(pages[k]) :
              ~IsBlank(pages[k][i]) =>
                Has(t, pages[k][i].place) \/ Marginal(i, pages[k], pages)
         /\ \A p \in Nat \ {0} :
              p + 2 <= Len(s) /\ s[p].says # "page" /\ s[p + 2].says # "page"
              /\ IsBlank(s[p + 1]) /\ Has(t, p) /\ Has(t, p + 2) => Adjoin(t, p)
<1> DEFINE t == RemoveRepeatedPageMargins(s)
           pages == Pages(s)
           n == Len(pages)
           m == Len(s)
<1>1. m \in Nat /\ \A i \in 1..m : s[i].place = i /\ s[i] \in S
  BY DEF Numbered
<1>2. pages \in Seq(Seq(S)) /\ n >= 1 /\ n \in Nat
  <2>1. pages \in Paged(S)
    BY PagesAreTexts
  <2> HIDE DEF pages
  <2>2. pages \in Seq(Seq(Unpaged(S))) /\ pages # <<>>
    BY <2>1 DEF Paged
  <2>3. \A v \in Seq(Unpaged(S)) : v \in Seq(S)
    BY DEF Unpaged
  <2>4. pages \in Seq(Seq(S))
    <3> DEFINE U == Seq(Unpaged(S))
               V == Seq(S)
    <3>1. \A v \in U : v \in V
      BY <2>3
    <3>2. pages \in Seq(U)
      BY <2>2
    <3> HIDE DEF U, V
    <3>3. pages \in Seq(V)
      BY <3>1, <3>2
    <3> QED BY <3>3 DEF V
  <2> QED BY <2>2, <2>4
<1>3. /\ Apart(pages)
      /\ \A p \in 1..m : s[p].says # "page" => \E k \in 1..n : Has(pages[k], p)
  BY PagesApart
<1>4. CASE n < 2
  <2>1. t = s
    BY <1>4 DEF RemoveRepeatedPageMargins
  <2>2. \A i \in DOMAIN s : s[i].says # "page"
    BY <1>4, OnePageOnly
  <2>3. pages = <<s>>
    BY <2>2, OnePage
  <2>4. InOrder(s)
    BY <1>1 DEF InOrder
  <2>5. ASSUME NEW k \in 1..n, NEW i \in 1..Len(pages[k])
        PROVE  Has(s, pages[k][i].place)
    <3>1. n = 1 /\ pages[1] = s
      BY <2>3
    <3>2. pages[k] = s
      BY <3>1
    <3> QED BY <3>2 DEF Has
  <2>6. ASSUME NEW p \in Nat \ {0}, p + 2 <= m PROVE Adjoin(s, p)
    <3>1. p \in 1..m /\ p + 1 \in 1..m /\ p + 1 <= m
      BY <1>1, <2>6
    <3>2. s[p].place = p /\ s[p + 1].place = p + 1
      BY <1>1, <3>1
    <3> QED BY <3>1, <3>2 DEF Adjoin
  <2> HIDE DEF t, pages, n, m
  <2>7. \A k \in 1..n : \A i \in 1..Len(pages[k]) : Has(t, pages[k][i].place)
    BY <2>1, <2>5
  <2>8. \A p \in Nat \ {0} : p + 2 <= m => Adjoin(t, p)
    BY <2>1, <2>6
  <2>9. t \in Seq(S) /\ InOrder(t)
    BY <2>1, <2>4
  <2> QED BY <2>7, <2>8, <2>9 DEF t, pages, n, m
<1>5. CASE n >= 2
  <2> DEFINE left == [k \in DOMAIN pages |-> StripBlank(WithoutMargins(pages[k], pages))]
  <2>1. t = JoinPages(left)
    BY <1>2, <1>5 DEF RemoveRepeatedPageMargins
  <2> HIDE DEF t, pages
  <2>2. DOMAIN pages = 1..n /\ \A k \in 1..n : pages[k] \in Seq(S)
    BY <1>2
  <2>3. \A k \in 1..n : left[k] = StripBlank(WithoutMargins(pages[k], pages))
    BY <2>2
  <2>4. \A k \in 1..n : InOrder(pages[k])
    BY <1>3 DEF Apart
  <2>5. \A k \in 1..n :
          /\ left[k] \in Seq(S) /\ InOrder(left[k])
          /\ \A p \in Nat : Has(left[k], p) => Has(pages[k], p)
          /\ \A i \in 1..Len(pages[k]) : ~IsBlank(pages[k][i]) =>
               Has(left[k], pages[k][i].place) \/ Marginal(i, pages[k], pages)
          /\ \A p \in Nat \ {0} : \A y \in S :
               Adjoin(pages[k], p) /\ y.place = p + 1 /\ IsBlank(y)
               /\ Has(left[k], p) /\ Has(left[k], p + 2) => Adjoin(left[k], p)
    <3> SUFFICES ASSUME NEW k \in 1..n
                 PROVE  /\ left[k] \in Seq(S) /\ InOrder(left[k])
                        /\ \A p \in Nat : Has(left[k], p) => Has(pages[k], p)
                        /\ \A i \in 1..Len(pages[k]) : ~IsBlank(pages[k][i]) =>
                             Has(left[k], pages[k][i].place) \/ Marginal(i, pages[k], pages)
                        /\ \A p \in Nat \ {0} : \A y \in S :
                             Adjoin(pages[k], p) /\ y.place = p + 1 /\ IsBlank(y)
                             /\ Has(left[k], p) /\ Has(left[k], p + 2) => Adjoin(left[k], p)
      BY Zenon
    <3> DEFINE x == pages[k]
               l == left[k]
    <3>1. x \in Seq(S) /\ InOrder(x) /\ l = StripBlank(WithoutMargins(x, pages))
      BY <2>2, <2>3, <2>4
    <3> HIDE DEF x, l
    <3>2. /\ l \in Seq(S) /\ InOrder(l)
          /\ \A p \in Nat : Has(l, p) => Has(x, p)
          /\ \A i \in 1..Len(x) : ~IsBlank(x[i]) => Has(l, x[i].place) \/ Marginal(i, x, pages)
          /\ \A p \in Nat \ {0} : \A y \in S :
               Adjoin(x, p) /\ y.place = p + 1 /\ IsBlank(y)
               /\ Has(l, p) /\ Has(l, p + 2) => Adjoin(l, p)
      BY <3>1, PageLeft, Zenon
    <3> QED BY <3>2, Zenon DEF x, l
  <2>6. left \in Seq(Seq(S)) /\ Len(left) = n
    <3> DEFINE V == Seq(S)
    <3>1. left = [k \in 1..n |-> left[k]]
      BY <2>2
    <3>2. \A k \in 1..n : left[k] \in V
      BY <2>5
    <3> HIDE DEF V, left
    <3>3. left \in Seq(V) /\ Len(left) = n
      BY <1>2, <3>1, <3>2
    <3> QED BY <3>3 DEF V
  <2> HIDE DEF left
  <2>7. \A y \in S : y.place \in Nat
    BY DEF Placed
  <2>8. \A k, l \in 1..n : k < l => Precedes(left[k], left[l])
    <3> SUFFICES ASSUME NEW k \in 1..n, NEW l \in 1..n, k < l,
                        NEW p \in Nat \ {0}, NEW q \in Nat \ {0}, Has(left[k], p), Has(left[l], q)
                 PROVE  p < q
      BY DEF Precedes
    <3>1. Has(pages[k], p) /\ Has(pages[l], q)
      BY <2>5
    <3>2. Precedes(pages[k], pages[l])
      BY <1>3 DEF Apart
    <3> QED BY <3>1, <3>2 DEF Precedes
  <2>9. /\ t \in Seq(S)
        /\ \A p \in Nat \ {0} : Has(t, p) <=> \E k \in 1..n : Has(left[k], p)
        /\ \A p \in Nat, k \in 1..n : Adjoin(left[k], p) => Adjoin(t, p)
        /\ InOrder(t)
    BY <2>1, <2>5, <2>6, <2>7, <2>8, AllJoined
  <2>10. ASSUME NEW k \in 1..n, NEW i \in 1..Len(pages[k]), ~IsBlank(pages[k][i]),
                ~Marginal(i, pages[k], pages)
         PROVE  Has(t, pages[k][i].place)
    <3>1. pages[k][i] \in S
      BY <2>2
    <3>2. pages[k][i].place \in Nat \ {0}
      BY <2>7, <2>10, <3>1 DEF Placed
    <3>3. Has(left[k], pages[k][i].place)
      BY <2>5, <2>10
    <3> QED BY <2>9, <3>2, <3>3
  <2>11. ASSUME NEW p \in Nat \ {0}, p + 2 <= m, s[p].says # "page", s[p + 2].says # "page",
                IsBlank(s[p + 1]), Has(t, p), Has(t, p + 2)
         PROVE  Adjoin(t, p)
    <3>1. /\ p \in 1..m /\ p + 1 \in 1..m /\ p + 2 \in 1..m
          /\ p \in Nat /\ p + 1 \in Nat \ {0} /\ p + 2 \in Nat \ {0} /\ p + 2 = (p + 1) + 1
      BY <1>1, <2>11
    <3>2. s[p + 1] \in S /\ s[p + 1].place = p + 1 /\ s[p + 1].says # "page"
      BY <1>1, <2>11, <3>1 DEF IsBlank
    <3>3. PICK k \in 1..n : Has(left[k], p)
      BY <2>9, <2>11
    <3>4. PICK l \in 1..n : Has(left[l], p + 2)
      BY <2>9, <2>11, <3>1
    <3>5. PICK j \in 1..n : Has(pages[j], p + 1)
      BY <1>3, <3>1, <3>2
    <3>6. Has(pages[k], p) /\ Has(pages[l], p + 2)
      BY <2>5, <3>1, <3>3, <3>4
    <3>7. k = j /\ Adjoin(pages[k], p)
      BY <1>3, <3>5, <3>6 DEF Apart
    <3>8. j = l
      BY <1>3, <3>1, <3>5, <3>6 DEF Apart
    <3>9. Has(left[k], p + 2)
      BY <3>4, <3>7, <3>8
    <3>10. Adjoin(left[k], p)
      BY <2>5, <2>11, <3>2, <3>3, <3>7, <3>9
    <3> QED BY <2>9, <3>1, <3>10
  <2> QED BY <2>9, <2>10, <2>11 DEF t, pages, n, m
<1>6. n < 2 \/ n >= 2
  <2> HIDE DEF n
  <2> QED BY <1>2
<1> QED BY <1>4, <1>5, <1>6, Zenon

\* What keeps the lines of u but those it may drop, and their order.
LEMMA LineStays ==
  ASSUME NEW S, Placed(S), NEW t \in Seq(S), NEW x \in S, Has(t, x.place)
  PROVE  \E i \in 1..Len(t) : t[i] = x
<1>1. PICK i \in 1..Len(t) : t[i].place = x.place
  BY DEF Has
<1>2. t[i] \in S
  OBVIOUS
<1> QED BY <1>1, <1>2 DEF Placed

\* What is done to the lines after the margins keeps their order, what says something,
\* and empty lines between such lines.
LEMMA BodyTidied ==
  ASSUME NEW S, Placed(S), NEW t \in Seq(S), InOrder(t)
  PROVE  LET c == StripBlank(Collapse(WithoutPageNumbers(t))) IN
         /\ c \in Seq(S) /\ InOrder(c)
         /\ \A p \in Nat : Has(c, p) => Has(t, p)
         /\ \A x \in S : ~IsBlank(x) /\ ~IsPageNumber(x) /\ Has(t, x.place) => Has(c, x.place)
         /\ \A x, y \in S : /\ x.place > 0 /\ y.place = x.place + 1
                            /\ ~IsBlank(x) /\ IsBlank(y) /\ Adjoin(t, x.place)
                            /\ Has(c, x.place) /\ Has(c, x.place + 2)
                            => Has(c, y.place)
<1> DEFINE a == WithoutPageNumbers(t)
           b == Collapse(a)
           c == StripBlank(b)
<1>4. \A x \in S : x.place \in Nat
  BY DEF Placed
<1>7. /\ a \in Seq(S) /\ Drops(a, t)
      /\ \A j \in 1..Len(t) : ~IsPageNumber(t[j]) => Has(a, t[j].place)
  BY <1>4, BodyKept
<1> HIDE DEF a
<1>8. /\ b \in Seq(S) /\ Drops(b, a)
      /\ \A j \in 1..Len(a) : ~IsBlank(a[j]) => Has(b, a[j].place)
      /\ \A j \in 1..Len(a) : j + 1 <= Len(a) /\ ~IsBlank(a[j]) => Has(b, a[j + 1].place)
  BY <1>4, <1>7, ApartKept
<1> HIDE DEF b
<1>9. c \in Seq(S)
  BY <1>8, Stripped
<1>10. PICK o : Strips(c, b, o)
  BY <1>8, Stripped
<1> HIDE DEF c
<1>11. /\ InOrder(a) /\ \A p \in Nat : Has(a, p) => Has(t, p)
       /\ \A p \in Nat \ {0} : Adjoin(t, p) /\ Has(a, p) /\ Has(a, p + 1) => Adjoin(a, p)
  BY <1>4, <1>7, DropKeepsOrder
<1>12. InOrder(b) /\ \A p \in Nat : Has(b, p) => Has(a, p)
  BY <1>4, <1>7, <1>8, <1>11, DropKeepsOrder
<1>13. Drops(c, b)
  BY <1>10, StripDrops
<1>14. InOrder(c) /\ \A p \in Nat : Has(c, p) => Has(b, p)
  BY <1>4, <1>8, <1>9, <1>12, <1>13, DropKeepsOrder
<1>15. /\ \A i \in 1..Len(b) : ~IsBlank(b[i]) => Has(c, b[i].place)
       /\ \A p, q, r \in Nat \ {0} :
            Has(c, p) /\ Has(c, q) /\ Has(b, r) /\ p < r /\ r < q => Has(c, r)
  BY <1>4, <1>8, <1>9, <1>10, <1>12, StripKeeps
<1>16. ASSUME NEW x \in S, ~IsBlank(x), ~IsPageNumber(x), Has(t, x.place)
       PROVE  Has(c, x.place)
  <2>1. PICK i \in 1..Len(t) : t[i] = x
    BY <1>16, LineStays
  <2>2. Has(a, x.place)
    BY <1>7, <1>16, <2>1
  <2>3. PICK j \in 1..Len(a) : a[j] = x
    BY <1>7, <2>2, LineStays
  <2>4. Has(b, x.place)
    BY <1>8, <1>16, <2>3
  <2>5. PICK k \in 1..Len(b) : b[k] = x
    BY <1>8, <2>4, LineStays
  <2> QED BY <1>15, <1>16, <2>5
<1>17. ASSUME NEW x \in S, NEW y \in S, x.place > 0, y.place = x.place + 1,
              ~IsBlank(x), IsBlank(y), Adjoin(t, x.place), Has(c, x.place), Has(c, x.place + 2)
       PROVE  Has(c, y.place)
  <2> DEFINE p == x.place
             r == y.place
             q == x.place + 2
  <2>1. p \in Nat \ {0} /\ r \in Nat \ {0} /\ q \in Nat \ {0} /\ p < r /\ r < q /\ r = p + 1
    BY <1>4, <1>17
  <2>2. Adjoin(t, p) /\ Has(c, p) /\ Has(c, q)
    BY <1>17
  <2> HIDE DEF p, q, r
  <2>3. Has(a, p)
    BY <1>12, <1>14, <2>1, <2>2
  <2>4. Has(t, r)
    <3>1. PICK j \in 1..Len(t) : j + 1 <= Len(t) /\ t[j + 1].place = r
      BY <2>1, <2>2 DEF Adjoin
    <3>2. j + 1 \in 1..Len(t)
      BY <3>1
    <3> QED BY <3>1, <3>2 DEF Has
  <2>5. Has(a, r)
    <3>1. PICK j \in 1..Len(t) : t[j] = y
      BY <1>17, <2>4, LineStays DEF r
    <3>2. ~IsPageNumber(y)
      BY <1>17 DEF IsBlank, IsPageNumber
    <3> QED BY <1>7, <3>1, <3>2 DEF r
  <2>6. Adjoin(a, p)
    BY <1>11, <2>1, <2>2, <2>3, <2>5
  <2>7. Has(b, r)
    <3>1. PICK j \in 1..Len(a) : j + 1 <= Len(a) /\ a[j].place = p /\ a[j + 1].place = r
      BY <2>1, <2>6 DEF Adjoin
    <3>2. a[j] = x
      <4>1. a[j] \in S
        BY <1>7
      <4> QED BY <1>17, <3>1, <4>1 DEF Placed, p
    <3> QED BY <1>8, <1>17, <3>1, <3>2
  <2>8. Has(c, r)
    BY <1>15, <2>1, <2>2, <2>7
  <2> QED BY <2>8 DEF r
<1>18. \A p \in Nat : Has(c, p) => Has(t, p)
  BY <1>11, <1>12, <1>14
<1> QED BY <1>9, <1>14, <1>16, <1>17, <1>18 DEF a, b, c

\* A line without its invisible characters.
ShownLine(x) == IF x.says \in Sayings THEN [x EXCEPT !.says = Visible[@]] ELSE x

LEMMA LineShown ==
  ASSUME NEW T, NEW x \in Saying(T)
  PROVE  /\ ShownLine(x).place = x.place
         /\ IsBlank(x) => IsBlank(ShownLine(x))
         /\ x.says = "page" => ShownLine(x).says = "page"
<1>1. x.says \in Sayings => x.says # "empty" /\ x.says # "page"
  BY CharactersAssumption
<1> QED BY <1>1 DEF ShownLine, Saying, IsBlank

\* Every line without them: what is where stays.
LEMMA LinesShown ==
  ASSUME NEW T, NEW S \in SUBSET Saying(T), NEW t \in Seq(S)
  PROVE  LET v == WithoutInvisible(t)
             W == {ShownLine(x) : x \in S} IN
         /\ v \in Seq(W) /\ Len(v) = Len(t)
         /\ \A i \in 1..Len(t) : v[i] = ShownLine(t[i]) /\ v[i].place = t[i].place
<1> DEFINE v == WithoutInvisible(t)
           W == {ShownLine(x) : x \in S}
           n == Len(t)
<1>1. n \in Nat /\ DOMAIN t = 1..n /\ \A i \in 1..n : t[i] \in S
  BY OfASequence
<1>2. v = [i \in 1..n |-> ShownLine(t[i])]
  BY <1>1 DEF WithoutInvisible, Rewritten, ShownLine
<1> HIDE DEF v, n
<1>3. \A i \in 1..n : v[i] = ShownLine(t[i]) /\ v[i] \in W
  BY <1>1, <1>2
<1> HIDE DEF W
<1>4. v = [i \in 1..n |-> v[i]]
  BY <1>2
<1>5. v \in Seq(W) /\ Len(v) = n
  BY <1>1, <1>3, <1>4, ASequence
<1>6. \A i \in 1..n : v[i].place = t[i].place
  <2> SUFFICES ASSUME NEW i \in 1..n PROVE v[i].place = t[i].place
    OBVIOUS
  <2>1. t[i] \in Saying(T)
    BY <1>1
  <2> QED BY <1>3, <2>1, LineShown
<1> QED BY <1>3, <1>5, <1>6 DEF v, W, n

LEMMA ShownKeepsPlaces ==
  ASSUME NEW T, NEW S \in SUBSET Saying(T), Placed(S), NEW t \in Seq(S), InOrder(t)
  PROVE  LET v == WithoutInvisible(t) IN
         /\ Placed({ShownLine(x) : x \in S})
         /\ InOrder(v)
         /\ \A p : Has(v, p) <=> Has(t, p)
         /\ \A p : Adjoin(t, p) => Adjoin(v, p)
<1> DEFINE v == WithoutInvisible(t)
           W == {ShownLine(x) : x \in S}
<1>1. Placed(W)
  <2>1. ASSUME NEW x \in S
        PROVE  /\ x.place \in Nat /\ ShownLine(x).place = x.place
               /\ ~IsBlank(ShownLine(x)) => x.place > 0
    <3>1. ShownLine(x).place = x.place /\ (IsBlank(x) => IsBlank(ShownLine(x)))
      BY LineShown
    <3> QED BY <3>1 DEF Placed
  <2>2. \A x, y \in S : x.place = y.place => x = y
    BY DEF Placed
  <2>3. \A x, y \in S : ShownLine(x).place = ShownLine(y).place => ShownLine(x) = ShownLine(y)
    BY <2>1, <2>2
  <2> QED BY <2>1, <2>3 DEF Placed
<1>2. Len(v) = Len(t) /\ \A i \in 1..Len(t) : v[i].place = t[i].place
  BY LinesShown
<1>3. Len(t) \in Nat
  BY OfASequence
<1> HIDE DEF v, W
<1>4. InOrder(v)
  BY <1>2 DEF InOrder
<1>5. \A p : Has(v, p) <=> Has(t, p)
  BY <1>2 DEF Has
<1>6. ASSUME NEW p, Adjoin(t, p) PROVE Adjoin(v, p)
  <2>1. PICK i \in 1..Len(t) : i + 1 <= Len(t) /\ t[i].place = p /\ t[i + 1].place = p + 1
    BY <1>6 DEF Adjoin
  <2>2. i + 1 \in 1..Len(t)
    BY <1>3, <2>1
  <2> QED BY <1>2, <2>1, <2>2 DEF Adjoin
<1> QED BY <1>1, <1>4, <1>5, <1>6 DEF v, W

LEMMA CleaningKeepsBody ==
  ASSUME NEW text \in Seq(Saying(LineTexts)), Numbered(text)
  PROVE  CleanKeepsBody(text)
<1> DEFINE s == Normalized(text)
           m == Len(s)
           S == {s[i] : i \in 1..m} \cup {Blank}
           W == {ShownLine(x) : x \in S}
           pages == Pages(s)
           t == RemoveRepeatedPageMargins(s)
           v == WithoutInvisible(t)
           vis == WithoutInvisible(s)
           c == StripBlank(Collapse(WithoutPageNumbers(v)))
<1>3. Clean(text) = c
  BY DEF Clean
<1>30. /\ s \in Seq(Saying(Even)) /\ m = Len(text)
       /\ \A i \in 1..m : s[i].place = i /\ (IsBlank(text[i]) => IsBlank(s[i]))
  <2> HIDE DEF s
  <2>1. \A x \in LineTexts \cap Sayings : Nfkc[x] \in OrNothing(Even)
    BY CharactersAssumption DEF Even, Normal, OrNothing
  <2>2. LineTexts \ Sayings \subseteq OrNothing(Even)
    BY DEF LineTexts, Even, OrNothing
  <2>4. s = Rewritten(text, Nfkc)
    BY DEF s, Normalized
  <2>3. /\ s \in Seq(Saying(Even)) /\ Len(s) = Len(text)
        /\ \A i \in 1..Len(text) :
             /\ s[i].place = text[i].place
             /\ s[i].says = IF text[i].says \in Sayings THEN Nfkc[text[i].says] ELSE text[i].says
    BY <2>1, <2>2, <2>4, LinesRewritten
  <2> QED BY <2>3, <2>4, CharactersAssumption DEF Numbered, IsBlank
<1> HIDE DEF s
<1>31. Numbered(s)
  BY <1>30 DEF Numbered
<1>2. m \in Nat /\ DOMAIN s = 1..m /\ \A i \in 1..m : s[i].place = i /\ s[i] \in S
  BY <1>30, OfASequence
<1>1. Placed(S) /\ s \in Seq(S) /\ Blank \in S
  BY <1>30, <1>31, NumberedIsPlaced
<1>32. S \in SUBSET Saying(Even)
  <2>1. Blank \in Saying(Even)
    BY DEF Blank, Line, Saying, OrNothing
  <2>2. \A i \in 1..m : s[i] \in Saying(Even)
    BY <1>30, OfASequence
  <2> QED BY <2>1, <2>2
<1> HIDE DEF S, W, m
<1>5. /\ t \in Seq(S) /\ InOrder(t)
      /\ \A k \in 1..Len(pages) : \A i \in 1..Len(pages[k]) :
           ~IsBlank(pages[k][i]) => Has(t, pages[k][i].place) \/ Marginal(i, pages[k], pages)
      /\ \A p \in Nat \ {0} :
           p + 2 <= m /\ s[p].says # "page" /\ s[p + 2].says # "page"
           /\ IsBlank(s[p + 1]) /\ Has(t, p) /\ Has(t, p + 2) => Adjoin(t, p)
  BY <1>1, <1>31, MarginsOff DEF m
<1>6. pages \in Seq(Seq(S)) /\ \A k \in 1..Len(pages) : pages[k] \in Seq(S)
  <2>1. pages \in Paged(S)
    BY <1>1, PagesAreTexts
  <2> HIDE DEF pages
  <2>2. pages \in Seq(Seq(Unpaged(S)))
    BY <2>1 DEF Paged
  <2>3. \A u \in Seq(Unpaged(S)) : u \in Seq(S)
    BY DEF Unpaged
  <2> DEFINE U == Seq(Unpaged(S))
             V == Seq(S)
  <2>4. (\A u \in U : u \in V) /\ pages \in Seq(U)
    BY <2>2, <2>3
  <2> HIDE DEF U, V
  <2>5. pages \in Seq(V) /\ \A k \in 1..Len(pages) : pages[k] \in V
    BY <2>4
  <2> QED BY <2>5 DEF V
<1> HIDE DEF t
<1>33. /\ Placed(W) /\ v \in Seq(W) /\ InOrder(v)
       /\ \A p : Has(v, p) <=> Has(t, p)
       /\ \A p : Adjoin(t, p) => Adjoin(v, p)
  BY <1>1, <1>5, <1>32, LinesShown, ShownKeepsPlaces DEF W
<1>34. /\ Len(vis) = m /\ \A q \in 1..m : vis[q] = ShownLine(s[q]) /\ vis[q].place = q
  <2>1. Len(vis) = Len(s) /\ \A q \in 1..Len(s) : vis[q] = ShownLine(s[q]) /\ vis[q].place = s[q].place
    BY <1>1, <1>32, LinesShown
  <2> QED BY <1>2, <2>1 DEF m
<1>35. DOMAIN vis = 1..m
  BY <1>2 DEF WithoutInvisible, Rewritten
<1> HIDE DEF v, vis
<1>36. \A q \in 1..m : /\ vis[q] \in W /\ (IsBlank(s[q]) => IsBlank(vis[q]))
                       /\ (s[q].says = "page" => vis[q].says = "page")
  <2> SUFFICES ASSUME NEW q \in 1..m
               PROVE  /\ vis[q] \in W /\ (IsBlank(s[q]) => IsBlank(vis[q]))
                      /\ (s[q].says = "page" => vis[q].says = "page")
    OBVIOUS
  <2>1. s[q] \in S /\ s[q] \in Saying(Even)
    BY <1>2, <1>32
  <2> QED BY <1>34, <2>1, LineShown DEF W
<1>14. /\ c \in Seq(W) /\ InOrder(c)
       /\ \A p \in Nat : Has(c, p) => Has(v, p)
       /\ \A x \in W : ~IsBlank(x) /\ ~IsPageNumber(x) /\ Has(v, x.place) => Has(c, x.place)
       /\ \A x, y \in W : /\ x.place > 0 /\ y.place = x.place + 1
                          /\ ~IsBlank(x) /\ IsBlank(y) /\ Adjoin(v, x.place)
                          /\ Has(c, x.place) /\ Has(c, x.place + 2)
                          => Has(c, y.place)
  BY <1>33, BodyTidied
<1> HIDE DEF c
<1>17. DOMAIN c = 1..Len(c) /\ Len(c) \in Nat /\ \A i \in 1..Len(c) : c[i] \in W
  BY <1>14, OfASequence
<1>18. \A p : p \in Said(c) => Has(c, p)
  BY <1>17 DEF Said, Has
<1>19. ASSUME NEW x \in W, ~IsBlank(x), ~IsPageNumber(x), x.says # "page", Has(c, x.place)
       PROVE  x.place \in Said(c)
  <2>1. PICK i \in 1..Len(c) : c[i] = x
    BY <1>14, <1>19, <1>33, LineStays
  <2> QED BY <1>17, <1>19, <2>1 DEF Said
<1>20. \A i, j \in Content(c) : i < j => c[i].place < c[j].place
  <2> SUFFICES ASSUME NEW i \in Content(c), NEW j \in Content(c), i < j
               PROVE  c[i].place < c[j].place
    OBVIOUS
  <2>1. i \in 1..Len(c) /\ j \in 1..Len(c) /\ ~IsBlank(c[i]) /\ ~IsBlank(c[j])
    BY <1>17 DEF Content
  <2>2. c[i].place > 0 /\ c[j].place > 0
    BY <1>17, <1>33, <2>1 DEF Placed
  <2> QED BY <1>14, <2>1, <2>2 DEF InOrder
<1>21. ASSUME NEW k \in DOMAIN pages, NEW p \in Said(vis) \ Said(c), NEW i \in DOMAIN pages[k],
              pages[k][i].place = p
       PROVE  Marginal(i, pages[k], pages)
  <2> DEFINE x == pages[k][i]
  <2>1. k \in 1..Len(pages) /\ i \in 1..Len(pages[k]) /\ x \in S
    BY <1>6
  <2>2. PICK q \in 1..m : /\ vis[q].place = p /\ ~IsBlank(vis[q]) /\ ~IsPageNumber(vis[q])
                          /\ vis[q].says # "page"
    BY <1>35 DEF Said
  <2>3. x = s[q] /\ p = q
    BY <1>1, <1>2, <1>21, <1>34, <2>1, <2>2 DEF Placed
  <2>4. ~Has(t, p)
    <3> SUFFICES ASSUME Has(t, p) PROVE FALSE
      OBVIOUS
    <3> DEFINE y == vis[q]
    <3>1. y \in W /\ y.place = p /\ ~IsBlank(y) /\ ~IsPageNumber(y) /\ y.says # "page" /\ Has(v, p)
      BY <1>33, <1>36, <2>2
    <3> HIDE DEF y
    <3>2. y.place \in Said(c)
      BY <1>14, <1>19, <3>1
    <3> QED BY <3>1, <3>2
  <2>5. ~IsBlank(x)
    BY <1>36, <2>2, <2>3
  <2> QED BY <1>5, <1>21, <2>1, <2>4, <2>5
<1>22. ASSUME NEW k \in DOMAIN pages, NEW i, Marginal(i, pages[k], pages)
       PROVE  /\ i \in Content(pages[k])
              /\ \/ \A j \in Content(pages[k]) : i <= j
                 \/ \A j \in Content(pages[k]) : i >= j
              /\ \E l \in DOMAIN pages \ {k} : \E j \in Content(pages[l]) :
                   /\ \/ \A n \in Content(pages[l]) : j <= n
                      \/ \A n \in Content(pages[l]) : j >= n
                   /\ Same(pages[k][i], pages[l][j])
  <2> HIDE DEF pages
  <2> QED BY <1>6, <1>22, MarginElsewhere
<1>23. ASSUME NEW i \in 1..(m - 2), {i, i + 2} \subseteq Said(c), IsBlank(text[i + 1])
       PROVE  \E j \in DOMAIN c : c[j].place = i + 1
  <2>1. i \in 1..m /\ i + 1 \in 1..m /\ i + 2 \in 1..m /\ i \in Nat \ {0}
        /\ i + 1 \in Nat \ {0} /\ i + 2 \in Nat \ {0} /\ i + 2 <= m
    BY <1>2
  <2>2. Has(c, i) /\ Has(c, i + 2)
    BY <1>18, <1>23
  <2>3. ASSUME NEW q \in {i, i + 2} PROVE ~IsBlank(vis[q]) /\ ~IsBlank(s[q]) /\ s[q].says # "page"
    <3>1. PICK j \in 1..Len(c) : c[j].place = q /\ ~IsBlank(c[j]) /\ c[j].says # "page"
      BY <1>17, <1>23 DEF Said
    <3>2. q \in 1..m
      BY <2>1
    <3>3. c[j] = vis[q]
      BY <1>17, <1>33, <1>34, <1>36, <3>1, <3>2 DEF Placed
    <3> QED BY <1>36, <3>1, <3>2, <3>3
  <2>4. Has(t, i) /\ Has(t, i + 2)
    BY <1>14, <1>33, <2>1, <2>2
  <2>5. IsBlank(s[i + 1])
    BY <1>23, <1>30, <2>1 DEF m
  <2>6. Adjoin(v, i)
    BY <1>5, <1>33, <2>1, <2>3, <2>4, <2>5
  <2> DEFINE x == vis[i]
             y == vis[i + 1]
  <2>7. x \in W /\ y \in W /\ x.place = i /\ y.place = i + 1 /\ ~IsBlank(x) /\ IsBlank(y)
    BY <1>34, <1>36, <2>1, <2>3, <2>5
  <2> HIDE DEF x, y
  <2>8. Has(c, i + 1)
    <3>1. x.place > 0 /\ y.place = x.place + 1 /\ Adjoin(v, x.place)
          /\ Has(c, x.place) /\ Has(c, x.place + 2)
      BY <2>1, <2>2, <2>6, <2>7
    <3> QED BY <1>14, <2>7, <3>1
  <2> QED BY <1>17, <2>8 DEF Has
<1> DEFINE Margin(k) == {i \in Content(pages[k]) :
             \/ \A j \in Content(pages[k]) : i <= j
             \/ \A j \in Content(pages[k]) : i >= j}
           Elsewhere(k, i) == \E l \in DOMAIN pages \ {k} :
             \E j \in Margin(l) : Same(pages[k][i], pages[l][j])
<1>24. \A k \in DOMAIN pages, p \in Said(vis) \ Said(c) :
         \A i \in DOMAIN pages[k] :
           pages[k][i].place = p => i \in Margin(k) /\ Elsewhere(k, i)
  <2> HIDE DEF pages
  <2> QED BY <1>21, <1>22
<1>25. \A i \in 1..Len(text) - 2 : {i, i + 2} \subseteq Said(c) /\ IsBlank(text[i + 1])
          => \E j \in DOMAIN c : c[j].place = i + 1
  BY <1>23, <1>30 DEF m
<1> QED BY <1>3, <1>20, <1>24, <1>25, Zenon DEF CleanKeepsBody, s, vis
=============================================================================
