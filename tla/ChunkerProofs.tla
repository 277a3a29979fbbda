---------------------------- MODULE ChunkerProofs ----------------------------
(***************************************************************************)
(* What Chunker does to texts of every length: chunks are short, and they  *)
(* cover the text.                                                         *)
(***************************************************************************)
EXTENDS Chunker, Induction

-----------------------------------------------------------------------------
(* Tokens.                                                                 *)

\* The glyphs that are a token each.
Marks(s) == {i \in DOMAIN s : s[i].class \in {"c", "#", "."}}

LEMMA RunsAreFinite ==
  ASSUME NEW G, NEW s \in Seq(G)
  PROVE  /\ IsFiniteSet(LetterRuns(s))
         /\ \A w \in LetterRuns(s) : WordTokens(w) \in Nat
         /\ IsFiniteSet(Marks(s))
<1>1. IsFiniteSet(DOMAIN s) /\ DOMAIN s \subseteq Nat
  BY SequencePlaces
<1>2. IsFiniteSet((DOMAIN s) \X (DOMAIN s))
  BY <1>1, FS_Product
<1>3. LetterRuns(s) \in SUBSET ((DOMAIN s) \X (DOMAIN s))
  BY DEF LetterRuns
<1>4. IsFiniteSet(LetterRuns(s))
  BY <1>2, <1>3, FS_Subset
<1>5. ASSUME NEW w \in LetterRuns(s) PROVE WordTokens(w) \in Nat
  <2>1. w[1] \in Nat /\ w[2] \in Nat /\ w[1] <= w[2]
    BY <1>1 DEF LetterRuns
  <2> DEFINE letters == w[2] - w[1] + 1
  <2>2. letters \in Nat
    BY <2>1
  <2> HIDE DEF letters
  <2>3. (letters + 1) \div 2 \in Nat
    BY <2>2
  <2> QED BY <2>3 DEF WordTokens, letters
<1>6. IsFiniteSet(Marks(s))
  BY <1>1, FS_Subset DEF Marks
<1> QED BY <1>4, <1>5, <1>6

LEMMA TokensAreNatural ==
  ASSUME NEW G, NEW s \in Seq(G)
  PROVE  Tokens(s) \in Nat
<1> DEFINE runs == LetterRuns(s)
           tokens == [w \in runs |-> WordTokens(w)]
<1>1. /\ IsFiniteSet(runs) /\ IsFiniteSet(Marks(s))
      /\ \A w \in runs : tokens[w] \in Nat
  BY RunsAreFinite
<1>2. DOMAIN tokens = runs
  OBVIOUS
<1>3. Tokens(s) = SpecialTokens + Cardinality(Marks(s)) + SumFunction(tokens)
  BY DEF Tokens, Marks
<1> HIDE DEF runs, tokens
<1>4. SumFunctionOnSet(tokens, runs) \in Nat
  BY <1>1, SumIsNatural
<1>5. SumFunction(tokens) \in Nat
  BY <1>2, <1>4 DEF SumFunction
<1>6. Cardinality(Marks(s)) \in Nat
  BY <1>1, FS_CardinalityType
<1> QED BY <1>3, <1>5, <1>6 DEF SpecialTokens

\* t is s without line breaks at its ends: its first glyph is the one after place o of s.
Trims(t, s, o) ==
  /\ o \in Nat
  /\ DOMAIN t = 1..Len(t) /\ Len(t) \in Nat /\ DOMAIN s = 1..Len(s) /\ Len(s) \in Nat
  /\ o + Len(t) <= Len(s)
  /\ \A i \in 1..Len(t) : t[i] = s[i + o]
  /\ \A i \in 1..Len(s) : i <= o \/ i > o + Len(t) => s[i].class = "n"

LEMMA TrimKeepsMarks ==
  ASSUME NEW G, NEW s \in Seq(G), NEW t \in Seq(G), NEW o, Trims(t, s, o)
  PROVE  Cardinality(Marks(t)) = Cardinality(Marks(s))
<1> DEFINE f == [i \in Marks(t) |-> i + o]
<1>1. /\ \A i \in Marks(t) : i + o \in Marks(s) /\ i \in Nat
      /\ \A j \in Marks(s) : j - o \in Marks(t) /\ j \in Nat /\ (j - o) + o = j
      /\ o \in Nat
  <2> DEFINE n == Len(t)
             m == Len(s)
             M(g) == g.class \in {"c", "#", "."}
  <2>1. /\ DOMAIN t = 1..n /\ n \in Nat /\ DOMAIN s = 1..m /\ m \in Nat /\ o \in Nat /\ o + n <= m
        /\ \A i \in 1..n : t[i] = s[i + o]
        /\ \A i \in 1..m : M(s[i]) => i > o /\ i <= o + n
    BY DEF Trims
  <2>2. Marks(t) = {i \in DOMAIN t : M(t[i])} /\ Marks(s) = {i \in DOMAIN s : M(s[i])}
    BY DEF Marks
  <2> HIDE DEF M, n, m
  <2>3. ASSUME NEW i \in Marks(t) PROVE i + o \in Marks(s) /\ i \in Nat
    BY <2>1, <2>2
  <2>4. ASSUME NEW j \in Marks(s)
        PROVE  j - o \in Marks(t) /\ j \in Nat /\ (j - o) + o = j
    <3>1. j \in 1..m /\ M(s[j]) /\ j > o /\ j <= o + n
      BY <2>1, <2>2
    <3>2. j - o \in 1..n /\ (j - o) + o = j
      BY <2>1, <3>1
    <3> QED BY <2>1, <2>2, <3>1, <3>2
  <2> QED BY <2>1, <2>3, <2>4
<1>2. IsFiniteSet(Marks(t))
  BY RunsAreFinite
<1>3. \A i \in Marks(t) : f[i] = i + o
  OBVIOUS
<1>4. Maps(f, Marks(t), Marks(s)) /\ OneToOne(f, Marks(t))
      /\ \A j \in Marks(s) : \E i \in Marks(t) : f[i] = j
  <2>1. f \in [Marks(t) -> Marks(s)]
    BY <1>1
  <2> HIDE DEF f
  <2> QED BY <1>1, <1>3, <2>1 DEF Maps, OneToOne
<1> HIDE DEF f
<1> QED BY <1>2, <1>4, ImageCounts

LEMMA TrimKeepsRuns ==
  ASSUME NEW G, NEW s \in Seq(G), NEW t \in Seq(G), NEW o, Trims(t, s, o)
  PROVE  /\ \A w \in LetterRuns(t) : <<w[1] + o, w[2] + o>> \in LetterRuns(s)
         /\ \A w \in LetterRuns(s) : <<w[1] - o, w[2] - o>> \in LetterRuns(t)
<1> DEFINE n == Len(t)
           m == Len(s)
           W(i) == s[i].class = "w"
<1>1. /\ DOMAIN t = 1..n /\ n \in Nat /\ DOMAIN s = 1..m /\ m \in Nat /\ o \in Nat /\ o + n <= m
      /\ \A i \in 1..n : t[i] = s[i + o]
      /\ \A i \in 1..m : W(i) => i > o /\ i <= o + n
  BY DEF Trims
<1>2. \A a, b : <<a, b>> \in LetterRuns(s) <=>
        /\ a \in 1..m /\ b \in 1..m /\ a <= b
        /\ \A k \in a..b : W(k)
        /\ a = 1 \/ ~W(a - 1)
        /\ b = m \/ ~W(b + 1)
  BY <1>1 DEF LetterRuns
<1>3. \A a, b : <<a, b>> \in LetterRuns(t) <=>
        /\ a \in 1..n /\ b \in 1..n /\ a <= b
        /\ \A k \in a..b : t[k].class = "w"
        /\ a = 1 \/ t[a - 1].class # "w"
        /\ b = n \/ t[b + 1].class # "w"
  BY <1>1 DEF LetterRuns
<1>4. \A i \in 1..n : t[i].class = "w" <=> W(i + o)
  BY <1>1
<1>5. /\ \A w \in LetterRuns(s) : w = <<w[1], w[2]>>
      /\ \A w \in LetterRuns(t) : w = <<w[1], w[2]>>
  BY DEF LetterRuns
<1> HIDE DEF W, n, m
<1>6. ASSUME NEW a, NEW b, <<a, b>> \in LetterRuns(t) PROVE <<a + o, b + o>> \in LetterRuns(s)
  <2>1. /\ a \in 1..n /\ b \in 1..n /\ a <= b
        /\ \A k \in a..b : t[k].class = "w"
        /\ a = 1 \/ t[a - 1].class # "w"
        /\ b = n \/ t[b + 1].class # "w"
    BY <1>3, <1>6
  <2>2. /\ a + o \in 1..m /\ b + o \in 1..m /\ a + o <= b + o
    BY <1>1, <2>1
  <2>3. ASSUME NEW k \in (a + o)..(b + o) PROVE W(k)
    <3>1. k - o \in a..b /\ k - o \in 1..n /\ (k - o) + o = k
      BY <1>1, <2>1
    <3> QED BY <1>4, <2>1, <3>1
  <2>4. a + o = 1 \/ ~W((a + o) - 1)
    <3>1. CASE a = 1
      BY <1>1, <2>1, <3>1
    <3>2. CASE a # 1
      <4>1. a - 1 \in 1..n /\ (a - 1) + o = (a + o) - 1
        BY <1>1, <2>1, <3>2
      <4>2. ~W((a - 1) + o)
        BY <1>4, <2>1, <3>2, <4>1
      <4> QED BY <4>1, <4>2
    <3> QED BY <3>1, <3>2
  <2>5. b + o = m \/ ~W((b + o) + 1)
    <3>1. CASE b = n
      BY <1>1, <2>1, <3>1
    <3>2. CASE b # n
      <4>1. b + 1 \in 1..n /\ (b + 1) + o = (b + o) + 1
        BY <1>1, <2>1, <3>2
      <4>2. ~W((b + 1) + o)
        BY <1>4, <2>1, <3>2, <4>1
      <4> QED BY <4>1, <4>2
    <3> QED BY <3>1, <3>2
  <2> QED BY <1>2, <2>2, <2>3, <2>4, <2>5
<1>7. ASSUME NEW a, NEW b, <<a, b>> \in LetterRuns(s) PROVE <<a - o, b - o>> \in LetterRuns(t)
  <2>1. /\ a \in 1..m /\ b \in 1..m /\ a <= b
        /\ \A k \in a..b : W(k)
        /\ a = 1 \/ ~W(a - 1)
        /\ b = m \/ ~W(b + 1)
    BY <1>2, <1>7
  <2>2. /\ a - o \in 1..n /\ b - o \in 1..n /\ a - o <= b - o
    <3>1. W(a) /\ W(b)
      BY <1>1, <2>1
    <3>2. a > o /\ b <= o + n
      BY <1>1, <2>1, <3>1
    <3> QED BY <1>1, <2>1, <3>2
  <2>3. ASSUME NEW k \in (a - o)..(b - o) PROVE t[k].class = "w"
    <3>1. k + o \in a..b /\ k \in 1..n
      BY <1>1, <2>1, <2>2
    <3> QED BY <1>4, <2>1, <3>1
  <2>4. a - o = 1 \/ t[(a - o) - 1].class # "w"
    <3>1. CASE a - o # 1
      <4>1. (a - o) - 1 \in 1..n /\ ((a - o) - 1) + o = a - 1 /\ a # 1
        BY <1>1, <2>1, <2>2, <3>1
      <4>2. ~W(((a - o) - 1) + o)
        BY <2>1, <4>1
      <4> QED BY <1>4, <4>1, <4>2
    <3> QED BY <3>1
  <2>5. b - o = n \/ t[(b - o) + 1].class # "w"
    <3>1. CASE b - o # n
      <4>1. (b - o) + 1 \in 1..n /\ ((b - o) + 1) + o = b + 1 /\ b # m
        BY <1>1, <2>1, <2>2, <3>1
      <4>2. ~W(((b - o) + 1) + o)
        BY <2>1, <4>1
      <4> QED BY <1>4, <4>1, <4>2
    <3> QED BY <3>1
  <2> QED BY <1>3, <2>2, <2>3, <2>4, <2>5
<1>8. ASSUME NEW w \in LetterRuns(t) PROVE <<w[1] + o, w[2] + o>> \in LetterRuns(s)
  BY <1>5, <1>6
<1>9. ASSUME NEW w \in LetterRuns(s) PROVE <<w[1] - o, w[2] - o>> \in LetterRuns(t)
  BY <1>5, <1>7
<1> QED BY <1>8, <1>9

LEMMA TrimKeepsTokens ==
  ASSUME NEW G, NEW s \in Seq(G), NEW t \in Seq(G), NEW o, Trims(t, s, o)
  PROVE  Tokens(t) = Tokens(s)
<1> DEFINE S == LetterRuns(t)
           T == LetterRuns(s)
           f == [w \in S |-> <<w[1] + o, w[2] + o>>]
           a == [w \in S |-> WordTokens(w)]
           b == [w \in T |-> WordTokens(w)]
<1>1. /\ \A w \in S : <<w[1] + o, w[2] + o>> \in T
      /\ \A w \in T : <<w[1] - o, w[2] - o>> \in S
  BY TrimKeepsRuns
<1>2. /\ \A w \in S : w = <<w[1], w[2]>> /\ w[1] \in Nat /\ w[2] \in Nat
      /\ \A w \in T : w = <<w[1], w[2]>> /\ w[1] \in Nat /\ w[2] \in Nat
  <2>1. DOMAIN s \subseteq Nat /\ DOMAIN t \subseteq Nat
    BY SequencePlaces
  <2> QED BY <2>1 DEF LetterRuns
<1>3. o \in Nat
  BY DEF Trims
<1>4. /\ IsFiniteSet(S) /\ \A w \in S : WordTokens(w) \in Nat
      /\ \A w \in T : WordTokens(w) \in Nat
  BY RunsAreFinite
<1>5. \A w \in S : f[w] = <<w[1] + o, w[2] + o>> /\ f[w] \in T
  BY <1>1
<1>6. ASSUME NEW w \in S PROVE WordTokens(f[w]) = WordTokens(w)
  <2>1. (w[2] + o) - (w[1] + o) + 1 = w[2] - w[1] + 1
    BY <1>2, <1>3
  <2>2. f[w][1] = w[1] + o /\ f[w][2] = w[2] + o
    BY <1>5
  <2> HIDE DEF f
  <2> QED BY <2>1, <2>2 DEF WordTokens
<1>7. \A w \in S : a[w] \in Int /\ b[f[w]] = a[w]
  <2> SUFFICES ASSUME NEW w \in S PROVE a[w] \in Int /\ b[f[w]] = a[w]
    OBVIOUS
  <2>1. a[w] = WordTokens(w) /\ a[w] \in Int
    BY <1>4
  <2>2. f[w] \in T
    BY <1>5
  <2> HIDE DEF f
  <2>3. b[f[w]] = WordTokens(f[w])
    BY <2>2
  <2> QED BY <1>6, <2>1, <2>3
<1>8. Maps(f, S, T)
  <2>1. f \in [S -> T]
    BY <1>1
  <2> QED BY <2>1 DEF Maps
<1>9. DOMAIN a = S /\ DOMAIN b = T
  OBVIOUS
<1> HIDE DEF f, a, b, S, T
<1>10. OneToOne(f, S)
  <2> SUFFICES ASSUME NEW w \in S, NEW x \in S, f[w] = f[x] PROVE w = x
    BY DEF OneToOne
  <2>1. w[1] + o = x[1] + o /\ w[2] + o = x[2] + o
    BY <1>5
  <2>2. w[1] = x[1] /\ w[2] = x[2]
    BY <1>2, <1>3, <2>1
  <2> QED BY <1>2, <2>2
<1>11. \A w \in T : \E x \in S : f[x] = w
  <2> SUFFICES ASSUME NEW w \in T PROVE \E x \in S : f[x] = w
    OBVIOUS
  <2> DEFINE x == <<w[1] - o, w[2] - o>>
  <2>1. x \in S
    BY <1>1
  <2>2. x[1] + o = w[1] /\ x[2] + o = w[2]
    BY <1>2, <1>3
  <2> HIDE DEF x
  <2>3. f[x] = w
    BY <1>2, <1>5, <2>1, <2>2
  <2> QED BY <2>1, <2>3
<1>12. SumFunctionOnSet(a, S) = SumFunctionOnSet(b, T)
  BY <1>4, <1>7, <1>8, <1>10, <1>11, SumMoves
<1>13. Cardinality(Marks(t)) = Cardinality(Marks(s))
  BY TrimKeepsMarks
<1>14. /\ Tokens(t) = SpecialTokens + Cardinality(Marks(t)) + SumFunction(a)
       /\ Tokens(s) = SpecialTokens + Cardinality(Marks(s)) + SumFunction(b)
  BY DEF Tokens, Marks, a, b, S, T
<1>15. SumFunction(a) = SumFunction(b)
  BY <1>9, <1>12 DEF SumFunction
<1> QED BY <1>13, <1>14, <1>15

\* str.strip takes line breaks off the ends and nothing else.
LEMMA StripTrims ==
  ASSUME NEW G, NEW s \in Seq(G)
  PROVE  /\ Strip(s) \in Seq(G)
         /\ \E o : Trims(Strip(s), s, o)
<1>1. /\ DOMAIN s = 1..Len(s) /\ Len(s) \in Nat /\ IsFiniteSet(DOMAIN s) /\ DOMAIN s \subseteq Nat
  BY SequencePlaces
<1>2. CASE Inked(s) = {}
  <2>1. Strip(s) = <<>>
    BY <1>2 DEF Strip
  <2>2. \A i \in 1..Len(s) : s[i].class = "n"
    BY <1>1, <1>2 DEF Inked
  <2>3. Trims(<<>>, s, 0)
    BY <1>1, <2>2 DEF Trims
  <2> QED BY <2>1, <2>3
<1>3. CASE Inked(s) # {}
  <2> DEFINE I == Inked(s)
             a == Min(I)
             b == Max(I)
             t == SubSeq(s, a, b)
  <2>1. I \in SUBSET Nat /\ IsFiniteSet(I) /\ I \in SUBSET (1..Len(s))
    BY <1>1, FS_Subset DEF Inked
  <2>2. \A i \in 1..Len(s) : i \notin I => s[i].class = "n"
    BY <1>1 DEF Inked
  <2> HIDE DEF I
  <2>3. a \in I /\ b \in I /\ \A i \in I : a <= i /\ i <= b
    BY <1>3, <2>1, MinIsLeast, MaxIsGreatest DEF I
  <2> HIDE DEF a, b
  <2>4. a \in Nat /\ b \in Nat /\ a >= 1 /\ b <= Len(s) /\ a <= b
    BY <2>1, <2>3
  <2>5. /\ t \in Seq(G) /\ Len(t) = b - a + 1 /\ DOMAIN t = 1..(b - a + 1)
        /\ \A i \in 1..(b - a + 1) : t[i] = s[i + (a - 1)]
    BY <2>4, SubText
  <2> HIDE DEF t
  <2>6. \A i \in 1..Len(s) : i < a \/ i > b => s[i].class = "n"
    BY <2>1, <2>2, <2>3, <2>4
  <2>7. Trims(t, s, a - 1)
    BY <1>1, <2>4, <2>5, <2>6 DEF Trims
  <2>8. Strip(s) = t
    BY <1>3 DEF Strip, t, a, b, I
  <2> QED BY <2>5, <2>7, <2>8
<1> QED BY <1>2, <1>3

\* ... and so no token.
LEMMA StripKeepsTokens ==
  ASSUME NEW G, NEW s \in Seq(G)
  PROVE  Strip(s) \in Seq(G) /\ Tokens(Strip(s)) = Tokens(s) /\ Tokens(s) \in Nat
BY StripTrims, TrimKeepsTokens, TokensAreNatural

LEMMA NothingHasNoTokens ==
  Tokens(<<>>) = SpecialTokens
<1> DEFINE a == [w \in LetterRuns(<<>>) |-> WordTokens(w)]
<1>1. Marks(<<>>) = {} /\ LetterRuns(<<>>) = {}
  BY DEF Marks, LetterRuns
<1>2. DOMAIN a = {}
  BY <1>1
<1>3. Tokens(<<>>) = SpecialTokens + Cardinality(Marks(<<>>)) + SumFunction(a)
  BY DEF Tokens, Marks
<1> HIDE DEF a
<1>4. SumFunction(a) = 0
  BY <1>2, SumOfNone DEF SumFunction
<1>5. Cardinality(Marks(<<>>)) = 0
  BY <1>1, FS_EmptySet
<1> QED BY <1>3, <1>4, <1>5 DEF SpecialTokens

-----------------------------------------------------------------------------
(* The folds of the chunker: the states they go through.                   *)

\* The loop of _split_preserving_separator.
CutsWalk(h, V, s, separator) ==
  /\ h \in [0..Len(s) -> V]
  /\ h[0] = << <<>> >>
  /\ PiecesAt(s, separator) = h[Len(s)]
  /\ \A i \in 1..Len(s) : h[i] = CutAt(s, separator, h[i - 1], i)

LEMMA CutsPath ==
  ASSUME NEW G, NEW s \in Seq(G), NEW separator, NEW V, << <<>> >> \in V,
         \A v \in V, i \in 1..Len(s) : CutAt(s, separator, v, i) \in V
  PROVE  \E h : CutsWalk(h, V, s, separator)
<1> DEFINE base == << <<>> >>
           n == Len(s)
           D == 1..n
           step == [i \in D |-> [v \in V |-> CutAt(s, separator, v, i)]]
           places == [i \in DOMAIN s |-> i]
           it == CHOOSE it : it = [d \in SUBSET D |->
                   IF d = {} THEN base ELSE CutAt(s, separator, it[d \ {Max(d)}], places[Max(d)])]
<1>0. base \in V
  OBVIOUS
<1>1. DOMAIN places = D /\ n \in Nat /\ \A x \in D : places[x] = x
  OBVIOUS
<1>2. Steps(step, n, V)
  BY <1>1 DEF Steps
<1>3. \A i \in D, v \in V : step[i][v] = CutAt(s, separator, v, i)
  OBVIOUS
<1> HIDE DEF step, n, base, places
<1>4. PICK f : FoldsLeft(f, n, V, base, step)
  BY <1>0, <1>1, <1>2, FoldLeftExists
<1>5. f = [d \in SUBSET D |-> IF d = {} THEN base ELSE CutAt(s, separator, f[d \ {Max(d)}], places[Max(d)])]
  <2>1. \A d \in SUBSET D : f[d] = IF d = {} THEN base ELSE CutAt(s, separator, f[d \ {Max(d)}], places[Max(d)])
    BY <1>1, <1>3, <1>4 DEF FoldsLeft
  <2> QED BY <1>4, <2>1 DEF FoldsLeft
<1>6. it = [d \in SUBSET D |-> IF d = {} THEN base ELSE CutAt(s, separator, it[d \ {Max(d)}], places[Max(d)])]
  BY <1>5, Zenon
<1>7. PiecesAt(s, separator) = it[D]
  BY <1>1, Zenon DEF PiecesAt, places, FoldLeft, MapThenFoldSet, base, n
<1> HIDE DEF it
<1>8. it[{}] = base
  BY <1>6
<1>9. ASSUME NEW d \in SUBSET (1..n), d # {}, Max(d) \in 1..n, it[d \ {Max(d)}] \in V
      PROVE  it[d] = step[Max(d)][it[d \ {Max(d)}]]
  <2> DEFINE m == Max(d)
             v == it[d \ {m}]
  <2>1. m \in D /\ v \in V /\ places[m] = m
    BY <1>1, <1>9
  <2>2. it[d] = CutAt(s, separator, v, places[m])
    BY <1>6, <1>9
  <2> HIDE DEF m, v
  <2>3. it[d] = CutAt(s, separator, v, m)
    BY <2>1, <2>2, Zenon
  <2>4. it[d] = step[m][v]
    BY <1>3, <2>1, <2>3
  <2> QED BY <2>4 DEF m, v
<1>15. \A d \in SUBSET (1..n) : d # {} /\ Max(d) \in 1..n /\ it[d \ {Max(d)}] \in V
         => it[d] = step[Max(d)][it[d \ {Max(d)}]]
  BY <1>9
<1> HIDE DEF D
<1>16. n \in Nat /\ base \in V
  BY <1>0, <1>1
<1>17. Recurs(it, n, V, base, step)
  BY <1>2, <1>8, <1>15, <1>16 DEF Recurs
<1>18. PICK h : Walks(h, n, V, base, step, it[1..n])
  BY <1>17, FoldPath
<1>10. h \in [0..n -> V] /\ h[0] = base /\ h[n] = it[1..n] /\ \A i \in 1..n : h[i] = step[i][h[i - 1]]
  BY <1>18 DEF Walks
<1>11. \A i \in 1..n : i - 1 \in 0..n
  BY <1>16
<1>12. \A i \in 1..n : h[i - 1] \in V
  BY <1>10, <1>11
<1>13. \A i \in 1..n : h[i] = CutAt(s, separator, h[i - 1], i)
  BY <1>3, <1>10, <1>12 DEF D
<1>14. PiecesAt(s, separator) = h[n]
  BY <1>7, <1>10 DEF D
<1>19. CutsWalk(h, V, s, separator)
  BY <1>10, <1>13, <1>14 DEF n, base, CutsWalk
<1> QED BY <1>19

\* The turns of _largest_prefix_within_limit ...
PrefixWalk(h, V, s, limit) ==
  /\ h \in [0..Len(s) -> V]
  /\ h[0] = [low |-> 0, high |-> Len(s)]
  /\ LargestPrefix(s, limit) = h[Len(s)].low
  /\ \A i \in 1..Len(s) : h[i] = NarrowPrefix(s, limit, h[i - 1])

LEMMA PrefixPath ==
  ASSUME NEW G, NEW s \in Seq(G), NEW limit, NEW V, [low |-> 0, high |-> Len(s)] \in V,
         \A v \in V, i \in 1..Len(s) : NarrowPrefix(s, limit, v) \in V
  PROVE  \E h : PrefixWalk(h, V, s, limit)
<1> DEFINE base == [low |-> 0, high |-> Len(s)]
           n == Len(s)
           D == 1..n
           step == [i \in D |-> [v \in V |-> NarrowPrefix(s, limit, v)]]
           it == CHOOSE it : it = [d \in SUBSET D |->
                   IF d = {} THEN base ELSE NarrowPrefix(s, limit, it[d \ {Max(d)}])]
<1>0. base \in V
  OBVIOUS
<1>1. DOMAIN s = D /\ n \in Nat
  OBVIOUS
<1>2. Steps(step, n, V)
  BY <1>1 DEF Steps
<1>3. \A i \in D, v \in V : step[i][v] = NarrowPrefix(s, limit, v)
  OBVIOUS
<1> HIDE DEF step, n, base
<1>4. PICK f : FoldsLeft(f, n, V, base, step)
  BY <1>0, <1>1, <1>2, FoldLeftExists
<1>5. f = [d \in SUBSET D |-> IF d = {} THEN base ELSE NarrowPrefix(s, limit, f[d \ {Max(d)}])]
  <2>1. \A d \in SUBSET D : f[d] = IF d = {} THEN base ELSE NarrowPrefix(s, limit, f[d \ {Max(d)}])
    BY <1>3, <1>4 DEF FoldsLeft
  <2> QED BY <1>4, <2>1 DEF FoldsLeft
<1>6. it = [d \in SUBSET D |-> IF d = {} THEN base ELSE NarrowPrefix(s, limit, it[d \ {Max(d)}])]
  BY <1>5, Zenon
<1>7. LargestPrefix(s, limit) = it[D].low
  BY <1>1, Zenon DEF LargestPrefix, FoldLeft, MapThenFoldSet, base, n
<1> HIDE DEF it
<1>8. it[{}] = base
  BY <1>6
<1>9. ASSUME NEW d \in SUBSET (1..n), d # {}, Max(d) \in 1..n, it[d \ {Max(d)}] \in V
      PROVE  it[d] = step[Max(d)][it[d \ {Max(d)}]]
  BY <1>1, <1>3, <1>6, <1>9
<1>15. \A d \in SUBSET (1..n) : d # {} /\ Max(d) \in 1..n /\ it[d \ {Max(d)}] \in V
         => it[d] = step[Max(d)][it[d \ {Max(d)}]]
  BY <1>9
<1> HIDE DEF D
<1>16. n \in Nat /\ base \in V
  BY <1>0, <1>1
<1>17. Recurs(it, n, V, base, step)
  BY <1>2, <1>8, <1>15, <1>16 DEF Recurs
<1>18. PICK h : Walks(h, n, V, base, step, it[1..n])
  BY <1>17, FoldPath
<1>10. h \in [0..n -> V] /\ h[0] = base /\ h[n] = it[1..n] /\ \A i \in 1..n : h[i] = step[i][h[i - 1]]
  BY <1>18 DEF Walks
<1>11. \A i \in 1..n : i - 1 \in 0..n
  BY <1>16
<1>12. \A i \in 1..n : h[i - 1] \in V
  BY <1>10, <1>11
<1>13. \A i \in 1..n : h[i] = NarrowPrefix(s, limit, h[i - 1])
  BY <1>3, <1>10, <1>12 DEF D
<1>14. LargestPrefix(s, limit) = h[n].low
  BY <1>7, <1>10 DEF D
<1>19. PrefixWalk(h, V, s, limit)
  BY <1>10, <1>13, <1>14 DEF n, base, PrefixWalk
<1> QED BY <1>19

\* ... and of _token_limited_tail.
TailWalk(h, V, s, limit) ==
  /\ h \in [0..Len(s) -> V]
  /\ h[0] = [low |-> 0, high |-> Len(s)]
  /\ TailStart(s, limit) = h[Len(s)].low
  /\ \A i \in 1..Len(s) : h[i] = NarrowTail(s, limit, h[i - 1])

LEMMA TailPath ==
  ASSUME NEW G, NEW s \in Seq(G), NEW limit, NEW V, [low |-> 0, high |-> Len(s)] \in V,
         \A v \in V, i \in 1..Len(s) : NarrowTail(s, limit, v) \in V
  PROVE  \E h : TailWalk(h, V, s, limit)
<1> DEFINE base == [low |-> 0, high |-> Len(s)]
           n == Len(s)
           D == 1..n
           step == [i \in D |-> [v \in V |-> NarrowTail(s, limit, v)]]
           it == CHOOSE it : it = [d \in SUBSET D |->
                   IF d = {} THEN base ELSE NarrowTail(s, limit, it[d \ {Max(d)}])]
<1>0. base \in V
  OBVIOUS
<1>1. DOMAIN s = D /\ n \in Nat
  OBVIOUS
<1>2. Steps(step, n, V)
  BY <1>1 DEF Steps
<1>3. \A i \in D, v \in V : step[i][v] = NarrowTail(s, limit, v)
  OBVIOUS
<1> HIDE DEF step, n, base
<1>4. PICK f : FoldsLeft(f, n, V, base, step)
  BY <1>0, <1>1, <1>2, FoldLeftExists
<1>5. f = [d \in SUBSET D |-> IF d = {} THEN base ELSE NarrowTail(s, limit, f[d \ {Max(d)}])]
  <2>1. \A d \in SUBSET D : f[d] = IF d = {} THEN base ELSE NarrowTail(s, limit, f[d \ {Max(d)}])
    BY <1>3, <1>4 DEF FoldsLeft
  <2> QED BY <1>4, <2>1 DEF FoldsLeft
<1>6. it = [d \in SUBSET D |-> IF d = {} THEN base ELSE NarrowTail(s, limit, it[d \ {Max(d)}])]
  BY <1>5, Zenon
<1>7. TailStart(s, limit) = it[D].low
  BY <1>1, Zenon DEF TailStart, FoldLeft, MapThenFoldSet, base, n
<1> HIDE DEF it
<1>8. it[{}] = base
  BY <1>6
<1>9. ASSUME NEW d \in SUBSET (1..n), d # {}, Max(d) \in 1..n, it[d \ {Max(d)}] \in V
      PROVE  it[d] = step[Max(d)][it[d \ {Max(d)}]]
  BY <1>1, <1>3, <1>6, <1>9
<1>15. \A d \in SUBSET (1..n) : d # {} /\ Max(d) \in 1..n /\ it[d \ {Max(d)}] \in V
         => it[d] = step[Max(d)][it[d \ {Max(d)}]]
  BY <1>9
<1> HIDE DEF D
<1>16. n \in Nat /\ base \in V
  BY <1>0, <1>1
<1>17. Recurs(it, n, V, base, step)
  BY <1>2, <1>8, <1>15, <1>16 DEF Recurs
<1>18. PICK h : Walks(h, n, V, base, step, it[1..n])
  BY <1>17, FoldPath
<1>10. h \in [0..n -> V] /\ h[0] = base /\ h[n] = it[1..n] /\ \A i \in 1..n : h[i] = step[i][h[i - 1]]
  BY <1>18 DEF Walks
<1>11. \A i \in 1..n : i - 1 \in 0..n
  BY <1>16
<1>12. \A i \in 1..n : h[i - 1] \in V
  BY <1>10, <1>11
<1>13. \A i \in 1..n : h[i] = NarrowTail(s, limit, h[i - 1])
  BY <1>3, <1>10, <1>12 DEF D
<1>14. TailStart(s, limit) = h[n].low
  BY <1>7, <1>10 DEF D
<1>19. TailWalk(h, V, s, limit)
  BY <1>10, <1>13, <1>14 DEF n, base, TailWalk
<1> QED BY <1>19

\* The loop of _hard_split.
HardWalk(h, V, s, limit) ==
  /\ h \in [0..Len(s) -> V]
  /\ h[0] = [pieces |-> <<>>, rest |-> s]
  /\ HardSplit(s, limit) = h[Len(s)].pieces
  /\ \A i \in 1..Len(s) : h[i] = CutPrefix(h[i - 1], limit)

LEMMA HardPath ==
  ASSUME NEW G, NEW s \in Seq(G), NEW limit, NEW V, [pieces |-> <<>>, rest |-> s] \in V,
         \A v \in V, i \in 1..Len(s) : CutPrefix(v, limit) \in V
  PROVE  \E h : HardWalk(h, V, s, limit)
<1> DEFINE base == [pieces |-> <<>>, rest |-> s]
           n == Len(s)
           D == 1..n
           step == [i \in D |-> [v \in V |-> CutPrefix(v, limit)]]
           it == CHOOSE it : it = [d \in SUBSET D |->
                   IF d = {} THEN base ELSE CutPrefix(it[d \ {Max(d)}], limit)]
<1>0. base \in V
  OBVIOUS
<1>1. DOMAIN s = D /\ n \in Nat
  OBVIOUS
<1>2. Steps(step, n, V)
  BY <1>1 DEF Steps
<1>3. \A i \in D, v \in V : step[i][v] = CutPrefix(v, limit)
  OBVIOUS
<1> HIDE DEF step, n, base
<1>4. PICK f : FoldsLeft(f, n, V, base, step)
  BY <1>0, <1>1, <1>2, FoldLeftExists
<1>5. f = [d \in SUBSET D |-> IF d = {} THEN base ELSE CutPrefix(f[d \ {Max(d)}], limit)]
  <2>1. \A d \in SUBSET D : f[d] = IF d = {} THEN base ELSE CutPrefix(f[d \ {Max(d)}], limit)
    BY <1>3, <1>4 DEF FoldsLeft
  <2> QED BY <1>4, <2>1 DEF FoldsLeft
<1>6. it = [d \in SUBSET D |-> IF d = {} THEN base ELSE CutPrefix(it[d \ {Max(d)}], limit)]
  BY <1>5, Zenon
<1>7. HardSplit(s, limit) = it[D].pieces
  BY <1>1, Zenon DEF HardSplit, FoldLeft, MapThenFoldSet, base, n
<1> HIDE DEF it
<1>8. it[{}] = base
  BY <1>6
<1>9. ASSUME NEW d \in SUBSET (1..n), d # {}, Max(d) \in 1..n, it[d \ {Max(d)}] \in V
      PROVE  it[d] = step[Max(d)][it[d \ {Max(d)}]]
  BY <1>1, <1>3, <1>6, <1>9
<1>15. \A d \in SUBSET (1..n) : d # {} /\ Max(d) \in 1..n /\ it[d \ {Max(d)}] \in V
         => it[d] = step[Max(d)][it[d \ {Max(d)}]]
  BY <1>9
<1> HIDE DEF D
<1>16. n \in Nat /\ base \in V
  BY <1>0, <1>1
<1>17. Recurs(it, n, V, base, step)
  BY <1>2, <1>8, <1>15, <1>16 DEF Recurs
<1>18. PICK h : Walks(h, n, V, base, step, it[1..n])
  BY <1>17, FoldPath
<1>10. h \in [0..n -> V] /\ h[0] = base /\ h[n] = it[1..n] /\ \A i \in 1..n : h[i] = step[i][h[i - 1]]
  BY <1>18 DEF Walks
<1>11. \A i \in 1..n : i - 1 \in 0..n
  BY <1>16
<1>12. \A i \in 1..n : h[i - 1] \in V
  BY <1>10, <1>11
<1>13. \A i \in 1..n : h[i] = CutPrefix(h[i - 1], limit)
  BY <1>3, <1>10, <1>12 DEF D
<1>14. HardSplit(s, limit) = h[n].pieces
  BY <1>7, <1>10 DEF D
<1>19. HardWalk(h, V, s, limit)
  BY <1>10, <1>13, <1>14 DEF n, base, HardWalk
<1> QED BY <1>19

\* The parts of a text, in one sequence.
PartsWalk(h, V, parts, more) ==
  /\ h \in [0..Len(more) -> V]
  /\ h[0] = parts
  /\ Extend(parts, more) = h[Len(more)]
  /\ \A i \in 1..Len(more) : h[i] = AddPart(h[i - 1], more[i])

LEMMA PartsPath ==
  ASSUME NEW G, NEW more \in Seq(G), NEW parts, NEW V, parts \in V,
         \A v \in V, i \in 1..Len(more) : AddPart(v, more[i]) \in V
  PROVE  \E h : PartsWalk(h, V, parts, more)
<1> DEFINE base == parts
           n == Len(more)
           D == 1..n
           step == [i \in D |-> [v \in V |-> AddPart(v, more[i])]]
           it == CHOOSE it : it = [d \in SUBSET D |->
                   IF d = {} THEN base ELSE AddPart(it[d \ {Max(d)}], more[Max(d)])]
<1>0. base \in V
  OBVIOUS
<1>1. DOMAIN more = D /\ n \in Nat
  OBVIOUS
<1>2. Steps(step, n, V)
  BY <1>1 DEF Steps
<1>3. \A i \in D, v \in V : step[i][v] = AddPart(v, more[i])
  OBVIOUS
<1> HIDE DEF step, n, base
<1>4. PICK f : FoldsLeft(f, n, V, base, step)
  BY <1>0, <1>1, <1>2, FoldLeftExists
<1>5. f = [d \in SUBSET D |-> IF d = {} THEN base ELSE AddPart(f[d \ {Max(d)}], more[Max(d)])]
  <2>1. \A d \in SUBSET D : f[d] = IF d = {} THEN base ELSE AddPart(f[d \ {Max(d)}], more[Max(d)])
    BY <1>3, <1>4 DEF FoldsLeft
  <2> QED BY <1>4, <2>1 DEF FoldsLeft
<1>6. it = [d \in SUBSET D |-> IF d = {} THEN base ELSE AddPart(it[d \ {Max(d)}], more[Max(d)])]
  BY <1>5, Zenon
<1>7. Extend(parts, more) = it[D]
  BY <1>1, Zenon DEF Extend, FoldLeft, MapThenFoldSet, base, n
<1> HIDE DEF it
<1>8. it[{}] = base
  BY <1>6
<1>9. ASSUME NEW d \in SUBSET (1..n), d # {}, Max(d) \in 1..n, it[d \ {Max(d)}] \in V
      PROVE  it[d] = step[Max(d)][it[d \ {Max(d)}]]
  BY <1>1, <1>3, <1>6, <1>9
<1>15. \A d \in SUBSET (1..n) : d # {} /\ Max(d) \in 1..n /\ it[d \ {Max(d)}] \in V
         => it[d] = step[Max(d)][it[d \ {Max(d)}]]
  BY <1>9
<1> HIDE DEF D
<1>16. n \in Nat /\ base \in V
  BY <1>0, <1>1
<1>17. Recurs(it, n, V, base, step)
  BY <1>2, <1>8, <1>15, <1>16 DEF Recurs
<1>18. PICK h : Walks(h, n, V, base, step, it[1..n])
  BY <1>17, FoldPath
<1>10. h \in [0..n -> V] /\ h[0] = base /\ h[n] = it[1..n] /\ \A i \in 1..n : h[i] = step[i][h[i - 1]]
  BY <1>18 DEF Walks
<1>11. \A i \in 1..n : i - 1 \in 0..n
  BY <1>16
<1>12. \A i \in 1..n : h[i - 1] \in V
  BY <1>10, <1>11
<1>13. \A i \in 1..n : h[i] = AddPart(h[i - 1], more[i])
  BY <1>3, <1>10, <1>12 DEF D
<1>14. Extend(parts, more) = h[n]
  BY <1>7, <1>10 DEF D
<1>19. PartsWalk(h, V, parts, more)
  BY <1>10, <1>13, <1>14 DEF n, base, PartsWalk
<1> QED BY <1>19

\* The parts of all its pieces.
FlatWalk(h, V, split) ==
  /\ h \in [0..Len(split) -> V]
  /\ h[0] = <<>>
  /\ Flat(split) = h[Len(split)]
  /\ \A i \in 1..Len(split) : h[i] = Extend(h[i - 1], split[i])

LEMMA FlatPath ==
  ASSUME NEW G, NEW split \in Seq(G), NEW V, <<>> \in V,
         \A v \in V, i \in 1..Len(split) : Extend(v, split[i]) \in V
  PROVE  \E h : FlatWalk(h, V, split)
<1> DEFINE base == <<>>
           n == Len(split)
           D == 1..n
           step == [i \in D |-> [v \in V |-> Extend(v, split[i])]]
           it == CHOOSE it : it = [d \in SUBSET D |->
                   IF d = {} THEN base ELSE Extend(it[d \ {Max(d)}], split[Max(d)])]
<1>0. base \in V
  OBVIOUS
<1>1. DOMAIN split = D /\ n \in Nat
  OBVIOUS
<1>2. Steps(step, n, V)
  BY <1>1 DEF Steps
<1>3. \A i \in D, v \in V : step[i][v] = Extend(v, split[i])
  OBVIOUS
<1> HIDE DEF step, n, base
<1>4. PICK f : FoldsLeft(f, n, V, base, step)
  BY <1>0, <1>1, <1>2, FoldLeftExists
<1>5. f = [d \in SUBSET D |-> IF d = {} THEN base ELSE Extend(f[d \ {Max(d)}], split[Max(d)])]
  <2>1. \A d \in SUBSET D : f[d] = IF d = {} THEN base ELSE Extend(f[d \ {Max(d)}], split[Max(d)])
    BY <1>3, <1>4 DEF FoldsLeft
  <2> QED BY <1>4, <2>1 DEF FoldsLeft
<1>6. it = [d \in SUBSET D |-> IF d = {} THEN base ELSE Extend(it[d \ {Max(d)}], split[Max(d)])]
  BY <1>5, Zenon
<1>7. Flat(split) = it[D]
  BY <1>1, Zenon DEF Flat, FoldLeft, MapThenFoldSet, base, n
<1> HIDE DEF it
<1>8. it[{}] = base
  BY <1>6
<1>9. ASSUME NEW d \in SUBSET (1..n), d # {}, Max(d) \in 1..n, it[d \ {Max(d)}] \in V
      PROVE  it[d] = step[Max(d)][it[d \ {Max(d)}]]
  BY <1>1, <1>3, <1>6, <1>9
<1>15. \A d \in SUBSET (1..n) : d # {} /\ Max(d) \in 1..n /\ it[d \ {Max(d)}] \in V
         => it[d] = step[Max(d)][it[d \ {Max(d)}]]
  BY <1>9
<1> HIDE DEF D
<1>16. n \in Nat /\ base \in V
  BY <1>0, <1>1
<1>17. Recurs(it, n, V, base, step)
  BY <1>2, <1>8, <1>15, <1>16 DEF Recurs
<1>18. PICK h : Walks(h, n, V, base, step, it[1..n])
  BY <1>17, FoldPath
<1>10. h \in [0..n -> V] /\ h[0] = base /\ h[n] = it[1..n] /\ \A i \in 1..n : h[i] = step[i][h[i - 1]]
  BY <1>18 DEF Walks
<1>11. \A i \in 1..n : i - 1 \in 0..n
  BY <1>16
<1>12. \A i \in 1..n : h[i - 1] \in V
  BY <1>10, <1>11
<1>13. \A i \in 1..n : h[i] = Extend(h[i - 1], split[i])
  BY <1>3, <1>10, <1>12 DEF D
<1>14. Flat(split) = h[n]
  BY <1>7, <1>10 DEF D
<1>19. FlatWalk(h, V, split)
  BY <1>10, <1>13, <1>14 DEF n, base, FlatWalk
<1> QED BY <1>19

\* The loop of split.
ChunksWalk(h, V, text, pieces, limit, overlap) ==
  /\ h \in [0..Len(pieces) -> V]
  /\ h[0] = [chunks |-> <<>>, current |-> <<>>]
  /\ Split(text, limit, overlap) = Append(h[Len(pieces)].chunks, h[Len(pieces)].current)
  /\ \A i \in 1..Len(pieces) : h[i] = AddPiece(h[i - 1], pieces[i], limit, overlap)

LEMMA ChunksPath ==
  ASSUME NEW G, NEW text, NEW limit, NEW overlap, Strip(text) # <<>>,
         NEW pieces \in Seq(G), pieces = SplitToLimit(Strip(text), limit),
         NEW V, [chunks |-> <<>>, current |-> <<>>] \in V,
         \A v \in V, i \in 1..Len(pieces) : AddPiece(v, pieces[i], limit, overlap) \in V
  PROVE  \E h : ChunksWalk(h, V, text, pieces, limit, overlap)
<1> DEFINE base == [chunks |-> <<>>, current |-> <<>>]
           n == Len(pieces)
           D == 1..n
           step == [i \in D |-> [v \in V |-> AddPiece(v, pieces[i], limit, overlap)]]
           it == CHOOSE it : it = [d \in SUBSET D |->
                   IF d = {} THEN base ELSE AddPiece(it[d \ {Max(d)}], pieces[Max(d)], limit, overlap)]
<1>0. base \in V
  OBVIOUS
<1>1. DOMAIN pieces = D /\ n \in Nat
  OBVIOUS
<1>2. Steps(step, n, V)
  BY <1>1 DEF Steps
<1>3. \A i \in D, v \in V : step[i][v] = AddPiece(v, pieces[i], limit, overlap)
  OBVIOUS
<1> HIDE DEF step, n, base
<1>4. PICK f : FoldsLeft(f, n, V, base, step)
  BY <1>0, <1>1, <1>2, FoldLeftExists
<1>5. f = [d \in SUBSET D |-> IF d = {} THEN base ELSE AddPiece(f[d \ {Max(d)}], pieces[Max(d)], limit, overlap)]
  <2>1. \A d \in SUBSET D : f[d] = IF d = {} THEN base ELSE AddPiece(f[d \ {Max(d)}], pieces[Max(d)], limit, overlap)
    BY <1>3, <1>4 DEF FoldsLeft
  <2> QED BY <1>4, <2>1 DEF FoldsLeft
<1>6. it = [d \in SUBSET D |-> IF d = {} THEN base ELSE AddPiece(it[d \ {Max(d)}], pieces[Max(d)], limit, overlap)]
  BY <1>5, Zenon
<1>7. Split(text, limit, overlap) = Append(it[D].chunks, it[D].current)
  BY <1>1, Zenon DEF Split, FoldLeft, MapThenFoldSet, base, n
<1> HIDE DEF it
<1>8. it[{}] = base
  BY <1>6
<1>9. ASSUME NEW d \in SUBSET (1..n), d # {}, Max(d) \in 1..n, it[d \ {Max(d)}] \in V
      PROVE  it[d] = step[Max(d)][it[d \ {Max(d)}]]
  BY <1>1, <1>3, <1>6, <1>9
<1>15. \A d \in SUBSET (1..n) : d # {} /\ Max(d) \in 1..n /\ it[d \ {Max(d)}] \in V
         => it[d] = step[Max(d)][it[d \ {Max(d)}]]
  BY <1>9
<1> HIDE DEF D
<1>16. n \in Nat /\ base \in V
  BY <1>0, <1>1
<1>17. Recurs(it, n, V, base, step)
  BY <1>2, <1>8, <1>15, <1>16 DEF Recurs
<1>18. PICK h : Walks(h, n, V, base, step, it[1..n])
  BY <1>17, FoldPath
<1>10. h \in [0..n -> V] /\ h[0] = base /\ h[n] = it[1..n] /\ \A i \in 1..n : h[i] = step[i][h[i - 1]]
  BY <1>18 DEF Walks
<1>11. \A i \in 1..n : i - 1 \in 0..n
  BY <1>16
<1>12. \A i \in 1..n : h[i - 1] \in V
  BY <1>10, <1>11
<1>13. \A i \in 1..n : h[i] = AddPiece(h[i - 1], pieces[i], limit, overlap)
  BY <1>3, <1>10, <1>12 DEF D
<1>14. Split(text, limit, overlap) = Append(h[n].chunks, h[n].current)
  BY <1>7, <1>10 DEF D
<1>19. ChunksWalk(h, V, text, pieces, limit, overlap)
  BY <1>10, <1>13, <1>14 DEF n, base, ChunksWalk
<1> QED BY <1>19

-----------------------------------------------------------------------------
(* Chunks fit.                                                             *)

\* The texts of glyphs in G that are within the limit.
Short(G, limit) == {t \in Seq(G) : Tokens(t) <= limit}

LEMMA PrefixFits ==
  ASSUME NEW G, NEW s \in Seq(G), NEW limit \in Nat, SpecialTokens <= limit
  PROVE  /\ LargestPrefix(s, limit) \in 0..Len(s)
         /\ SubSeq(s, 1, LargestPrefix(s, limit)) \in Short(G, limit)
<1> DEFINE n == Len(s)
           V == {range \in [low : Nat, high : Nat] :
                   /\ range.low <= range.high /\ range.high <= n
                   /\ Tokens(SubSeq(s, 1, range.low)) <= limit}
           base == [low |-> 0, high |-> n]
<1>1. n \in Nat
  OBVIOUS
<1>2. base \in V
  <2>1. SubSeq(s, 1, 0) = <<>>
    OBVIOUS
  <2>2. Tokens(SubSeq(s, 1, 0)) <= limit
    BY <2>1, NothingHasNoTokens
  <2> HIDE DEF n
  <2> QED BY <1>1, <2>2
<1>3. ASSUME NEW range \in V PROVE NarrowPrefix(s, limit, range) \in V
  <2> DEFINE middle == (range.low + range.high + 1) \div 2
             fits == Tokens(SubSeq(s, 1, middle)) <= limit
  <2>1. range \in [low : Nat, high : Nat] /\ range.low <= range.high /\ range.high <= n
    OBVIOUS
  <2>2. NarrowPrefix(s, limit, range) =
          IF range.low >= range.high THEN range
          ELSE IF fits THEN [range EXCEPT !.low = middle]
          ELSE [range EXCEPT !.high = middle - 1]
    BY DEF NarrowPrefix
  <2>3. CASE range.low >= range.high
    BY <2>2, <2>3
  <2>4. CASE range.low < range.high
    <3>1. middle \in Nat /\ range.low < middle /\ middle <= range.high
      BY <2>1, <2>4
    <3>2. ~(range.low >= range.high)
      BY <2>1, <2>4
    <3> HIDE DEF n, middle
    <3>3. CASE fits
      <4>1. NarrowPrefix(s, limit, range) = [low |-> middle, high |-> range.high]
        BY <2>1, <2>2, <3>2, <3>3
      <4> QED BY <1>1, <2>1, <3>1, <3>3, <4>1
    <3>4. CASE ~fits
      <4>1. NarrowPrefix(s, limit, range) = [low |-> range.low, high |-> middle - 1]
        BY <2>1, <2>2, <3>2, <3>4
      <4> QED BY <1>1, <2>1, <3>1, <4>1
    <3> QED BY <3>3, <3>4
  <2> QED BY <2>1, <2>3, <2>4
<1> HIDE DEF V
<1>8. PICK h : PrefixWalk(h, V, s, limit)
  BY <1>2, <1>3, PrefixPath
<1>4. PICK done \in V : LargestPrefix(s, limit) = done.low
  BY <1>1, <1>8 DEF PrefixWalk
<1> HIDE DEF n
<1> DEFINE e == done.low
<1>5. e \in Nat /\ e <= n /\ Tokens(SubSeq(s, 1, e)) <= limit
  BY <1>1, <1>4 DEF V
<1>6. LargestPrefix(s, limit) = e
  BY <1>4
<1> HIDE DEF e
<1>7. SubSeq(s, 1, e) \in Seq(G)
  BY <1>1, <1>5, SubText DEF n
<1> QED BY <1>1, <1>5, <1>6, <1>7 DEF n, Short

LEMMA TailIsText ==
  ASSUME NEW G, NEW s \in Seq(G), NEW limit
  PROVE  /\ TailStart(s, limit) \in 0..Len(s)
         /\ TokenLimitedTail(s, limit) \in Seq(G)
<1> DEFINE n == Len(s)
           V == {range \in [low : Nat, high : Nat] : range.low <= range.high /\ range.high <= n}
           base == [low |-> 0, high |-> n]
<1>1. n \in Nat
  OBVIOUS
<1> HIDE DEF n
<1>2. base \in V
  BY <1>1
<1>3. ASSUME NEW range \in V PROVE NarrowTail(s, limit, range) \in V
  <2> DEFINE middle == (range.low + range.high) \div 2
             fits == Tokens(SubSeq(s, middle + 1, Len(s))) <= limit
  <2>1. range \in [low : Nat, high : Nat] /\ range.low <= range.high /\ range.high <= n
    OBVIOUS
  <2>2. NarrowTail(s, limit, range) =
          IF range.low >= range.high THEN range
          ELSE IF fits THEN [range EXCEPT !.high = middle]
          ELSE [range EXCEPT !.low = middle + 1]
    BY DEF NarrowTail
  <2> HIDE DEF fits
  <2>3. CASE range.low >= range.high
    BY <2>2, <2>3
  <2>4. CASE range.low < range.high
    <3>1. middle \in Nat /\ range.low <= middle /\ middle < range.high
      BY <2>1, <2>4
    <3>2. ~(range.low >= range.high)
      BY <2>1, <2>4
    <3> HIDE DEF middle
    <3>3. CASE fits
      <4>1. NarrowTail(s, limit, range) = [low |-> range.low, high |-> middle]
        BY <2>1, <2>2, <3>2, <3>3
      <4> QED BY <1>1, <2>1, <3>1, <4>1
    <3>4. CASE ~fits
      <4>1. NarrowTail(s, limit, range) = [low |-> middle + 1, high |-> range.high]
        BY <2>1, <2>2, <3>2, <3>4
      <4> QED BY <1>1, <2>1, <3>1, <4>1
    <3> QED BY <3>3, <3>4
  <2> QED BY <2>1, <2>3, <2>4
<1> HIDE DEF V
<1>10. PICK h : TailWalk(h, V, s, limit)
  BY <1>2, <1>3, TailPath DEF n
<1>4. PICK done \in V : TailStart(s, limit) = done.low
  BY <1>1, <1>10 DEF TailWalk, n
<1> DEFINE a == done.low
<1>5. a \in Nat /\ a <= n
  BY <1>1, <1>4 DEF V
<1>6. TailStart(s, limit) = a
  BY <1>4
<1> HIDE DEF a
<1>7. SubSeq(s, a + 1, Len(s)) \in Seq(G)
  BY <1>1, <1>5, SubText DEF n
<1>8. Strip(SubSeq(s, a + 1, Len(s))) \in Seq(G)
  BY <1>7, StripKeepsTokens
<1>9. TokenLimitedTail(s, limit) \in Seq(G)
  BY <1>6, <1>8 DEF TokenLimitedTail
<1> QED BY <1>1, <1>5, <1>6, <1>9 DEF n

LEMMA HardSplitFits ==
  ASSUME NEW G, NEW s \in Seq(G), NEW limit \in Nat, SpecialTokens <= limit
  PROVE  HardSplit(s, limit) \in Seq(Short(G, limit))
<1> DEFINE F == Short(G, limit)
           T == Seq(G)
           V == [pieces : Seq(F), rest : T]
           base == [pieces |-> <<>>, rest |-> s]
<1>1. base \in V
  OBVIOUS
<1>2. ASSUME NEW state \in V PROVE CutPrefix(state, limit) \in V
  <2> DEFINE rest == state.rest
             end == LargestPrefix(rest, limit)
             x == SubSeq(rest, 1, end)
             y == SubSeq(rest, end + 1, Len(rest))
  <2>1. rest \in Seq(G) /\ state.pieces \in Seq(F)
    OBVIOUS
  <2> HIDE DEF rest, F
  <2>2. end \in 0..Len(rest) /\ x \in Short(G, limit)
    BY <2>1, PrefixFits
  <2>3. Len(rest) \in Nat
    BY <2>1
  <2> HIDE DEF end
  <2>4. y \in Seq(G)
    BY <2>1, <2>2, <2>3, SubText
  <2> HIDE DEF x, y
  <2>5. Strip(x) \in F /\ Strip(y) \in T
    BY <2>2, <2>4, StripKeepsTokens DEF Short, F
  <2> HIDE DEF T
  <2>6. Append(state.pieces, Strip(x)) \in Seq(F)
    BY <2>1, <2>5
  <2>7. CutPrefix(state, limit) = IF rest = <<>> THEN state
          ELSE [pieces |-> Append(state.pieces, Strip(x)), rest |-> Strip(y)]
    BY DEF CutPrefix, rest, end, x, y
  <2> QED BY <2>5, <2>6, <2>7
<1> HIDE DEF V
<1>3. PICK h : HardWalk(h, V, s, limit)
  BY <1>1, <1>2, HardPath
<1>4. PICK done \in V : HardSplit(s, limit) = done.pieces
  <2>1. Len(s) \in 0..Len(s)
    OBVIOUS
  <2> QED BY <1>3, <2>1 DEF HardWalk
<1> QED BY <1>4 DEF V

LEMMA PartsAreTexts ==
  ASSUME NEW G, NEW s \in Seq(G), NEW separator
  PROVE  Parts(s, separator) \in Seq(Seq(G))
<1> DEFINE T == Seq(G)
           V == {pieces \in Seq(T) : Len(pieces) > 0}
           done == PiecesAt(s, separator)
<1>1. << <<>> >> \in V
  <2>1. <<>> \in T
    OBVIOUS
  <2> HIDE DEF T
  <2> QED BY <2>1
<1>3. ASSUME NEW pieces \in V, NEW i \in DOMAIN s PROVE CutAt(s, separator, pieces, i) \in V
  <2>1. << s[i] >> \in T
    OBVIOUS
  <2>2. pieces \in Seq(T) /\ Len(pieces) \in Nat /\ Len(pieces) > 0
    OBVIOUS
  <2> DEFINE last == pieces[Len(pieces)]
  <2>3. last \in T
    BY <2>2
  <2> HIDE DEF last
  <2>4. Append(last, s[i]) \in T
    BY <2>3
  <2> HIDE DEF T
  <2>5. Append(pieces, << s[i] >>) \in V
    BY <2>1, <2>2
  <2>6. [pieces EXCEPT ![Len(pieces)] = Append(last, s[i])] \in V
    BY <2>2, <2>4
  <2>7. CutAt(s, separator, pieces, i) \in
          {Append(pieces, << s[i] >>), [pieces EXCEPT ![Len(pieces)] = Append(last, s[i])]}
    BY DEF CutAt, last
  <2> QED BY <2>5, <2>6, <2>7
<1> HIDE DEF V
<1>4. PICK h : CutsWalk(h, V, s, separator)
  <2>1. DOMAIN s = 1..Len(s)
    OBVIOUS
  <2> QED BY <1>1, <1>3, <2>1, CutsPath
<1>6. done \in V
  <2>1. Len(s) \in 0..Len(s)
    OBVIOUS
  <2> QED BY <1>4, <2>1 DEF CutsWalk
<1> DEFINE m == Len(done)
<1>7. done \in Seq(T) /\ m \in Nat /\ DOMAIN done = 1..m
  BY <1>6 DEF V
<1> HIDE DEF m, done
<1>8. \A k \in 1..m : Strip(done[k]) \in T
  <2>1. \A k \in 1..m : done[k] \in T
    BY <1>7
  <2> QED BY <2>1, StripKeepsTokens
<1>9. Parts(s, separator) = [k \in 1..m |-> Strip(done[k])]
  BY <1>7 DEF Parts, done
<1> HIDE DEF T
<1>10. [k \in 1..m |-> Strip(done[k])] \in Seq(T)
  BY <1>7, <1>8
<1> QED BY <1>9, <1>10 DEF T

LEMMA FlatKeeps ==
  ASSUME NEW S, NEW split \in Seq(Seq(S))
  PROVE  Flat(split) \in Seq(S)
<1> DEFINE V == Seq(S)
<1>1. ASSUME NEW parts \in V, NEW part \in S PROVE AddPart(parts, part) \in V
  BY DEF AddPart
<1>2. ASSUME NEW parts \in V, NEW more \in V PROVE Extend(parts, more) \in V
  <2>1. \A v \in V, i \in 1..Len(more) : AddPart(v, more[i]) \in V
    <3>1. \A i \in 1..Len(more) : more[i] \in S
      OBVIOUS
    <3> HIDE DEF V
    <3> QED BY <1>1, <3>1
  <2>2. more \in Seq(S) /\ Len(more) \in 0..Len(more)
    OBVIOUS
  <2> HIDE DEF V
  <2>3. PICK h : PartsWalk(h, V, parts, more)
    BY <1>2, <2>1, <2>2, PartsPath
  <2> QED BY <2>2, <2>3 DEF PartsWalk
<1>3. (\A i \in 1..Len(split) : split[i] \in V) /\ Len(split) \in 0..Len(split)
  OBVIOUS
<1>4. <<>> \in V /\ split \in Seq(V)
  OBVIOUS
<1> HIDE DEF V
<1>5. \A v \in V, i \in 1..Len(split) : Extend(v, split[i]) \in V
  BY <1>2, <1>3
<1>6. PICK h : FlatWalk(h, V, split)
  BY <1>4, <1>5, FlatPath
<1>7. Flat(split) \in V
  BY <1>3, <1>6 DEF FlatWalk
<1> QED BY <1>7 DEF V

LEMMA SplitFits ==
  ASSUME NEW G, NEW s \in Seq(G), NEW limit \in Nat, SpecialTokens <= limit
  PROVE  SplitToLimit(s, limit) \in Seq(Short(G, limit))
<1> DEFINE T == Seq(G)
           F == Short(G, limit)
<1>1. ASSUME NEW t \in T, Tokens(t) <= limit PROVE <<t>> \in Seq(F)
  <2>1. t \in F
    BY <1>1 DEF Short
  <2> HIDE DEF F
  <2> QED BY <2>1
<1>2. ASSUME NEW t \in T PROVE SplitHard(t, limit) \in Seq(F)
  <2>1. HardSplit(t, limit) \in Seq(F)
    BY HardSplitFits
  <2> HIDE DEF F, T
  <2> QED BY <1>1, <2>1 DEF SplitHard
<1>3. ASSUME NEW t \in T PROVE SplitAtBreaks(t, limit) \in Seq(F)
  <2> DEFINE parts == Parts(t, "n")
             split == [k \in DOMAIN parts |-> SplitHard(parts[k], limit)]
             n == Len(parts)
  <2>1. parts \in Seq(T)
    BY PartsAreTexts
  <2> HIDE DEF parts, F, T
  <2>2. n \in Nat /\ DOMAIN parts = 1..n /\ \A k \in 1..n : parts[k] \in T
    BY <2>1
  <2>3. \A k \in 1..n : SplitHard(parts[k], limit) \in Seq(F)
    BY <1>2, <2>2
  <2>4. split \in Seq(Seq(F))
    <3> DEFINE S == Seq(F)
    <3> HIDE DEF S, n
    <3>1. \A k \in 1..n : SplitHard(parts[k], limit) \in S
      BY <2>3 DEF S
    <3>2. split \in Seq(S)
      BY <2>2, <3>1
    <3> QED BY <3>2 DEF S
  <2> HIDE DEF split
  <2>5. Flat(split) \in Seq(F)
    BY <2>4, FlatKeeps
  <2> QED BY <1>1, <2>5 DEF SplitAtBreaks, parts, split
<1>4. ASSUME NEW t \in T PROVE SplitAtSentences(t, limit) \in Seq(F)
  <2> DEFINE parts == Parts(t, ".")
             split == [k \in DOMAIN parts |-> SplitAtBreaks(parts[k], limit)]
             n == Len(parts)
  <2>1. parts \in Seq(T)
    BY PartsAreTexts
  <2> HIDE DEF parts, F, T
  <2>2. n \in Nat /\ DOMAIN parts = 1..n /\ \A k \in 1..n : parts[k] \in T
    BY <2>1
  <2>3. \A k \in 1..n : SplitAtBreaks(parts[k], limit) \in Seq(F)
    BY <1>3, <2>2
  <2>4. split \in Seq(Seq(F))
    <3> DEFINE S == Seq(F)
    <3> HIDE DEF S, n
    <3>1. \A k \in 1..n : SplitAtBreaks(parts[k], limit) \in S
      BY <2>3 DEF S
    <3>2. split \in Seq(S)
      BY <2>2, <3>1
    <3> QED BY <3>2 DEF S
  <2> HIDE DEF split
  <2>5. Flat(split) \in Seq(F)
    BY <2>4, FlatKeeps
  <2> QED BY <1>1, <2>5 DEF SplitAtSentences, parts, split
<1> DEFINE parts == Parts(s, "#")
           split == [k \in DOMAIN parts |-> SplitAtSentences(parts[k], limit)]
           n == Len(parts)
<1>5. parts \in Seq(T)
  BY PartsAreTexts
<1>6. s \in T
  OBVIOUS
<1> HIDE DEF parts, F, T
<1>7. n \in Nat /\ DOMAIN parts = 1..n /\ \A k \in 1..n : parts[k] \in T
  BY <1>5
<1>8. \A k \in 1..n : SplitAtSentences(parts[k], limit) \in Seq(F)
  BY <1>4, <1>7
<1>9. split \in Seq(Seq(F))
  <2> DEFINE S == Seq(F)
  <2> HIDE DEF S, n
  <2>1. \A k \in 1..n : SplitAtSentences(parts[k], limit) \in S
    BY <1>8 DEF S
  <2>2. split \in Seq(S)
    BY <1>7, <2>1
  <2> QED BY <2>2 DEF S
<1> HIDE DEF split
<1>10. Flat(split) \in Seq(F)
  BY <1>9, FlatKeeps
<1> QED BY <1>1, <1>6, <1>10 DEF SplitToLimit, parts, split, F

LEMMA JoinIsText ==
  ASSUME NEW G, Break \in G, NEW s \in Seq(G), NEW t \in Seq(G)
  PROVE  Join(s, t) \in Seq(G) /\ (s = <<>> => Tokens(Join(s, t)) = Tokens(t))
<1>1. (s \o <<Break>>) \o t \in Seq(G)
  OBVIOUS
<1>2. Strip((s \o <<Break>>) \o t) \in Seq(G) /\ Strip(t) \in Seq(G) /\ Tokens(Strip(t)) = Tokens(t)
  BY <1>1, StripKeepsTokens
<1> QED BY <1>2 DEF Join

\* No chunk is longer than the limit, whatever is kept of the chunk before it.
LEMMA ChunksAreShort ==
  ASSUME NEW G, Break \in G, NEW s \in Seq(G), NEW limit \in Nat, SpecialTokens <= limit,
         NEW overlap
  PROVE  Split(s, limit, overlap) \in Seq(Short(G, limit))
<1> DEFINE F == Short(G, limit)
           V == [chunks : Seq(F), current : F]
           pieces == SplitToLimit(Strip(s), limit)
           base == [chunks |-> <<>>, current |-> <<>>]
<1>1. pieces \in Seq(F)
  BY StripKeepsTokens, SplitFits
<1>2. base \in V
  <2>1. <<>> \in F
    BY NothingHasNoTokens DEF Short
  <2> HIDE DEF F
  <2> QED BY <2>1
<1>3. ASSUME NEW state \in V, NEW piece \in F PROVE AddPiece(state, piece, limit, overlap) \in V
  <2> DEFINE c == state.current
             candidate == Join(c, piece)
             tail == TokenLimitedTail(c, overlap)
             next == Join(tail, piece)
  <2>1. c \in F /\ state.chunks \in Seq(F) /\ state = [chunks |-> state.chunks, current |-> c]
    OBVIOUS
  <2>2. /\ c \in Seq(G) /\ piece \in Seq(G) /\ Tokens(c) <= limit /\ Tokens(piece) <= limit
    BY <2>1 DEF Short
  <2> HIDE DEF c
  <2>3. candidate \in Seq(G) /\ (c = <<>> => Tokens(candidate) = Tokens(piece))
    BY <2>2, JoinIsText
  <2>4. tail \in Seq(G)
    BY <2>2, TailIsText
  <2> HIDE DEF candidate, tail
  <2>5. next \in Seq(G)
    BY <2>2, <2>4, JoinIsText
  <2> HIDE DEF next
  <2>6. Tokens(candidate) \in Nat
    BY <2>3, TokensAreNatural
  <2>7. AddPiece(state, piece, limit, overlap) =
          IF c # <<>> /\ Tokens(candidate) > limit
          THEN [chunks |-> Append(state.chunks, c),
                current |-> IF Tokens(next) <= limit THEN next ELSE piece]
          ELSE [state EXCEPT !.current = candidate]
    BY DEF AddPiece, c, candidate, tail, next
  <2>8. CASE c # <<>> /\ Tokens(candidate) > limit
    <3> DEFINE y == IF Tokens(next) <= limit THEN next ELSE piece
    <3>1. y \in F
      BY <2>5 DEF Short
    <3> HIDE DEF F, y
    <3>2. Append(state.chunks, c) \in Seq(F)
      BY <2>1
    <3> QED BY <2>7, <2>8, <3>1, <3>2 DEF y
  <2>9. CASE ~(c # <<>> /\ Tokens(candidate) > limit)
    <3>1. Tokens(candidate) <= limit
      BY <2>2, <2>3, <2>6, <2>9
    <3>2. candidate \in F
      BY <2>3, <3>1 DEF Short
    <3>3. [state EXCEPT !.current = candidate] = [chunks |-> state.chunks, current |-> candidate]
      BY <2>1
    <3> HIDE DEF F
    <3> QED BY <2>1, <2>7, <2>9, <3>2, <3>3
  <2> QED BY <2>8, <2>9
<1> HIDE DEF F, V, pieces, base
<1>4. \A v \in V, i \in 1..Len(pieces) : AddPiece(v, pieces[i], limit, overlap) \in V
  <2>1. \A i \in 1..Len(pieces) : pieces[i] \in F
    BY <1>1
  <2> QED BY <1>3, <2>1
<1>5. CASE Strip(s) = <<>>
  BY <1>5 DEF Split
<1>6. CASE Strip(s) # <<>>
  <2>3. PICK h : ChunksWalk(h, V, s, pieces, limit, overlap)
    BY <1>1, <1>2, <1>4, <1>6, ChunksPath DEF pieces, base
  <2>1. PICK done \in V : Split(s, limit, overlap) = Append(done.chunks, done.current)
    <3>1. Len(pieces) \in 0..Len(pieces)
      BY <1>1
    <3> QED BY <2>3, <3>1 DEF ChunksWalk
  <2>2. Append(done.chunks, done.current) \in Seq(F)
    BY DEF V
  <2> QED BY <2>1, <2>2 DEF F
<1> QED BY <1>5, <1>6

-----------------------------------------------------------------------------
(* Where the ink of a text is.                                             *)

\* The texts whose glyphs have places.
Sited(G) == \A x \in G : x.place \in Nat

InkAt(t, p) == \E i \in 1..Len(t) : t[i].class # "n" /\ t[i].place = p

Ordered(t) == \A i, j \in 1..Len(t) :
  i < j /\ t[i].class # "n" /\ t[j].class # "n" => t[i].place < t[j].place

LiesBefore(t, u) == \A p, q \in Nat : InkAt(t, p) /\ InkAt(u, q) => p < q

Trimmed(t) == Len(t) > 0 => t[1].class # "n" /\ t[Len(t)].class # "n"

\* What str.strip leaves.
LEMMA StripInk ==
  ASSUME NEW G, NEW s \in Seq(G)
  PROVE  LET t == Strip(s) IN
         /\ t \in Seq(G) /\ Trimmed(t) /\ Len(t) <= Len(s)
         /\ \A p : InkAt(t, p) <=> InkAt(s, p)
         /\ Ordered(s) => Ordered(t)
<1> DEFINE t == Strip(s)
           n == Len(t)
           m == Len(s)
<1>1. t \in Seq(G)
  BY StripTrims
<1>2. PICK o : Trims(t, s, o)
  BY StripTrims
<1>3. Trimmed(t)
  <2>1. /\ DOMAIN s = 1..Len(s) /\ Len(s) \in Nat /\ IsFiniteSet(DOMAIN s) /\ DOMAIN s \subseteq Nat
    BY SequencePlaces
  <2>2. CASE Inked(s) = {}
    <3>1. t = <<>>
      BY <2>2 DEF Strip
    <3> QED BY <3>1 DEF Trimmed
  <2>3. CASE Inked(s) # {}
    <3> DEFINE I == Inked(s)
               a == Min(I)
               b == Max(I)
    <3>1. I \in SUBSET Nat /\ IsFiniteSet(I) /\ I \in SUBSET (1..Len(s))
      BY <2>1, FS_Subset DEF Inked
    <3>2. \A i \in I : s[i].class # "n"
      BY DEF Inked
    <3> HIDE DEF I
    <3>3. a \in I /\ b \in I /\ \A i \in I : a <= i /\ i <= b
      BY <2>3, <3>1, MinIsLeast, MaxIsGreatest DEF I
    <3>4. t = SubSeq(s, a, b)
      BY <2>3 DEF Strip, a, b, I
    <3> HIDE DEF a, b, t, n
    <3>5. a \in Nat /\ b \in Nat /\ a >= 1 /\ b <= Len(s) /\ a <= b
      BY <3>1, <3>3
    <3>6. Len(t) = b - a + 1 /\ \A i \in 1..(b - a + 1) : t[i] = s[i + (a - 1)]
      <4>1. a <= b + 1
        BY <3>5
      <4> QED BY <3>4, <3>5, <4>1, SubText
    <3> DEFINE l == b - a + 1
    <3>7. 1 \in 1..l /\ l \in 1..l /\ 1 + (a - 1) = a /\ l + (a - 1) = b
      BY <3>5
    <3>8. t[1] = s[a] /\ t[l] = s[b] /\ Len(t) = l
      <4> HIDE DEF l
      <4>1. t[1] = s[1 + (a - 1)] /\ t[l] = s[l + (a - 1)]
        BY <3>6, <3>7 DEF l
      <4> QED BY <3>6, <3>7, <4>1 DEF l
    <3> QED BY <3>2, <3>3, <3>8 DEF Trimmed
  <2> QED BY <2>2, <2>3
<1> HIDE DEF t
<1>4. /\ o \in Nat /\ n \in Nat /\ m \in Nat /\ o + n <= m /\ \A i \in 1..n : t[i] = s[i + o]
      /\ \A i \in 1..m : i <= o \/ i > o + n => s[i].class = "n"
  BY <1>2 DEF Trims
<1> HIDE DEF n, m
<1>5. n <= m
  BY <1>4
<1>6. ASSUME NEW p, NEW i \in 1..n, t[i].class # "n", t[i].place = p
      PROVE  \E j \in 1..m : s[j].class # "n" /\ s[j].place = p
  <2>1. i + o \in 1..m
    BY <1>4
  <2> QED BY <1>4, <1>6, <2>1
<1>7. ASSUME NEW p, NEW i \in 1..m, s[i].class # "n", s[i].place = p
      PROVE  \E j \in 1..n : t[j].class # "n" /\ t[j].place = p
  <2> DEFINE j == i - o
  <2>1. ~(i <= o \/ i > o + n)
    BY <1>4, <1>7
  <2>2. j \in 1..n /\ j + o = i
    BY <1>4, <2>1
  <2> HIDE DEF j
  <2>3. t[j] = s[i]
    BY <1>4, <2>2
  <2> QED BY <1>7, <2>2, <2>3
<1>8. ASSUME Ordered(s) PROVE Ordered(t)
  <2> SUFFICES ASSUME NEW i \in 1..n, NEW j \in 1..n, i < j, t[i].class # "n", t[j].class # "n"
               PROVE  t[i].place < t[j].place
    BY DEF Ordered, n
  <2>1. i + o \in 1..m /\ j + o \in 1..m /\ i + o < j + o
    BY <1>4
  <2>2. t[i] = s[i + o] /\ t[j] = s[j + o]
    BY <1>4
  <2> QED BY <1>8, <2>1, <2>2 DEF Ordered, m
<1> QED BY <1>1, <1>3, <1>5, <1>6, <1>7, <1>8 DEF InkAt, t, n, m

\* A text cut in two.
LEMMA TwoInk ==
  ASSUME NEW G, NEW s \in Seq(G), NEW e \in 0..Len(s), Ordered(s)
  PROVE  LET x == SubSeq(s, 1, e)
             y == SubSeq(s, e + 1, Len(s)) IN
         /\ x \in Seq(G) /\ y \in Seq(G) /\ Len(x) = e /\ Len(y) = Len(s) - e
         /\ Ordered(x) /\ Ordered(y) /\ LiesBefore(x, y)
         /\ \A p : InkAt(s, p) <=> InkAt(x, p) \/ InkAt(y, p)
         /\ \A i \in 1..Len(y) : y[i] = s[i + e]
<1> DEFINE m == Len(s)
           x == SubSeq(s, 1, e)
           y == SubSeq(s, e + 1, m)
           d == m - e
<1>1. m \in Nat /\ e \in Nat /\ e <= m
  OBVIOUS
<1> HIDE DEF m
<1>2. x \in Seq(G) /\ Len(x) = e /\ \A i \in 1..e : x[i] = s[i]
  <2>1. 1 \in Nat /\ 1 >= 1 /\ e <= Len(s) /\ 1 <= e + 1
    BY <1>1 DEF m
  <2>2. /\ x \in Seq(G) /\ Len(x) = e - 1 + 1 /\ \A i \in 1..(e - 1 + 1) : x[i] = s[i + (1 - 1)]
    BY <1>1, <2>1, SubText
  <2>3. e - 1 + 1 = e /\ \A i \in 1..e : i + (1 - 1) = i
    BY <1>1
  <2> HIDE DEF x
  <2>4. \A i \in 1..e : x[i] = s[i + (1 - 1)]
    BY <2>2, <2>3
  <2>5. \A i \in 1..e : x[i] = s[i]
    BY <2>3, <2>4
  <2> QED BY <2>2, <2>3, <2>5
<1>3. y \in Seq(G) /\ Len(y) = d /\ \A i \in 1..d : y[i] = s[i + e]
  <2> DEFINE a == e + 1
  <2>1. a \in Nat /\ a >= 1 /\ m <= Len(s) /\ a <= m + 1 /\ m - a + 1 = d /\ a - 1 = e
    BY <1>1 DEF m
  <2> HIDE DEF a, d
  <2>2. /\ SubSeq(s, a, m) \in Seq(G) /\ Len(SubSeq(s, a, m)) = m - a + 1
        /\ \A i \in 1..(m - a + 1) : SubSeq(s, a, m)[i] = s[i + (a - 1)]
    BY <1>1, <2>1, SubText
  <2>3. y = SubSeq(s, a, m)
    BY DEF a
  <2> HIDE DEF y
  <2> QED BY <2>1, <2>2, <2>3
<1> HIDE DEF x, y
<1>4. \A i, j \in 1..m : i < j /\ s[i].class # "n" /\ s[j].class # "n" => s[i].place < s[j].place
  BY DEF Ordered, m
<1>5. d \in Nat /\ (\A i \in 1..e : i \in 1..m) /\ \A i \in 1..d : i + e \in 1..m /\ i + e > e
  BY <1>1
<1>6. \A i, j \in 1..d : i < j => i + e < j + e
  BY <1>1
<1>7. Ordered(x)
  BY <1>2, <1>4, <1>5 DEF Ordered
<1>8. Ordered(y)
  <2> SUFFICES ASSUME NEW i \in 1..d, NEW j \in 1..d, i < j, y[i].class # "n", y[j].class # "n"
               PROVE  y[i].place < y[j].place
    BY <1>3 DEF Ordered
  <2> DEFINE k == i + e
             l == j + e
  <2>1. k \in 1..m /\ l \in 1..m /\ k < l /\ y[i] = s[k] /\ y[j] = s[l]
    BY <1>3, <1>5, <1>6
  <2> HIDE DEF k, l
  <2> QED BY <1>4, <2>1
<1>9. LiesBefore(x, y)
  <2> SUFFICES ASSUME NEW p \in Nat, NEW q \in Nat, InkAt(x, p), InkAt(y, q) PROVE p < q
    BY DEF LiesBefore
  <2>1. PICK i \in 1..e : x[i].class # "n" /\ x[i].place = p
    BY <1>2 DEF InkAt
  <2>2. PICK j \in 1..d : y[j].class # "n" /\ y[j].place = q
    BY <1>3 DEF InkAt
  <2> DEFINE l == j + e
  <2>3. i \in 1..m /\ l \in 1..m /\ i < l /\ x[i] = s[i] /\ y[j] = s[l]
    BY <1>1, <1>2, <1>3, <1>5
  <2> HIDE DEF l
  <2> QED BY <1>4, <2>1, <2>2, <2>3
<1>10. ASSUME NEW p PROVE InkAt(s, p) <=> InkAt(x, p) \/ InkAt(y, p)
  <2>1. ASSUME NEW i \in 1..m, s[i].class # "n", s[i].place = p PROVE InkAt(x, p) \/ InkAt(y, p)
    <3>1. CASE i <= e
      <4>1. i \in 1..e /\ x[i] = s[i]
        BY <1>1, <1>2, <3>1
      <4> QED BY <1>2, <2>1, <4>1 DEF InkAt
    <3>2. CASE i > e
      <4> DEFINE j == i - e
      <4>1. j \in 1..d /\ j + e = i
        BY <1>1, <3>2
      <4> HIDE DEF j, d
      <4>2. y[j] = s[i]
        BY <1>3, <4>1
      <4> QED BY <1>3, <2>1, <4>1, <4>2 DEF InkAt
    <3> QED BY <1>1, <3>1, <3>2
  <2>2. ASSUME NEW i \in 1..e, x[i].class # "n", x[i].place = p PROVE InkAt(s, p)
    BY <1>2, <1>5, <2>2 DEF InkAt, m
  <2>3. ASSUME NEW i \in 1..d, y[i].class # "n", y[i].place = p PROVE InkAt(s, p)
    <3> DEFINE k == i + e
    <3>1. k \in 1..m /\ y[i] = s[k]
      BY <1>3, <1>5
    <3> HIDE DEF k
    <3> QED BY <2>3, <3>1 DEF InkAt, m
  <2> QED BY <1>2, <1>3, <2>1, <2>2, <2>3 DEF InkAt, m
<1> QED BY <1>2, <1>3, <1>7, <1>8, <1>9, <1>10 DEF x, y, m, d

-----------------------------------------------------------------------------
(* Pieces, one after the other.                                            *)

Ink(v, p) == \E k \in 1..Len(v) : InkAt(v[k], p)

Later(v, t) == \A k \in 1..Len(v) : LiesBefore(v[k], t)

Successive(v) == \A k \in 1..Len(v) :
  Ordered(v[k]) /\ \A l \in 1..Len(v) : k < l => LiesBefore(v[k], v[l])

AllTrimmed(v) == \A k \in 1..Len(v) : Trimmed(v[k])

Tight(v) == \A k \in 1..Len(v) : Trimmed(v[k]) /\ v[k] # <<>>

\* v is text t in pieces.
Cuts(v, t) == Successive(v) /\ AllTrimmed(v) /\ \A p : Ink(v, p) <=> InkAt(t, p)

LEMMA NoInk ==
  /\ \A p : ~InkAt(<<>>, p) /\ ~Ink(<<>>, p)
  /\ Ordered(<<>>) /\ Trimmed(<<>>) /\ Successive(<<>>) /\ Tight(<<>>)
  /\ \A t : LiesBefore(<<>>, t) /\ LiesBefore(t, <<>>) /\ Later(<<>>, t)
<1>1. Len(<<>>) = 0 /\ 1..0 = {}
  OBVIOUS
<1> QED BY <1>1 DEF InkAt, Ink, Ordered, Trimmed, Successive, Tight, LiesBefore, Later

LEMMA InkAppended ==
  ASSUME NEW V, NEW v \in Seq(V), NEW t \in V
  PROVE  LET w == Append(v, t) IN
         /\ w \in Seq(V)
         /\ \A p : Ink(w, p) <=> Ink(v, p) \/ InkAt(t, p)
         /\ Successive(v) /\ Ordered(t) /\ Later(v, t) => Successive(w)
         /\ \A u : Later(v, u) /\ LiesBefore(t, u) => Later(w, u)
         /\ AllTrimmed(v) /\ Trimmed(t) => AllTrimmed(w)
<1> DEFINE w == Append(v, t)
           n == Len(v)
           m == n + 1
<1>1. /\ w \in Seq(V) /\ Len(w) = m /\ n \in Nat
      /\ \A k \in 1..n : w[k] = v[k]
      /\ w[m] = t
  BY LineAppended
<1>2. /\ m \in 1..m /\ (\A k \in 1..n : k \in 1..m /\ k < m /\ k # m)
      /\ \A k \in 1..m : k \in 1..n \/ k = m
      /\ ~ m < m /\ \A k \in 1..n : ~ m < k
  BY <1>1
<1> HIDE DEF w, m
<1>3. ASSUME NEW p PROVE Ink(w, p) <=> Ink(v, p) \/ InkAt(t, p)
  BY <1>1, <1>2 DEF Ink, n
<1>4. ASSUME Successive(v), Ordered(t), Later(v, t) PROVE Successive(w)
  <2>1. ASSUME NEW k \in 1..m PROVE Ordered(w[k])
    BY <1>1, <1>2, <1>4 DEF Successive, n
  <2>2. ASSUME NEW k \in 1..m, NEW l \in 1..m, k < l PROVE LiesBefore(w[k], w[l])
    <3>1. CASE k \in 1..n /\ l \in 1..n
      BY <1>1, <1>4, <2>2, <3>1 DEF Successive, n
    <3>2. CASE k \in 1..n /\ l = m
      BY <1>1, <1>4, <3>2 DEF Later, n
    <3>3. ~ (k = m)
      BY <1>2, <2>2
    <3> QED BY <1>2, <3>1, <3>2, <3>3
  <2> QED BY <1>1, <2>1, <2>2 DEF Successive
<1>5. ASSUME NEW u, Later(v, u), LiesBefore(t, u) PROVE Later(w, u)
  BY <1>1, <1>2, <1>5 DEF Later, n
<1>6. ASSUME AllTrimmed(v), Trimmed(t) PROVE AllTrimmed(w)
  BY <1>1, <1>2, <1>6 DEF AllTrimmed, n
<1> QED BY <1>1, <1>3, <1>4, <1>5, <1>6 DEF w

LEMMA PartAdded ==
  ASSUME NEW V, NEW v \in Seq(V), NEW t \in V
  PROVE  LET w == AddPart(v, t) IN
         /\ w \in Seq(V)
         /\ \A p : Ink(w, p) <=> Ink(v, p) \/ InkAt(t, p)
         /\ Successive(v) /\ Ordered(t) /\ Later(v, t) => Successive(w)
         /\ \A u : Later(v, u) /\ LiesBefore(t, u) => Later(w, u)
         /\ Tight(v) /\ Trimmed(t) => Tight(w)
<1>1. CASE t = <<>>
  BY <1>1, NoInk DEF AddPart
<1>2. CASE t # <<>>
  <2>1. AddPart(v, t) = Append(v, t)
    BY <1>2 DEF AddPart
  <2>2. ASSUME Tight(v), Trimmed(t) PROVE Tight(Append(v, t))
    <3> DEFINE w == Append(v, t)
               n == Len(v)
               m == n + 1
    <3>1. /\ Len(w) = m /\ n \in Nat
          /\ \A k \in 1..n : w[k] = v[k]
          /\ w[m] = t
      BY LineAppended
    <3>2. \A k \in 1..m : k \in 1..n \/ k = m
      BY <3>1
    <3> HIDE DEF w, m
    <3>3. Tight(w)
      BY <1>2, <2>2, <3>1, <3>2 DEF Tight, n
    <3> QED BY <3>3 DEF w
  <2> QED BY <2>1, <2>2, InkAppended
<1> QED BY <1>1, <1>2

\* w is v and the first j items of more.
Gains(w, v, more, j) ==
  /\ \A p : Ink(w, p) <=> Ink(v, p) \/ \E l \in 1..j : InkAt(more[l], p)
  /\ Successive(w) /\ Tight(w)
  /\ \A u : Later(v, u) /\ (\A l \in 1..j : LiesBefore(more[l], u)) => Later(w, u)

LEMMA PartsExtend ==
  ASSUME NEW V, NEW v \in Seq(V), NEW more \in Seq(V), Successive(v), Tight(v),
         Successive(more), AllTrimmed(more), \A l \in 1..Len(more) : Later(v, more[l])
  PROVE  Extend(v, more) \in Seq(V) /\ Gains(Extend(v, more), v, more, Len(more))
<1> DEFINE n == Len(more)
<1>1. \A w \in Seq(V), i \in 1..Len(more) : AddPart(w, more[i]) \in Seq(V)
  <2>1. \A i \in 1..Len(more) : more[i] \in V
    OBVIOUS
  <2>2. \A w \in Seq(V), x \in V : AddPart(w, x) \in Seq(V)
    BY PartAdded
  <2> QED BY <2>1, <2>2
<1>9. PICK g : PartsWalk(g, Seq(V), v, more)
  BY <1>1, PartsPath
<1>2. /\ g \in [0..n -> Seq(V)] /\ g[0] = v /\ Extend(v, more) = g[n]
      /\ \A j \in 1..n : g[j] = AddPart(g[j - 1], more[j])
  BY <1>9 DEF PartsWalk
<1>3. n \in Nat /\ \A j \in 1..n : more[j] \in V
  OBVIOUS
<1> HIDE DEF n
<1> DEFINE P == {j \in 0..n : Gains(g[j], v, more, j)}
<1>4. 0 \in P
  <2>1. 1..0 = {} /\ 0 \in 0..n
    BY <1>3
  <2>2. Gains(v, v, more, 0)
    BY <2>1 DEF Gains
  <2> QED BY <1>2, <2>1, <2>2
<1>5. ASSUME NEW j \in 1..n, j - 1 \in P PROVE j \in P
  <2> DEFINE i == j - 1
             w == g[i]
             x == more[j]
  <2>1. i \in 0..n /\ j \in 0..n /\ Gains(w, v, more, i)
    BY <1>3, <1>5
  <2>2. (\A l \in 1..i : l \in 1..j /\ l < j /\ l \in 1..n) /\ j \in 1..j /\ \A l \in 1..j : l \in 1..i \/ l = j
    BY <1>3
  <2>3. w \in Seq(V) /\ x \in V /\ g[j] = AddPart(w, x)
    BY <1>2, <1>3, <2>1
  <2>4. Ordered(x) /\ Trimmed(x) /\ (\A l \in 1..i : LiesBefore(more[l], x)) /\ Later(v, x)
    BY <2>2 DEF Successive, AllTrimmed, n
  <2> HIDE DEF w, x, i
  <2>5. Later(w, x)
    BY <2>1, <2>4 DEF Gains
  <2> DEFINE z == AddPart(w, x)
  <2>6. /\ \A p : Ink(z, p) <=> Ink(w, p) \/ InkAt(x, p)
        /\ Successive(w) /\ Ordered(x) /\ Later(w, x) => Successive(z)
        /\ \A u : Later(w, u) /\ LiesBefore(x, u) => Later(z, u)
        /\ Tight(w) /\ Trimmed(x) => Tight(z)
    BY <2>3, PartAdded
  <2> HIDE DEF z
  <2>7. \A p : Ink(z, p) <=> Ink(v, p) \/ \E l \in 1..j : InkAt(more[l], p)
    BY <2>1, <2>2, <2>6 DEF Gains, x
  <2>8. Successive(z) /\ Tight(z)
    BY <2>1, <2>4, <2>5, <2>6 DEF Gains
  <2>9. ASSUME NEW u, Later(v, u), \A l \in 1..j : LiesBefore(more[l], u) PROVE Later(z, u)
    BY <2>1, <2>2, <2>6, <2>9 DEF Gains, x
  <2>10. Gains(z, v, more, j)
    BY <2>7, <2>8, <2>9 DEF Gains
  <2> QED BY <2>1, <2>3, <2>10 DEF z
<1> HIDE DEF P
<1>6. \A j \in 1..n : j - 1 \in P => j \in P
  BY <1>5
<1>7. n \in P
  BY <1>3, <1>4, <1>6, Along
<1>8. Gains(g[n], v, more, n) /\ g[n] \in Seq(V)
  BY <1>2, <1>3, <1>7 DEF P
<1> QED BY <1>2, <1>8 DEF n

\* w is the first j items of split, in one sequence.
Flattens(w, split, j) ==
  /\ \A p : Ink(w, p) <=> \E l \in 1..j : Ink(split[l], p)
  /\ Successive(w) /\ Tight(w)
  /\ \A u : (\A l \in 1..j : Later(split[l], u)) => Later(w, u)

LEMMA PartsFlatten ==
  ASSUME NEW V, NEW split \in Seq(Seq(V)),
         \A k \in 1..Len(split) : Successive(split[k]) /\ AllTrimmed(split[k]),
         \A k, l \in 1..Len(split) : k < l =>
           \A i \in 1..Len(split[l]) : Later(split[k], split[l][i])
  PROVE  Flat(split) \in Seq(V) /\ Flattens(Flat(split), split, Len(split))
<1> DEFINE n == Len(split)
           W == Seq(V)
<1>1. n \in Nat /\ \A j \in 1..n : split[j] \in W
  OBVIOUS
<1>2. ASSUME NEW w \in W, NEW x \in W PROVE Extend(w, x) \in W
  <2>1. \A z \in W, i \in 1..Len(x) : AddPart(z, x[i]) \in W
    <3>1. \A i \in 1..Len(x) : x[i] \in V
      BY <1>2
    <3>2. \A z \in W, y \in V : AddPart(z, y) \in W
      BY PartAdded
    <3> HIDE DEF W
    <3> QED BY <3>1, <3>2
  <2>2. PICK h : PartsWalk(h, W, w, x)
    BY <1>2, <2>1, PartsPath
  <2>3. Len(x) \in 0..Len(x)
    BY <1>2
  <2> QED BY <2>2, <2>3 DEF PartsWalk
<1>9. PICK g : FlatWalk(g, W, split)
  <2>1. <<>> \in W /\ split \in Seq(W)
    OBVIOUS
  <2>2. \A w \in W, i \in 1..Len(split) : Extend(w, split[i]) \in W
    BY <1>1, <1>2
  <2> HIDE DEF W
  <2> QED BY <2>1, <2>2, FlatPath
<1> HIDE DEF W
<1>3. /\ g \in [0..n -> W] /\ g[0] = <<>> /\ Flat(split) = g[n]
      /\ \A j \in 1..n : g[j] = Extend(g[j - 1], split[j])
  BY <1>9 DEF FlatWalk
<1> HIDE DEF n
<1> DEFINE P == {j \in 0..n : Flattens(g[j], split, j)}
<1>4. 0 \in P
  <2>1. 1..0 = {} /\ 0 \in 0..n
    BY <1>1
  <2>2. Flattens(<<>>, split, 0)
    BY <2>1, NoInk DEF Flattens
  <2> QED BY <1>3, <2>1, <2>2
<1>5. ASSUME NEW j \in 1..n, j - 1 \in P PROVE j \in P
  <2> DEFINE i == j - 1
             w == g[i]
             x == split[j]
             m == Len(x)
  <2>1. i \in 0..n /\ j \in 0..n /\ Flattens(w, split, i)
    BY <1>1, <1>5
  <2>2. (\A l \in 1..i : l \in 1..j /\ l < j /\ l \in 1..n) /\ j \in 1..j /\ \A l \in 1..j : l \in 1..i \/ l = j
    BY <1>1
  <2>3. w \in W /\ x \in W /\ g[j] = Extend(w, x)
    BY <1>1, <1>3, <2>1
  <2>4. Successive(x) /\ AllTrimmed(x) /\ \A l \in 1..i : \A k \in 1..m : Later(split[l], x[k])
    BY <2>2 DEF n
  <2> HIDE DEF w, x, i
  <2>5. \A k \in 1..Len(x) : Later(w, x[k])
    BY <2>1, <2>4 DEF Flattens
  <2>6. Successive(w) /\ Tight(w)
    BY <2>1 DEF Flattens
  <2> DEFINE z == Extend(w, x)
  <2>7. Gains(z, w, x, Len(x))
    BY <2>3, <2>4, <2>5, <2>6, PartsExtend DEF W
  <2> HIDE DEF z
  <2>8. \A p : Ink(z, p) <=> Ink(w, p) \/ Ink(x, p)
    BY <2>7 DEF Gains, Ink
  <2>9. \A p : Ink(z, p) <=> \E l \in 1..j : Ink(split[l], p)
    BY <2>1, <2>2, <2>8 DEF Flattens, x
  <2>10. Successive(z) /\ Tight(z)
    BY <2>7 DEF Gains
  <2>11. ASSUME NEW u, \A l \in 1..j : Later(split[l], u) PROVE Later(z, u)
    <3>1. Later(w, u) /\ Later(x, u)
      BY <2>1, <2>2, <2>11 DEF Flattens, x
    <3> QED BY <2>7, <3>1 DEF Gains, Later
  <2>12. Flattens(z, split, j)
    BY <2>9, <2>10, <2>11 DEF Flattens
  <2> QED BY <2>1, <2>3, <2>12 DEF z
<1> HIDE DEF P
<1>6. \A j \in 1..n : j - 1 \in P => j \in P
  BY <1>5
<1>7. n \in P
  BY <1>1, <1>4, <1>6, Along
<1>8. Flattens(g[n], split, n) /\ g[n] \in W
  BY <1>1, <1>3, <1>7 DEF P
<1> QED BY <1>3, <1>8 DEF n, W

\* Pieces of the pieces of a text are pieces of the text.
LEMMA CutsOfCuts ==
  ASSUME NEW V, NEW t, NEW parts \in Seq(V), Cuts(parts, t),
         NEW split \in Seq(Seq(V)), Len(split) = Len(parts),
         \A k \in 1..Len(parts) : Cuts(split[k], parts[k])
  PROVE  Flat(split) \in Seq(V) /\ Cuts(Flat(split), t) /\ Tight(Flat(split))
<1> DEFINE n == Len(parts)
<1>1. \A k \in 1..n : Successive(split[k]) /\ AllTrimmed(split[k]) /\ \A p : Ink(split[k], p) <=> InkAt(parts[k], p)
  BY DEF Cuts
<1>2. ASSUME NEW k \in 1..n, NEW l \in 1..n, k < l, NEW i \in 1..Len(split[l])
      PROVE  Later(split[k], split[l][i])
  <2>1. LiesBefore(parts[k], parts[l])
    BY <1>2 DEF Cuts, Successive
  <2>2. SUFFICES ASSUME NEW j \in 1..Len(split[k]), NEW p \in Nat, NEW q \in Nat,
                        InkAt(split[k][j], p), InkAt(split[l][i], q)
                 PROVE  p < q
    BY DEF Later, LiesBefore
  <2>3. Ink(split[k], p) /\ Ink(split[l], q)
    BY <1>2, <2>2 DEF Ink
  <2>4. InkAt(parts[k], p) /\ InkAt(parts[l], q)
    BY <1>1, <2>3
  <2> QED BY <2>1, <2>4 DEF LiesBefore
<1>3. Flat(split) \in Seq(V) /\ Flattens(Flat(split), split, n)
  BY <1>1, <1>2, PartsFlatten
<1>4. \A p : Ink(Flat(split), p) <=> \E l \in 1..n : Ink(split[l], p)
  BY <1>3 DEF Flattens
<1>5. \A p : Ink(parts, p) <=> InkAt(t, p)
  BY DEF Cuts
<1>6. \A p : Ink(Flat(split), p) <=> InkAt(t, p)
  BY <1>1, <1>4, <1>5 DEF Ink
<1>7. Successive(Flat(split)) /\ Tight(Flat(split))
  BY <1>3 DEF Flattens
<1>8. AllTrimmed(Flat(split))
  BY <1>7 DEF Tight, AllTrimmed
<1> QED BY <1>3, <1>6, <1>7, <1>8 DEF Cuts

-----------------------------------------------------------------------------
(* The pieces at a separator.                                              *)

LEMMA OneGlyph ==
  ASSUME NEW x
  PROVE  Ordered(<<x>>) /\ \A p : InkAt(<<x>>, p) <=> x.class # "n" /\ x.place = p
<1>1. Len(<<x>>) = 1 /\ 1..1 = {1} /\ <<x>>[1] = x /\ ~ 1 < 1
  OBVIOUS
<1>2. \A i \in 1..1 : i = 1
  BY <1>1
<1> QED BY <1>1, <1>2 DEF Ordered, InkAt

LEMMA GlyphAdded ==
  ASSUME NEW G, Sited(G), NEW t \in Seq(G), NEW x \in G
  PROVE  LET w == Append(t, x) IN
         /\ w \in Seq(G)
         /\ \A p : InkAt(w, p) <=> InkAt(t, p) \/ InkAt(<<x>>, p)
         /\ Ordered(t) /\ LiesBefore(t, <<x>>) => Ordered(w)
<1> DEFINE w == Append(t, x)
           n == Len(t)
           m == n + 1
<1>1. /\ w \in Seq(G) /\ Len(w) = m /\ n \in Nat
      /\ \A k \in 1..n : w[k] = t[k] /\ t[k] \in G
      /\ w[m] = x
  BY LineAppended
<1>2. /\ m \in 1..m /\ (\A k \in 1..n : k \in 1..m)
      /\ \A k \in 1..m : k \in 1..n \/ k = m
      /\ ~ m < m /\ \A k \in 1..n : ~ m < k
  BY <1>1
<1> HIDE DEF w, m
<1>3. ASSUME NEW p PROVE InkAt(w, p) <=> InkAt(t, p) \/ InkAt(<<x>>, p)
  BY <1>1, <1>2, OneGlyph DEF InkAt, n
<1>4. ASSUME Ordered(t), LiesBefore(t, <<x>>) PROVE Ordered(w)
  <2> SUFFICES ASSUME NEW k \in 1..m, NEW l \in 1..m, k < l, w[k].class # "n", w[l].class # "n"
               PROVE  w[k].place < w[l].place
    BY <1>1 DEF Ordered
  <2>1. CASE k \in 1..n /\ l \in 1..n
    BY <1>1, <1>4, <2>1 DEF Ordered, n
  <2>2. CASE k \in 1..n /\ l = m
    <3>1. w[k] = t[k] /\ w[l] = x /\ t[k] \in G
      BY <1>1, <2>2
    <3>2. InkAt(t, t[k].place) /\ InkAt(<<x>>, x.place)
      BY <2>2, <3>1, OneGlyph DEF InkAt, n
    <3>3. t[k].place \in Nat /\ x.place \in Nat
      BY <3>1 DEF Sited
    <3>4. t[k].place < x.place
      BY <1>4, <3>2, <3>3 DEF LiesBefore
    <3> QED BY <3>1, <3>4
  <2>3. ~ (k = m)
    BY <1>2
  <2> QED BY <1>2, <2>1, <2>2, <2>3
<1> QED BY <1>1, <1>3, <1>4 DEF w

\* The last piece grows.
LEMMA LastGrows ==
  ASSUME NEW G, Sited(G), NEW v \in Seq(Seq(G)), Len(v) > 0, NEW x \in G,
         Successive(v), Later(v, <<x>>)
  PROVE  LET w == [v EXCEPT ![Len(v)] = Append(@, x)] IN
         /\ w \in Seq(Seq(G)) /\ Len(w) = Len(v) /\ Successive(w)
         /\ \A p : Ink(w, p) <=> Ink(v, p) \/ InkAt(<<x>>, p)
<1> DEFINE V == Seq(G)
           m == Len(v)
           t == v[m]
           e == Append(t, x)
           w == [v EXCEPT ![m] = e]
<1>1. m \in 1..m /\ t \in V /\ m \in Nat
  OBVIOUS
<1>2. /\ e \in V
      /\ \A p : InkAt(e, p) <=> InkAt(t, p) \/ InkAt(<<x>>, p)
      /\ Ordered(t) /\ LiesBefore(t, <<x>>) => Ordered(e)
  BY <1>1, GlyphAdded
<1>3. Ordered(t) /\ LiesBefore(t, <<x>>)
  BY <1>1 DEF Successive, Later
<1>4. w = [v EXCEPT ![Len(v)] = Append(@, x)]
  OBVIOUS
<1>5. v \in Seq(V)
  OBVIOUS
<1> HIDE DEF e, V
<1>6. w \in Seq(V) /\ Len(w) = m /\ w[m] = e /\ \A k \in 1..m : k # m => w[k] = v[k]
  BY <1>1, <1>2, <1>5, ItemReplaced
<1> HIDE DEF w
<1>7. \A p : InkAt(w[m], p) <=> InkAt(v[m], p) \/ InkAt(<<x>>, p)
  BY <1>2, <1>6
<1>8. \A k \in 1..m : \A p : InkAt(w[k], p) => InkAt(v[k], p) \/ InkAt(<<x>>, p)
  BY <1>6, <1>7
<1>9. \A k \in 1..m : \A p : InkAt(v[k], p) => InkAt(w[k], p)
  BY <1>6, <1>7
<1>10. ASSUME NEW p PROVE Ink(w, p) <=> Ink(v, p) \/ InkAt(<<x>>, p)
  BY <1>1, <1>6, <1>7, <1>8, <1>9 DEF Ink
<1>11. Successive(w)
  <2>1. ASSUME NEW k \in 1..m PROVE Ordered(w[k])
    BY <1>2, <1>3, <1>6 DEF Successive
  <2>2. ASSUME NEW k \in 1..m, NEW l \in 1..m, k < l PROVE LiesBefore(w[k], w[l])
    <3>1. k # m
      BY <1>1, <2>2
    <3>2. w[k] = v[k] /\ LiesBefore(v[k], v[l]) /\ LiesBefore(v[k], <<x>>)
      BY <1>6, <2>2, <3>1 DEF Successive, Later
    <3> SUFFICES ASSUME NEW p \in Nat, NEW q \in Nat, InkAt(w[k], p), InkAt(w[l], q)
                 PROVE  p < q
      BY DEF LiesBefore
    <3>3. InkAt(v[k], p) /\ (InkAt(v[l], q) \/ InkAt(<<x>>, q))
      BY <1>8, <3>2
    <3> QED BY <3>2, <3>3 DEF LiesBefore
  <2> QED BY <1>6, <2>1, <2>2 DEF Successive
<1> QED BY <1>4, <1>6, <1>10, <1>11 DEF V, m

\* v is the first i glyphs of s in pieces.
Reads(v, s, i) ==
  /\ Len(v) > 0 /\ Successive(v)
  /\ \A p : Ink(v, p) <=> \E j \in 1..i : s[j].class # "n" /\ s[j].place = p

LEMMA GlyphsCut ==
  ASSUME NEW G, Sited(G), NEW s \in Seq(G), Ordered(s), NEW separator
  PROVE  /\ PiecesAt(s, separator) \in Seq(Seq(G))
         /\ Reads(PiecesAt(s, separator), s, Len(s))
<1> DEFINE n == Len(s)
           W == {v \in Seq(Seq(G)) : Len(v) > 0}
<1>1. ASSUME NEW v \in W, NEW i \in 1..n
      PROVE  /\ CutAt(s, separator, v, i) \in W
             /\ Reads(v, s, i - 1) => Reads(CutAt(s, separator, v, i), s, i)
  <2> DEFINE x == s[i]
             z == CutAt(s, separator, v, i)
             V == Seq(G)
  <2>1. x \in G /\ <<x>> \in V /\ n \in Nat
    OBVIOUS
  <2>2. v \in Seq(V) /\ Len(v) > 0 /\ Len(v) \in Nat
    BY <1>1
  <2>3. z \in Seq(V) /\ Len(z) > 0
    <3>1. CASE i \in Opens(s, separator)
      <4>1. z = Append(v, <<x>>)
        BY <3>1 DEF CutAt
      <4> HIDE DEF z, V, x
      <4> QED BY <2>1, <2>2, <4>1, LineAppended
    <3>2. CASE i \notin Opens(s, separator)
      <4> DEFINE e == Append(v[Len(v)], x)
      <4>1. z = [v EXCEPT ![Len(v)] = e]
        BY <3>2 DEF CutAt
      <4>2. Len(v) \in 1..Len(v) /\ e \in V
        BY <2>1, <2>2
      <4> HIDE DEF z, V, x, e
      <4> QED BY <2>2, <4>1, <4>2, ItemReplaced
    <3> QED BY <3>1, <3>2
  <2>4. ASSUME Reads(v, s, i - 1) PROVE Reads(z, s, i)
    <3> DEFINE j == i - 1
    <3>1. /\ (\A k \in 1..j : k \in 1..i /\ k \in 1..n /\ k < i) /\ i \in 1..i
          /\ \A k \in 1..i : k \in 1..j \/ k = i
      BY <2>1
    <3>2. /\ Successive(v)
          /\ \A p : Ink(v, p) <=> \E k \in 1..j : s[k].class # "n" /\ s[k].place = p
      BY <2>4 DEF Reads
    <3> HIDE DEF j
    <3>3. Later(v, <<x>>)
      <4> SUFFICES ASSUME NEW k \in 1..Len(v), NEW p \in Nat, NEW q \in Nat,
                          InkAt(v[k], p), InkAt(<<x>>, q)
                   PROVE  p < q
        BY DEF Later, LiesBefore
      <4>1. PICK l \in 1..j : s[l].class # "n" /\ s[l].place = p
        BY <3>2 DEF Ink
      <4>2. x.class # "n" /\ x.place = q
        BY OneGlyph
      <4>3. s[l].place < s[i].place
        BY <3>1, <4>1, <4>2 DEF Ordered
      <4> QED BY <4>1, <4>2, <4>3
    <3>4. Successive(z) /\ \A p : Ink(z, p) <=> Ink(v, p) \/ InkAt(<<x>>, p)
      <4>1. CASE i \in Opens(s, separator)
        <5>1. z = Append(v, <<x>>)
          BY <4>1 DEF CutAt
        <5>2. Ordered(<<x>>)
          BY OneGlyph
        <5> HIDE DEF z, x, V
        <5> QED BY <2>1, <2>2, <3>2, <3>3, <5>1, <5>2, InkAppended
      <4>2. CASE i \notin Opens(s, separator)
        <5>1. z = [v EXCEPT ![Len(v)] = Append(@, x)]
          BY <4>2 DEF CutAt
        <5> HIDE DEF z, x
        <5> QED BY <2>1, <2>2, <3>2, <3>3, <5>1, LastGrows
      <4> QED BY <4>1, <4>2
    <3>5. \A p : InkAt(<<x>>, p) <=> s[i].class # "n" /\ s[i].place = p
      BY OneGlyph
    <3> HIDE DEF z, x
    <3>6. \A p : Ink(z, p) <=> \E k \in 1..i : s[k].class # "n" /\ s[k].place = p
      BY <3>1, <3>2, <3>4, <3>5
    <3> QED BY <2>3, <3>4, <3>6 DEF Reads
  <2> QED BY <2>3, <2>4
<1>2. << <<>> >> \in W
  OBVIOUS
<1>3. n \in Nat
  OBVIOUS
<1> HIDE DEF W
<1>4. \A v \in W, i \in 1..Len(s) : CutAt(s, separator, v, i) \in W
  BY <1>1
<1>11. PICK h : CutsWalk(h, W, s, separator)
  BY <1>2, <1>4, CutsPath
<1>5. /\ h \in [0..n -> W] /\ h[0] = << <<>> >> /\ PiecesAt(s, separator) = h[n]
      /\ \A i \in 1..n : h[i] = CutAt(s, separator, h[i - 1], i)
  BY <1>11 DEF CutsWalk
<1> HIDE DEF n
<1> DEFINE P == {i \in 0..n : Reads(h[i], s, i)}
<1>6. 0 \in P
  <2>1. 1..0 = {} /\ 0 \in 0..n
    BY <1>3
  <2> DEFINE b == << <<>> >>
  <2>2. b = << <<>> >> /\ Len(b) = 1 /\ \A k \in 1..1 : k = 1 /\ b[k] = <<>> /\ \A l \in 1..1 : ~ k < l
    OBVIOUS
  <2> HIDE DEF b
  <2>3. Reads(b, s, 0)
    BY <2>1, <2>2, NoInk DEF Reads, Successive, Ink
  <2> QED BY <1>5, <2>1, <2>2, <2>3
<1>7. ASSUME NEW i \in 1..n, i - 1 \in P PROVE i \in P
  <2> DEFINE v == h[i - 1]
  <2>1. v \in W /\ Reads(v, s, i - 1) /\ i \in 0..n
    BY <1>3, <1>5, <1>7
  <2>2. h[i] = CutAt(s, separator, v, i)
    BY <1>5
  <2> HIDE DEF v
  <2>3. Reads(h[i], s, i)
    BY <1>1, <2>1, <2>2
  <2> QED BY <2>1, <2>3
<1> HIDE DEF P
<1>8. \A i \in 1..n : i - 1 \in P => i \in P
  BY <1>7
<1>9. n \in P
  BY <1>3, <1>6, <1>8, Along
<1>10. Reads(h[n], s, n) /\ h[n] \in W
  BY <1>3, <1>5, <1>9 DEF P
<1> QED BY <1>5, <1>10 DEF n, W

\* A text's parts at a separator are the text.
LEMMA PartsCut ==
  ASSUME NEW G, Sited(G), NEW s \in Seq(G), Ordered(s), NEW separator
  PROVE  /\ Parts(s, separator) \in Seq(Seq(G)) /\ Cuts(Parts(s, separator), s)
         /\ \A k \in 1..Len(Parts(s, separator)) : Ordered(Parts(s, separator)[k])
<1> DEFINE v == PiecesAt(s, separator)
           w == Parts(s, separator)
           n == Len(v)
           V == Seq(G)
<1>1. v \in Seq(V) /\ Reads(v, s, Len(s))
  BY GlyphsCut
<1>2. w \in Seq(V)
  BY PartsAreTexts
<1>3. DOMAIN v = 1..n /\ n \in Nat /\ \A k \in 1..n : v[k] \in V
  BY <1>1
<1>4. w = [k \in DOMAIN v |-> Strip(v[k])]
  BY DEF Parts
<1> HIDE DEF v
<1>5. Len(w) = n /\ \A k \in 1..n : w[k] = Strip(v[k])
  <2> HIDE DEF w, V
  <2>1. DOMAIN w = 1..n
    BY <1>3, <1>4
  <2>2. DOMAIN w = 1..Len(w) /\ Len(w) \in Nat
    BY <1>2
  <2>3. Len(w) = n
    BY <1>3, <2>1, <2>2
  <2> QED BY <1>3, <1>4, <2>3
<1> HIDE DEF w, n
<1>6. ASSUME NEW k \in 1..n
      PROVE  /\ Trimmed(w[k]) /\ (\A p : InkAt(w[k], p) <=> InkAt(v[k], p))
             /\ Ordered(v[k]) => Ordered(w[k])
  <2> DEFINE x == v[k]
  <2>1. x \in Seq(G) /\ w[k] = Strip(x)
    BY <1>3, <1>5
  <2> HIDE DEF x
  <2>2. LET t == Strip(x) IN
         /\ Trimmed(t) /\ (\A p : InkAt(t, p) <=> InkAt(x, p))
         /\ Ordered(x) => Ordered(t)
    BY <2>1, StripInk
  <2> QED BY <2>1, <2>2 DEF x
<1>7. Successive(v) /\ \A p : Ink(v, p) <=> InkAt(s, p)
  BY <1>1 DEF Reads, InkAt
<1>8. Successive(w)
  BY <1>5, <1>6, <1>7 DEF Successive, LiesBefore, n
<1>9. \A p : Ink(w, p) <=> InkAt(s, p)
  BY <1>5, <1>6, <1>7 DEF Ink, n
<1>10. AllTrimmed(w)
  BY <1>5, <1>6 DEF AllTrimmed
<1>11. \A k \in 1..Len(w) : Ordered(w[k])
  BY <1>8 DEF Successive
<1> QED BY <1>2, <1>8, <1>9, <1>10, <1>11 DEF Cuts, w, V

-----------------------------------------------------------------------------
(* The binary searches, and the hard split.                                *)

LEMMA GlyphHasFewTokens ==
  ASSUME NEW x
  PROVE  Tokens(<<x>>) <= SpecialTokens + 1
<1> DEFINE s == <<x>>
           runs == LetterRuns(s)
           tokens == [w \in runs |-> WordTokens(w)]
           one == <<1, 1>>
<1>1. s \in Seq({x}) /\ DOMAIN s = {1} /\ Len(s) = 1 /\ s[1] = x
  OBVIOUS
<1>2. Tokens(s) = SpecialTokens + Cardinality(Marks(s)) + SumFunction(tokens)
  BY DEF Tokens, Marks
<1>3. DOMAIN tokens = runs /\ \A w \in runs : tokens[w] = WordTokens(w)
  OBVIOUS
<1>4. /\ Marks(s) = IF x.class \in {"c", "#", "."} THEN {1} ELSE {}
      /\ runs = IF x.class = "w" THEN {one} ELSE {}
  <2>1. Marks(s) = IF x.class \in {"c", "#", "."} THEN {1} ELSE {}
    BY <1>1 DEF Marks
  <2>2. runs \in SUBSET {one}
    BY <1>1 DEF LetterRuns
  <2>3. x.class = "w" <=> one \in runs
    BY <1>1 DEF LetterRuns
  <2> QED BY <2>1, <2>2, <2>3
<1>5. Cardinality({1}) = 1 /\ Cardinality({}) = 0 /\ IsFiniteSet({one}) /\ {one} \ {one} = {}
  BY FS_EmptySet, FS_Singleton
<1>6. WordTokens(one) = 1
  BY DEF WordTokens
<1> HIDE DEF s, runs, tokens, one
<1>7. CASE x.class = "w"
  <2>1. Marks(s) = {} /\ runs = {one} /\ tokens[one] = 1
    BY <1>3, <1>4, <1>6, <1>7
  <2>2. \A y \in {one} : tokens[y] \in Int
    BY <2>1
  <2>3. SumFunctionOnSet(tokens, {one}) = tokens[one] + SumFunctionOnSet(tokens, {one} \ {one})
    BY <1>5, <2>2, SumAdds
  <2>4. SumFunctionOnSet(tokens, {}) = 0
    BY SumOfNone
  <2>5. SumFunction(tokens) = 1
    BY <1>3, <1>5, <2>1, <2>3, <2>4 DEF SumFunction
  <2> QED BY <1>2, <1>5, <2>1, <2>5 DEF SpecialTokens, s
<1>8. CASE x.class # "w"
  <2>1. runs = {} /\ Cardinality(Marks(s)) \in {0, 1}
    BY <1>4, <1>5, <1>8
  <2>2. SumFunction(tokens) = 0
    BY <1>3, <2>1, SumOfNone DEF SumFunction
  <2> HIDE DEF Marks
  <2> QED BY <1>2, <2>1, <2>2 DEF SpecialTokens, s
<1> QED BY <1>7, <1>8

\* The ranges of a search in s.
Ranges(s) == {range \in [low : Nat, high : Nat] : range.low <= range.high /\ range.high <= Len(s)}

\* What a range is after i turns.
Closes(range, s, i) == range.high - range.low <= Len(s) - i

\* Each turn of _hard_split takes a glyph.
LEMMA PrefixAdvances ==
  ASSUME NEW G, NEW s \in Seq(G), Len(s) > 0, NEW limit \in Nat, limit > SpecialTokens
  PROVE  LargestPrefix(s, limit) \in 1..Len(s)
<1> DEFINE n == Len(s)
           W == Ranges(s)
<1>1. n \in Nat /\ n > 0
  OBVIOUS
<1>2. Tokens(SubSeq(s, 1, 1)) <= limit
  <2> DEFINE g == <<s[1]>>
             k == Tokens(g)
  <2>1. SubSeq(s, 1, 1) = g
    <3>1. SubSeq(s, 1, 0) = <<>> /\ SubSeq(s, 1, 1) = Append(SubSeq(s, 1, 1 - 1), s[1])
      BY FirstLinesOf
    <3>2. 1 - 1 = 0
      OBVIOUS
    <3>3. SubSeq(s, 1, 1 - 1) = <<>>
      BY <3>1, <3>2, Zenon
    <3>4. SubSeq(s, 1, 1) = Append(<<>>, s[1])
      BY <3>1, <3>3, Zenon
    <3> QED BY <3>4
  <2>2. k <= SpecialTokens + 1
    BY GlyphHasFewTokens
  <2>3. k \in Nat
    <3>1. g \in Seq({s[1]})
      OBVIOUS
    <3> QED BY <3>1, TokensAreNatural
  <2> HIDE DEF g, k
  <2>4. k <= limit
    BY <2>2, <2>3 DEF SpecialTokens
  <2> QED BY <2>1, <2>4 DEF k
<1>3. ASSUME NEW r \in W, NEW i \in 1..n
      PROVE  /\ NarrowPrefix(s, limit, r) \in W
             /\ r.high >= 1 => NarrowPrefix(s, limit, r).high >= 1
             /\ Closes(r, s, i - 1) => Closes(NarrowPrefix(s, limit, r), s, i)
  <2> DEFINE low == r.low
             high == r.high
             middle == (low + high + 1) \div 2
             fits == Tokens(SubSeq(s, 1, middle)) <= limit
             z == NarrowPrefix(s, limit, r)
  <2>1. r = [low |-> low, high |-> high] /\ low \in Nat /\ high \in Nat /\ low <= high /\ high <= n
    BY DEF Ranges
  <2>2. z = IF low >= high THEN r
            ELSE IF fits THEN [r EXCEPT !.low = middle]
            ELSE [r EXCEPT !.high = middle - 1]
    BY DEF NarrowPrefix
  <2>3. Closes(r, s, i - 1) <=> high - low <= n - (i - 1)
    BY DEF Closes
  <2>4. CASE low >= high
    <3>1. z = r /\ high - low = 0
      BY <2>1, <2>2, <2>4
    <3> HIDE DEF z, low, high, n
    <3>2. 0 <= n - i
      BY <1>1
    <3> QED BY <3>1, <3>2 DEF Closes, high, low, n, z
  <2>5. CASE low < high
    <3>1. middle \in Nat /\ low < middle /\ middle <= high
      BY <2>1, <2>5
    <3>2. ~(low >= high)
      BY <2>1, <2>5
    <3>3. middle = 1 => fits
      BY <1>2
    <3> HIDE DEF n, middle, z, fits
    <3>4. \/ fits /\ z = [low |-> middle, high |-> high]
          \/ ~fits /\ z = [low |-> low, high |-> middle - 1]
      <4>1. \A y : [r EXCEPT !.low = y] = [low |-> y, high |-> high]
        BY <2>1
      <4>2. \A y : [r EXCEPT !.high = y] = [low |-> low, high |-> y]
        BY <2>1
      <4> HIDE DEF low, high
      <4> QED BY <2>2, <3>2, <4>1, <4>2
    <3> HIDE DEF low, high
    <3>5. CASE fits /\ z = [low |-> middle, high |-> high]
      <4>1. z.low = middle /\ z.high = high /\ z \in [low : Nat, high : Nat]
        BY <2>1, <3>1, <3>5
      <4>2. high - low <= n - (i - 1) => high - middle <= n - i
        BY <1>1, <2>1, <3>1
      <4>3. z \in W
        BY <2>1, <3>1, <4>1 DEF Ranges, n
      <4>4. Closes(z, s, i) <=> high - middle <= n - i
        BY <4>1 DEF Closes, n
      <4>5. r.high >= 1 => z.high >= 1
        BY <4>1 DEF high
      <4> QED BY <2>3, <4>2, <4>3, <4>4, <4>5 DEF z
    <3>6. CASE ~fits /\ z = [low |-> low, high |-> middle - 1]
      <4>1. middle - 1 \in Nat /\ middle - 1 >= 1 /\ low <= middle - 1 /\ middle - 1 <= n
        BY <1>1, <2>1, <3>1, <3>3, <3>6
      <4>2. z.low = low /\ z.high = middle - 1 /\ z \in [low : Nat, high : Nat]
        BY <2>1, <3>6, <4>1
      <4>3. high - low <= n - (i - 1) => (middle - 1) - low <= n - i
        BY <1>1, <2>1, <3>1
      <4>4. z \in W
        BY <4>1, <4>2 DEF Ranges, n
      <4>5. Closes(z, s, i) <=> (middle - 1) - low <= n - i
        BY <4>2 DEF Closes, n
      <4> QED BY <2>3, <4>1, <4>2, <4>3, <4>4, <4>5 DEF z
    <3> QED BY <3>4, <3>5, <3>6
  <2> QED BY <2>1, <2>4, <2>5
<1>4. [low |-> 0, high |-> Len(s)] \in W
  BY <1>1 DEF Ranges
<1> HIDE DEF W
<1>5. PICK h : PrefixWalk(h, W, s, limit)
  <2>1. \A w \in W, i \in 1..Len(s) : NarrowPrefix(s, limit, w) \in W
    BY <1>3
  <2> QED BY <1>4, <2>1, PrefixPath
<1>6. /\ h \in [0..n -> W] /\ h[0] = [low |-> 0, high |-> n] /\ LargestPrefix(s, limit) = h[n].low
      /\ \A i \in 1..n : h[i] = NarrowPrefix(s, limit, h[i - 1])
  BY <1>5 DEF PrefixWalk
<1> HIDE DEF n
<1> DEFINE P == {i \in 0..n : h[i].high >= 1 /\ Closes(h[i], s, i)}
<1>7. 0 \in P
  <2>1. h[0].high = n /\ h[0].low = 0
    BY <1>6
  <2>2. Closes(h[0], s, 0) <=> n - 0 <= n - 0
    BY <2>1 DEF Closes, n
  <2> QED BY <1>1, <2>1, <2>2
<1>8. ASSUME NEW i \in 1..n, i - 1 \in P PROVE i \in P
  <2> DEFINE r == h[i - 1]
  <2>1. r \in W /\ r.high >= 1 /\ Closes(r, s, i - 1) /\ i \in 0..n
    BY <1>1, <1>6, <1>8
  <2>2. h[i] = NarrowPrefix(s, limit, r)
    BY <1>6
  <2> HIDE DEF r
  <2>3. h[i].high >= 1 /\ Closes(h[i], s, i)
    BY <1>3, <2>1, <2>2
  <2> QED BY <2>1, <2>3
<1> HIDE DEF P
<1>9. \A i \in 1..n : i - 1 \in P => i \in P
  BY <1>8
<1>10. n \in P
  BY <1>1, <1>7, <1>9, Along
<1> DEFINE e == h[n]
<1>11. e \in W /\ e.high >= 1 /\ Closes(e, s, n)
  BY <1>1, <1>6, <1>10 DEF P
<1>12. LargestPrefix(s, limit) = e.low
  BY <1>6
<1> HIDE DEF e
<1>13. e.high \in Nat /\ e.low \in Nat /\ e.high <= n /\ e.high - e.low <= n - n
  BY <1>11 DEF Closes, W, Ranges, n
<1>14. e.low >= 1 /\ e.low <= n
  <2>1. e.low <= e.high
    BY <1>11 DEF W, Ranges
  <2> QED BY <1>1, <1>11, <1>13, <2>1
<1> QED BY <1>12, <1>13, <1>14 DEF n

\* The tail is within its limit, or nothing.
LEMMA TailFits ==
  ASSUME NEW G, NEW s \in Seq(G), NEW limit
  PROVE  LET a == TailStart(s, limit) IN
         /\ a \in 0..Len(s)
         /\ a = Len(s) \/ Tokens(SubSeq(s, a + 1, Len(s))) <= limit
<1> DEFINE n == Len(s)
           W == Ranges(s)
           Fits(k) == k = n \/ Tokens(SubSeq(s, k + 1, n)) <= limit
<1>1. n \in Nat
  OBVIOUS
<1>3. ASSUME NEW r \in W, NEW i \in 1..n
      PROVE  /\ NarrowTail(s, limit, r) \in W
             /\ Fits(r.high) => Fits(NarrowTail(s, limit, r).high)
             /\ Closes(r, s, i - 1) => Closes(NarrowTail(s, limit, r), s, i)
  <2> DEFINE low == r.low
             high == r.high
             middle == (low + high) \div 2
             fits == Tokens(SubSeq(s, middle + 1, Len(s))) <= limit
             z == NarrowTail(s, limit, r)
  <2>1. r = [low |-> low, high |-> high] /\ low \in Nat /\ high \in Nat /\ low <= high /\ high <= n
    BY DEF Ranges
  <2>2. z = IF low >= high THEN r
            ELSE IF fits THEN [r EXCEPT !.high = middle]
            ELSE [r EXCEPT !.low = middle + 1]
    BY DEF NarrowTail
  <2>3. Closes(r, s, i - 1) <=> high - low <= n - (i - 1)
    BY DEF Closes
  <2>4. CASE low >= high
    <3>1. z = r /\ high - low = 0
      BY <2>1, <2>2, <2>4
    <3> HIDE DEF z, low, high, n, Fits
    <3>2. 0 <= n - i
      BY <1>1
    <3> QED BY <3>1, <3>2 DEF Closes, high, low, n, z
  <2>5. CASE low < high
    <3>1. middle \in Nat /\ low <= middle /\ middle < high
      BY <2>1, <2>5
    <3>2. ~(low >= high)
      BY <2>1, <2>5
    <3>3. fits => Fits(middle)
      OBVIOUS
    <3> HIDE DEF n, middle, z, fits, Fits
    <3>4. \/ fits /\ z = [low |-> low, high |-> middle]
          \/ ~fits /\ z = [low |-> middle + 1, high |-> high]
      <4>1. \A y : [r EXCEPT !.low = y] = [low |-> y, high |-> high]
        BY <2>1
      <4>2. \A y : [r EXCEPT !.high = y] = [low |-> low, high |-> y]
        BY <2>1
      <4> HIDE DEF low, high
      <4> QED BY <2>2, <3>2, <4>1, <4>2
    <3> HIDE DEF low, high
    <3>5. CASE fits /\ z = [low |-> low, high |-> middle]
      <4>1. z.low = low /\ z.high = middle /\ z \in [low : Nat, high : Nat] /\ middle <= n
        BY <1>1, <2>1, <3>1, <3>5
      <4>2. high - low <= n - (i - 1) => middle - low <= n - i
        BY <1>1, <2>1, <3>1
      <4>3. z \in W
        BY <2>1, <3>1, <4>1 DEF Ranges, n
      <4>4. Closes(z, s, i) <=> middle - low <= n - i
        BY <4>1 DEF Closes, n
      <4>5. Fits(z.high)
        BY <3>3, <3>5, <4>1
      <4> QED BY <2>3, <4>2, <4>3, <4>4, <4>5 DEF z
    <3>6. CASE ~fits /\ z = [low |-> middle + 1, high |-> high]
      <4>1. middle + 1 \in Nat /\ middle + 1 <= high
        BY <1>1, <2>1, <3>1, <3>6
      <4>2. z.low = middle + 1 /\ z.high = high /\ z \in [low : Nat, high : Nat]
        BY <2>1, <3>6, <4>1
      <4>3. high - low <= n - (i - 1) => high - (middle + 1) <= n - i
        BY <1>1, <2>1, <3>1
      <4>4. z \in W
        BY <2>1, <4>1, <4>2 DEF Ranges, n
      <4>5. Closes(z, s, i) <=> high - (middle + 1) <= n - i
        BY <4>2 DEF Closes, n
      <4>6. Fits(r.high) => Fits(z.high)
        BY <4>2 DEF high
      <4> QED BY <2>3, <4>3, <4>4, <4>5, <4>6 DEF z
    <3> QED BY <3>4, <3>5, <3>6
  <2> QED BY <2>1, <2>4, <2>5
<1>4. [low |-> 0, high |-> Len(s)] \in W
  BY <1>1 DEF Ranges
<1>2. Fits(n)
  OBVIOUS
<1> HIDE DEF W, Fits
<1>5. PICK h : TailWalk(h, W, s, limit)
  <2>1. \A w \in W, i \in 1..Len(s) : NarrowTail(s, limit, w) \in W
    BY <1>3
  <2> QED BY <1>4, <2>1, TailPath
<1>6. /\ h \in [0..n -> W] /\ h[0] = [low |-> 0, high |-> n] /\ TailStart(s, limit) = h[n].low
      /\ \A i \in 1..n : h[i] = NarrowTail(s, limit, h[i - 1])
  BY <1>5 DEF TailWalk
<1> HIDE DEF n
<1> DEFINE P == {i \in 0..n : Fits(h[i].high) /\ Closes(h[i], s, i)}
<1>7. 0 \in P
  <2>1. h[0].high = n /\ h[0].low = 0
    BY <1>6
  <2>2. Closes(h[0], s, 0) <=> n - 0 <= n - 0
    BY <2>1 DEF Closes, n
  <2> QED BY <1>1, <1>2, <2>1, <2>2
<1>8. ASSUME NEW i \in 1..n, i - 1 \in P PROVE i \in P
  <2> DEFINE r == h[i - 1]
  <2>1. r \in W /\ Fits(r.high) /\ Closes(r, s, i - 1) /\ i \in 0..n
    BY <1>1, <1>6, <1>8
  <2>2. h[i] = NarrowTail(s, limit, r)
    BY <1>6
  <2> HIDE DEF r
  <2>3. Fits(h[i].high) /\ Closes(h[i], s, i)
    BY <1>3, <2>1, <2>2
  <2> QED BY <2>1, <2>3
<1> HIDE DEF P
<1>9. \A i \in 1..n : i - 1 \in P => i \in P
  BY <1>8
<1>10. n \in P
  BY <1>1, <1>7, <1>9, Along
<1> DEFINE e == h[n]
           a == e.low
<1>11. e \in W /\ Fits(e.high) /\ Closes(e, s, n)
  BY <1>1, <1>6, <1>10 DEF P
<1>12. TailStart(s, limit) = a
  BY <1>6
<1> HIDE DEF e
<1>13. e.high \in Nat /\ e.low \in Nat /\ e.low <= e.high /\ e.high <= n /\ e.high - e.low <= n - n
  BY <1>11 DEF Closes, W, Ranges, n
<1>14. e.high = a /\ a <= n /\ a \in Nat
  BY <1>1, <1>13
<1> HIDE DEF a
<1>15. Fits(a)
  BY <1>11, <1>14
<1> QED BY <1>1, <1>12, <1>14, <1>15 DEF n, Fits

\* After i turns of _hard_split.
Splits(r, s, i) ==
  /\ Successive(r.pieces) /\ AllTrimmed(r.pieces) /\ Ordered(r.rest) /\ Later(r.pieces, r.rest)
  /\ \A p : InkAt(s, p) <=> Ink(r.pieces, p) \/ InkAt(r.rest, p)
  /\ Len(r.rest) <= Len(s) - i

LEMMA TurnSplits ==
  ASSUME NEW G, NEW s \in Seq(G), NEW limit \in Nat, limit > SpecialTokens, NEW i \in 1..Len(s),
         NEW pieces \in Seq(Seq(G)), NEW rest \in Seq(G),
         Splits([pieces |-> pieces, rest |-> rest], s, i - 1)
  PROVE  LET z == CutPrefix([pieces |-> pieces, rest |-> rest], limit) IN
         /\ z \in [pieces : Seq(Seq(G)), rest : Seq(G)]
         /\ Splits(z, s, i)
<1> DEFINE V == Seq(G)
           r == [pieces |-> pieces, rest |-> rest]
           z == CutPrefix(r, limit)
           n == Len(s)
           l == Len(rest)
           e == LargestPrefix(rest, limit)
<1>1. n \in Nat /\ l \in Nat /\ i \in Nat /\ i <= n
  OBVIOUS
<1>2. r.pieces = pieces /\ r.rest = rest
  OBVIOUS
<1>3. /\ Successive(pieces) /\ AllTrimmed(pieces) /\ Ordered(rest) /\ Later(pieces, rest)
      /\ \A p : InkAt(s, p) <=> Ink(pieces, p) \/ InkAt(rest, p)
      /\ l <= n - (i - 1)
  BY <1>2 DEF Splits
<1>4. z = IF rest = <<>> THEN r
          ELSE [pieces |-> Append(pieces, Strip(SubSeq(rest, 1, e))),
                rest |-> Strip(SubSeq(rest, e + 1, Len(rest)))]
  BY <1>2 DEF CutPrefix
<1>5. CASE rest = <<>>
  <2>1. z = r /\ l = 0
    BY <1>4, <1>5
  <2>2. z \in [pieces : Seq(V), rest : V]
    <3>1. pieces \in Seq(V) /\ rest \in V
      OBVIOUS
    <3> HIDE DEF z, V
    <3>2. r \in [pieces : Seq(V), rest : V]
      BY <3>1
    <3> QED BY <2>1, <3>2
  <2> HIDE DEF z, n, l, r
  <2>3. l <= n - i
    BY <1>1, <2>1
  <2> QED BY <1>2, <1>3, <2>1, <2>2, <2>3 DEF Splits, z, r, n, l, V
<1>6. CASE rest # <<>>
  <2> DEFINE x == SubSeq(rest, 1, e)
             y == SubSeq(rest, e + 1, Len(rest))
             a == Strip(x)
             b == Strip(y)
             w == Append(pieces, a)
  <2>1. z = [pieces |-> w, rest |-> b]
    BY <1>4, <1>6
  <2>2. Len(rest) > 0
    BY <1>6
  <2>3. e \in 1..Len(rest)
    BY <2>2, PrefixAdvances
  <2> HIDE DEF e
  <2>4. e \in Nat /\ e >= 1 /\ e <= l /\ e \in 0..Len(rest)
    BY <2>3
  <2>5. /\ x \in V /\ y \in V /\ Len(y) = l - e /\ Ordered(x) /\ Ordered(y) /\ LiesBefore(x, y)
        /\ \A p : InkAt(rest, p) <=> InkAt(x, p) \/ InkAt(y, p)
    BY <1>3, <2>4, TwoInk
  <2> HIDE DEF x, y
  <2>6. /\ a \in V /\ Trimmed(a) /\ Ordered(a) /\ \A p : InkAt(a, p) <=> InkAt(x, p)
    BY <2>5, StripInk
  <2>7. /\ b \in V /\ Ordered(b) /\ Len(b) <= Len(y) /\ \A p : InkAt(b, p) <=> InkAt(y, p)
    BY <2>5, StripInk
  <2>8. Len(b) \in Nat /\ pieces \in Seq(V)
    BY <2>7
  <2> HIDE DEF a, b, V, z, n, l
  <2>9. LiesBefore(a, b)
    BY <2>5, <2>6, <2>7 DEF LiesBefore
  <2>10. Later(pieces, a) /\ Later(pieces, b)
    BY <1>3, <2>5, <2>6, <2>7 DEF Later, LiesBefore
  <2>11. /\ w \in Seq(V) /\ Successive(w) /\ AllTrimmed(w) /\ Later(w, b)
         /\ \A p : Ink(w, p) <=> Ink(pieces, p) \/ InkAt(a, p)
    BY <1>3, <2>6, <2>8, <2>9, <2>10, InkAppended
  <2>12. Len(b) <= n - i
    <3> DEFINE m == Len(b)
               k == Len(y)
    <3>1. m \in Nat /\ m <= k /\ k = l - e
      BY <2>5, <2>7, <2>8
    <3> HIDE DEF m, k
    <3>2. m <= n - i
      BY <1>1, <1>3, <2>4, <3>1
    <3> QED BY <3>2 DEF m
  <2> HIDE DEF w
  <2>13. z.pieces = w /\ z.rest = b /\ z \in [pieces : Seq(V), rest : V]
    BY <2>1, <2>7, <2>11
  <2>14. \A p : InkAt(s, p) <=> Ink(w, p) \/ InkAt(b, p)
    BY <1>3, <2>5, <2>6, <2>7, <2>11
  <2>15. Splits(z, s, i)
    BY <2>7, <2>11, <2>12, <2>13, <2>14 DEF Splits, n
  <2> QED BY <2>13, <2>15 DEF z, V, r
<1> QED BY <1>5, <1>6

LEMMA HardSplitCuts ==
  ASSUME NEW G, NEW s \in Seq(G), Ordered(s), NEW limit \in Nat, limit > SpecialTokens
  PROVE  HardSplit(s, limit) \in Seq(Seq(G)) /\ Cuts(HardSplit(s, limit), s)
<1> DEFINE n == Len(s)
           W == [pieces : Seq(Seq(G)), rest : Seq(G)]
<1>1. n \in Nat
  OBVIOUS
<1>2. [pieces |-> <<>>, rest |-> s] \in W
  OBVIOUS
<1>3. ASSUME NEW r \in W, NEW i \in 1..n
      PROVE  /\ CutPrefix(r, limit) \in W
             /\ Splits(r, s, i - 1) => Splits(CutPrefix(r, limit), s, i)
  <2> DEFINE pieces == r.pieces
             rest == r.rest
  <2>1. pieces \in Seq(Seq(G)) /\ rest \in Seq(G) /\ r = [pieces |-> pieces, rest |-> rest]
    BY <1>3
  <2>2. CutPrefix(r, limit) \in W
    <3> DEFINE e == LargestPrefix(rest, limit)
               a == Strip(SubSeq(rest, 1, e))
               b == Strip(SubSeq(rest, e + 1, Len(rest)))
               V == Seq(G)
    <3>1. CutPrefix(r, limit) = IF rest = <<>> THEN r ELSE [pieces |-> Append(pieces, a), rest |-> b]
      BY DEF CutPrefix
    <3>2. e \in 0..Len(rest)
      <4>1. SpecialTokens <= limit
        BY DEF SpecialTokens
      <4> QED BY <2>1, <4>1, PrefixFits
    <3> HIDE DEF e
    <3>3. e \in Nat /\ e <= Len(rest) /\ Len(rest) \in Nat /\ 1 <= e + 1 /\ e + 1 >= 1
      BY <2>1, <3>2
    <3>4. SubSeq(rest, 1, e) \in Seq(G) /\ SubSeq(rest, e + 1, Len(rest)) \in Seq(G)
      BY <2>1, <3>3, SubText
    <3>5. a \in V /\ b \in V
      BY <3>4, StripKeepsTokens
    <3>6. pieces \in Seq(V)
      BY <2>1
    <3> HIDE DEF a, b, V
    <3>7. Append(pieces, a) \in Seq(V)
      BY <3>5, <3>6, LineAppended
    <3>8. [pieces |-> Append(pieces, a), rest |-> b] \in [pieces : Seq(V), rest : V]
      BY <3>5, <3>7
    <3> QED BY <1>3, <3>1, <3>8 DEF V
  <2>3. ASSUME Splits(r, s, i - 1) PROVE Splits(CutPrefix(r, limit), s, i)
    <3>1. Splits([pieces |-> pieces, rest |-> rest], s, i - 1)
      BY <2>1, <2>3
    <3> HIDE DEF pieces, rest
    <3>2. Splits(CutPrefix([pieces |-> pieces, rest |-> rest], limit), s, i)
      BY <2>1, <3>1, TurnSplits
    <3> QED BY <2>1, <3>2
  <2> QED BY <2>2, <2>3
<1> HIDE DEF W
<1>4. PICK h : HardWalk(h, W, s, limit)
  <2>1. \A w \in W, i \in 1..Len(s) : CutPrefix(w, limit) \in W
    BY <1>3
  <2> QED BY <1>2, <2>1, HardPath
<1>5. /\ h \in [0..n -> W] /\ h[0] = [pieces |-> <<>>, rest |-> s]
      /\ HardSplit(s, limit) = h[n].pieces
      /\ \A i \in 1..n : h[i] = CutPrefix(h[i - 1], limit)
  BY <1>4 DEF HardWalk
<1> HIDE DEF n
<1> DEFINE P == {i \in 0..n : Splits(h[i], s, i)}
<1>6. 0 \in P
  <2> DEFINE b == [pieces |-> <<>>, rest |-> s]
  <2>1. b.pieces = <<>> /\ b.rest = s
    OBVIOUS
  <2> HIDE DEF b
  <2>2. Len(s) <= Len(s) - 0
    BY <1>1 DEF n
  <2>3. AllTrimmed(<<>>)
    BY NoInk DEF AllTrimmed, Tight
  <2>4. Splits(b, s, 0)
    BY <2>1, <2>2, <2>3, NoInk DEF Splits
  <2>5. 0 \in 0..n
    BY <1>1
  <2> QED BY <1>5, <2>4, <2>5 DEF b
<1>7. ASSUME NEW i \in 1..n, i - 1 \in P PROVE i \in P
  <2> DEFINE r == h[i - 1]
  <2>1. r \in W /\ Splits(r, s, i - 1) /\ i \in 0..n
    BY <1>1, <1>5, <1>7
  <2>2. h[i] = CutPrefix(r, limit)
    BY <1>5
  <2> HIDE DEF r
  <2>3. Splits(h[i], s, i)
    BY <1>3, <2>1, <2>2
  <2> QED BY <2>1, <2>3
<1> HIDE DEF P
<1>8. \A i \in 1..n : i - 1 \in P => i \in P
  BY <1>7
<1>9. n \in P
  BY <1>1, <1>6, <1>8, Along
<1> DEFINE r == h[n]
           pieces == r.pieces
           rest == r.rest
<1>10. r \in W /\ Splits(r, s, n) /\ HardSplit(s, limit) = pieces
  BY <1>1, <1>5, <1>9 DEF P
<1> HIDE DEF r
<1>11. /\ pieces \in Seq(Seq(G)) /\ rest \in Seq(G)
       /\ Successive(pieces) /\ AllTrimmed(pieces) /\ Len(rest) <= n - n
       /\ \A p : InkAt(s, p) <=> Ink(pieces, p) \/ InkAt(rest, p)
  BY <1>10 DEF Splits, W, n
<1> HIDE DEF pieces, rest
<1>12. rest = <<>>
  <2>1. Len(rest) \in Nat /\ n - n = 0
    BY <1>1, <1>11
  <2>2. Len(rest) = 0
    BY <1>11, <2>1
  <2> QED BY <1>11, <2>2
<1>13. \A p : ~InkAt(rest, p)
  BY <1>12, NoInk
<1> QED BY <1>10, <1>11, <1>13 DEF Cuts

-----------------------------------------------------------------------------
(* The pieces of a text are the text.                                      *)

LEMMA OnePiece ==
  ASSUME NEW G, NEW s \in Seq(G), Ordered(s), Trimmed(s)
  PROVE  <<s>> \in Seq(Seq(G)) /\ Cuts(<<s>>, s) /\ (s # <<>> => Tight(<<s>>))
<1> DEFINE v == <<s>>
<1>1. v \in Seq(Seq(G))
  OBVIOUS
<1>2. Len(v) = 1 /\ v[1] = s /\ 1 \in 1..1 /\ \A k \in 1..1 : k = 1
  OBVIOUS
<1>3. ~ 1 < 1
  OBVIOUS
<1> HIDE DEF v
<1>4. Successive(v)
  BY <1>2, <1>3 DEF Successive
<1>5. AllTrimmed(v) /\ (s # <<>> => Tight(v))
  BY <1>2 DEF AllTrimmed, Tight
<1>6. \A p : Ink(v, p) <=> InkAt(s, p)
  BY <1>2 DEF Ink
<1> QED BY <1>1, <1>4, <1>5, <1>6 DEF Cuts, v

LEMMA HardPieces ==
  ASSUME NEW G, NEW s \in Seq(G), Ordered(s), Trimmed(s), NEW limit \in Nat, limit > SpecialTokens
  PROVE  SplitHard(s, limit) \in Seq(Seq(G)) /\ Cuts(SplitHard(s, limit), s)
BY OnePiece, HardSplitCuts DEF SplitHard

\* The parts at a separator, split in turn.
LEMMA PiecesOfParts ==
  ASSUME NEW G, Sited(G), NEW s \in Seq(G), Ordered(s), NEW separator,
         NEW split, split = [k \in DOMAIN Parts(s, separator) |-> split[k]],
         \A t \in Seq(G), k \in DOMAIN Parts(s, separator) :
           t = Parts(s, separator)[k] /\ Ordered(t) /\ Trimmed(t)
             => split[k] \in Seq(Seq(G)) /\ Cuts(split[k], t)
  PROVE  Flat(split) \in Seq(Seq(G)) /\ Cuts(Flat(split), s) /\ Tight(Flat(split))
<1> DEFINE V == Seq(G)
           W == Seq(V)
           parts == Parts(s, separator)
           n == Len(parts)
<1>1. parts \in Seq(V) /\ Cuts(parts, s) /\ \A k \in 1..n : Ordered(parts[k])
  BY PartsCut
<1>2. DOMAIN parts = 1..n /\ n \in Nat /\ \A k \in 1..n : parts[k] \in V
  BY <1>1
<1> HIDE DEF parts
<1>3. \A k \in 1..n : Trimmed(parts[k])
  BY <1>1 DEF Cuts, AllTrimmed
<1>4. \A k \in 1..n : split[k] \in W /\ Cuts(split[k], parts[k])
  BY <1>1, <1>2, <1>3 DEF parts
<1>5. split = [k \in 1..n |-> split[k]]
  <2>1. DOMAIN Parts(s, separator) = 1..n
    BY <1>2 DEF parts
  <2> QED BY <2>1
<1> HIDE DEF n, W, V
<1>6. split \in Seq(W) /\ Len(split) = n
  BY <1>2, <1>4, <1>5
<1>7. Flat(split) \in Seq(V) /\ Cuts(Flat(split), s) /\ Tight(Flat(split))
  BY <1>1, <1>4, <1>6, CutsOfCuts DEF W, n
<1> QED BY <1>7 DEF V

LEMMA BreakPieces ==
  ASSUME NEW G, Sited(G), NEW s \in Seq(G), Ordered(s), Trimmed(s), NEW limit \in Nat, limit > SpecialTokens
  PROVE  SplitAtBreaks(s, limit) \in Seq(Seq(G)) /\ Cuts(SplitAtBreaks(s, limit), s)
<1> DEFINE parts == Parts(s, "n")
           split == [k \in DOMAIN parts |-> SplitHard(parts[k], limit)]
<1>1. SplitAtBreaks(s, limit) = IF Tokens(s) <= limit THEN <<s>> ELSE Flat(split)
  BY DEF SplitAtBreaks
<1>2. split = [k \in DOMAIN parts |-> split[k]]
  OBVIOUS
<1>3. \A t \in Seq(G), k \in DOMAIN parts : t = parts[k] /\ Ordered(t) /\ Trimmed(t)
        => split[k] \in Seq(Seq(G)) /\ Cuts(split[k], t)
  BY HardPieces
<1> HIDE DEF split
<1>4. Flat(split) \in Seq(Seq(G)) /\ Cuts(Flat(split), s)
  BY <1>2, <1>3, PiecesOfParts
<1> QED BY <1>1, <1>4, OnePiece

LEMMA SentencePieces ==
  ASSUME NEW G, Sited(G), NEW s \in Seq(G), Ordered(s), Trimmed(s), NEW limit \in Nat, limit > SpecialTokens
  PROVE  SplitAtSentences(s, limit) \in Seq(Seq(G)) /\ Cuts(SplitAtSentences(s, limit), s)
<1> DEFINE parts == Parts(s, ".")
           split == [k \in DOMAIN parts |-> SplitAtBreaks(parts[k], limit)]
<1>1. SplitAtSentences(s, limit) = IF Tokens(s) <= limit THEN <<s>> ELSE Flat(split)
  BY DEF SplitAtSentences
<1>2. split = [k \in DOMAIN parts |-> split[k]]
  OBVIOUS
<1>3. \A t \in Seq(G), k \in DOMAIN parts : t = parts[k] /\ Ordered(t) /\ Trimmed(t)
        => split[k] \in Seq(Seq(G)) /\ Cuts(split[k], t)
  BY BreakPieces
<1> HIDE DEF split
<1>4. Flat(split) \in Seq(Seq(G)) /\ Cuts(Flat(split), s)
  BY <1>2, <1>3, PiecesOfParts
<1> QED BY <1>1, <1>4, OnePiece

LEMMA PiecesCut ==
  ASSUME NEW G, Sited(G), NEW s \in Seq(G), Ordered(s), Trimmed(s), s # <<>>,
         NEW limit \in Nat, limit > SpecialTokens
  PROVE  LET v == SplitToLimit(s, limit) IN v \in Seq(Seq(G)) /\ Cuts(v, s) /\ Tight(v)
<1> DEFINE parts == Parts(s, "#")
           split == [k \in DOMAIN parts |-> SplitAtSentences(parts[k], limit)]
<1>1. SplitToLimit(s, limit) = IF Tokens(s) <= limit THEN <<s>> ELSE Flat(split)
  BY DEF SplitToLimit
<1>2. split = [k \in DOMAIN parts |-> split[k]]
  OBVIOUS
<1>3. \A t \in Seq(G), k \in DOMAIN parts : t = parts[k] /\ Ordered(t) /\ Trimmed(t)
        => split[k] \in Seq(Seq(G)) /\ Cuts(split[k], t)
  BY SentencePieces
<1> HIDE DEF split
<1>4. Flat(split) \in Seq(Seq(G)) /\ Cuts(Flat(split), s) /\ Tight(Flat(split))
  BY <1>2, <1>3, PiecesOfParts
<1> QED BY <1>1, <1>4, OnePiece

-----------------------------------------------------------------------------
(* Stretches of a text.                                                    *)

\* The place of the last glyph.
End(t) == t[Len(t)].place

Solid(t) == t # <<>> /\ Trimmed(t) /\ Ordered(t)

\* t is what s has after place x and up to t's end.
Spans(t, s, x) ==
  /\ Solid(t)
  /\ \A p \in Nat : InkAt(t, p) <=> InkAt(s, p) /\ x < p /\ p <= End(t)

\* What t has up to place y is at its beginning, and within o tokens.
Echoes(t, y, o) == \E r \in 0..Len(t) :
  /\ \A i \in 1..Len(t) : t[i].class # "n" => (t[i].place <= y <=> i <= r)
  /\ r > 0 => t[r].class # "n" /\ Tokens(SubSeq(t, 1, r)) <= o

LEMMA EndIsLast ==
  ASSUME NEW G, Sited(G), NEW t \in Seq(G), Solid(t)
  PROVE  /\ End(t) \in Nat /\ InkAt(t, End(t))
         /\ \A p : InkAt(t, p) => p \in Nat /\ p <= End(t)
         /\ Len(t) \in Nat /\ Len(t) > 0
<1> DEFINE n == Len(t)
<1>1. n \in Nat /\ n > 0 /\ n \in 1..n /\ \A i \in 1..n : t[i] \in G /\ (i = n \/ i < n)
  BY DEF Solid
<1>2. t[n].class # "n"
  BY <1>1 DEF Solid, Trimmed
<1>3. \A i \in 1..n : t[i].place \in Nat
  BY <1>1 DEF Sited
<1> DEFINE e == t[n].place
<1>4. e \in Nat /\ End(t) = e
  BY <1>1, <1>3 DEF End
<1>5. InkAt(t, e)
  BY <1>1, <1>2 DEF InkAt
<1>6. ASSUME NEW p, InkAt(t, p) PROVE p \in Nat /\ p <= e
  <2>1. PICK i \in 1..n : t[i].class # "n" /\ t[i].place = p
    BY <1>6 DEF InkAt
  <2> HIDE DEF n
  <2>2. p \in Nat
    BY <1>3, <2>1
  <2>3. CASE i = n
    BY <1>4, <2>1, <2>2, <2>3
  <2>4. CASE i < n
    <3>1. t[i].place < t[n].place
      BY <1>1, <1>2, <2>1, <2>4 DEF Solid, Ordered, n
    <3> QED BY <1>3, <1>1, <2>1, <3>1
  <2> QED BY <1>1, <2>2, <2>3, <2>4
<1> HIDE DEF e
<1> QED BY <1>1, <1>4, <1>5, <1>6

\* Strip leaves a trimmed text as it is.
LEMMA TrimmedStays ==
  ASSUME NEW G, NEW t \in Seq(G), Trimmed(t), t # <<>>
  PROVE  Strip(t) = t
<1> DEFINE n == Len(t)
           I == Inked(t)
<1>1. n \in Nat /\ n > 0 /\ n \in 1..n /\ 1 \in 1..n /\ DOMAIN t = 1..n
  OBVIOUS
<1>2. t[1].class # "n" /\ t[n].class # "n"
  BY <1>1 DEF Trimmed
<1>3. 1 \in I /\ n \in I /\ I \in SUBSET (1..n) /\ I \in SUBSET Nat
  BY <1>1, <1>2 DEF Inked
<1>4. IsFiniteSet(I)
  <2>1. IsFiniteSet(DOMAIN t)
    BY SequencePlaces
  <2> QED BY <1>1, <1>3, <2>1, FS_Subset
<1>5. Strip(t) = SubSeq(t, Min(I), Max(I))
  BY <1>3 DEF Strip
<1> HIDE DEF I
<1>6. Min(I) = 1 /\ Max(I) = n
  <2> DEFINE a == Min(I)
             b == Max(I)
  <2>1. a \in I /\ b \in I /\ \A i \in I : a <= i /\ i <= b
    BY <1>3, <1>4, MinIsLeast, MaxIsGreatest
  <2> HIDE DEF a, b, n
  <2>2. a <= 1 /\ n <= b /\ a \in 1..n /\ b \in 1..n
    BY <1>3, <2>1
  <2>3. a = 1 /\ b = n
    BY <1>1, <2>2
  <2> QED BY <2>3 DEF a, b
<1>7. SubSeq(t, 1, n) = t
  BY FirstLinesOf
<1> QED BY <1>5, <1>6, <1>7, Zenon

LEMMA SolidStays ==
  ASSUME NEW G, NEW t \in Seq(G), Solid(t)
  PROVE  Strip(t) = t
BY TrimmedStays DEF Solid

\* Two texts are the same glyph by glyph.
LEMMA SameText ==
  ASSUME NEW G, NEW t \in Seq(G), NEW u \in Seq(G), Len(t) = Len(u), \A i \in 1..Len(t) : t[i] = u[i]
  PROVE  t = u
OBVIOUS

JoinsTo(w, s, t) ==
  /\ Len(w) = Len(s) + Len(t)
  /\ \A j \in 1..Len(s) : w[j] = s[j]
  /\ \A j \in 1..Len(t) : w[Len(s) + j] = t[j]

LEMMA TextsJoin ==
  ASSUME NEW S, NEW s \in Seq(S), NEW t \in Seq(S)
  PROVE  s \o t \in Seq(S) /\ JoinsTo(s \o t, s, t)
BY Joined DEF JoinsTo

LEMMA ThreeJoined ==
  ASSUME NEW G, NEW t \in Seq(G), NEW b \in Seq(G), Len(b) = 1, NEW u \in Seq(G)
  PROVE  LET z == (t \o b) \o u IN
         /\ z \in Seq(G) /\ Len(z) = Len(t) + 1 + Len(u)
         /\ \A i \in 1..Len(t) : z[i] = t[i]
         /\ z[Len(t) + 1] = b[1]
         /\ \A i \in 1..Len(u) : z[Len(t) + 1 + i] = u[i]
<1> DEFINE v == t \o b
           z == v \o u
           k == Len(t)
           m == k + 1
           n == Len(u)
<1>1. v \in Seq(G) /\ JoinsTo(v, t, b)
  BY TextsJoin
<1>2. k \in Nat /\ n \in Nat
  OBVIOUS
<1>6. Len(b) = 1 /\ 1 \in 1..1
  OBVIOUS
<1> HIDE DEF v
<1>3. z \in Seq(G) /\ JoinsTo(z, v, u)
  BY <1>1, TextsJoin
<1> HIDE DEF z, k, n
<1>4. /\ Len(v) = m /\ \A j \in 1..k : v[j] = t[j]
      /\ \A j \in 1..1 : v[k + j] = b[j]
  BY <1>1, <1>6 DEF JoinsTo, k
<1>5. v[m] = b[1]
  BY <1>4, <1>6
<1>7. /\ Len(z) = m + n /\ \A j \in 1..m : z[j] = v[j]
      /\ \A j \in 1..n : z[m + j] = u[j]
  BY <1>3, <1>4 DEF JoinsTo, n
<1>8. m \in 1..m /\ \A j \in 1..k : j \in 1..m
  BY <1>2
<1> QED BY <1>3, <1>4, <1>5, <1>7, <1>8 DEF z, v, k, n

LEMMA JoinLaysOut ==
  ASSUME NEW G, Break \in G, NEW t \in Seq(G), Solid(t), NEW u \in Seq(G), Solid(u)
  PROVE  LET w == Join(t, u) IN
         /\ w \in Seq(G) /\ Len(w) = Len(t) + 1 + Len(u)
         /\ \A i \in 1..Len(t) : w[i] = t[i]
         /\ w[Len(t) + 1].class = "n"
         /\ \A i \in 1..Len(u) : w[Len(t) + 1 + i] = u[i]
         /\ Trimmed(w) /\ w # <<>>
<1> DEFINE b == <<Break>>
           z == (t \o b) \o u
           k == Len(t)
           m == k + 1
           n == Len(u)
<1>1. k \in Nat /\ n \in Nat /\ k > 0 /\ n > 0
  BY DEF Solid
<1>2. b \in Seq(G) /\ Len(b) = 1 /\ b[1].class = "n"
  BY DEF Break, Glyph
<1>11. Join(t, u) = Strip(z)
  BY DEF Join, Solid
<1> HIDE DEF b
<1>3. /\ z \in Seq(G) /\ Len(z) = Len(t) + 1 + Len(u)
      /\ \A i \in 1..Len(t) : z[i] = t[i]
      /\ z[Len(t) + 1] = b[1]
      /\ \A i \in 1..Len(u) : z[Len(t) + 1 + i] = u[i]
  BY <1>2, ThreeJoined
<1> HIDE DEF z
<1>4. /\ Len(z) = m + n /\ (\A i \in 1..k : z[i] = t[i]) /\ z[m].class = "n"
      /\ \A i \in 1..n : z[m + i] = u[i]
  BY <1>2, <1>3
<1>5. 1 \in 1..k /\ n \in 1..n /\ m + n > 0
  BY <1>1
<1>9. t[1].class # "n" /\ u[n].class # "n"
  BY <1>1 DEF Solid, Trimmed
<1> HIDE DEF k, m, n
<1>7. Len(z) > 0 /\ z # <<>>
  <2>2. Len(<<>>) = 0
    OBVIOUS
  <2> QED BY <1>4, <1>5, <2>2
<1>8. z[1] = t[1] /\ z[Len(z)] = u[n]
  BY <1>4, <1>5
<1>10. Trimmed(z)
  BY <1>8, <1>9 DEF Trimmed
<1>12. Strip(z) = z
  BY <1>3, <1>7, <1>10, TrimmedStays
<1>13. Join(t, u) = z
  BY <1>11, <1>12
<1>14. z[Len(t) + 1].class = "n"
  BY <1>4 DEF m, k
<1> HIDE DEF b
<1> QED BY <1>3, <1>7, <1>10, <1>13, <1>14

\* Two stretches, joined.
LEMMA JoinSpans ==
  ASSUME NEW G, Sited(G), Break \in G, NEW t \in Seq(G), NEW u \in Seq(G), NEW s,
         NEW x \in Nat, Spans(t, s, x), Spans(u, s, End(t))
  PROVE  LET w == Join(t, u) IN
         /\ w \in Seq(G) /\ Spans(w, s, x) /\ End(w) = End(u)
<1> DEFINE w == Join(t, u)
           k == Len(t)
           m == k + 1
           n == Len(u)
<1>1. Solid(t) /\ Solid(u)
  BY DEF Spans
<1>2. /\ End(t) \in Nat /\ InkAt(t, End(t)) /\ (\A p : InkAt(t, p) => p \in Nat /\ p <= End(t))
      /\ k \in Nat /\ k > 0
  BY <1>1, EndIsLast
<1>3. /\ End(u) \in Nat /\ InkAt(u, End(u)) /\ (\A p : InkAt(u, p) => p \in Nat /\ p <= End(u))
      /\ n \in Nat /\ n > 0
  BY <1>1, EndIsLast
<1>4. /\ w \in Seq(G) /\ Len(w) = m + n
      /\ \A i \in 1..k : w[i] = t[i]
      /\ w[m].class = "n"
      /\ \A i \in 1..n : w[m + i] = u[i]
      /\ Trimmed(w) /\ w # <<>>
  BY <1>1, JoinLaysOut
<1> HIDE DEF w
<1> DEFINE e == End(t)
           f == End(u)
<1>5. \A p : InkAt(u, p) => e < p
  BY <1>3 DEF Spans
<1>6. e < f
  BY <1>3, <1>5
<1>7. \A i \in 1..(m + n) : i \in 1..k \/ i = m \/ (i - m \in 1..n /\ m + (i - m) = i)
  BY <1>2, <1>3
<1>8. (\A i \in 1..k : i \in 1..(m + n)) /\ \A i \in 1..n : m + i \in 1..(m + n)
  BY <1>2, <1>3
<1>9. \A i \in 1..k : t[i].class # "n" => InkAt(t, t[i].place)
  BY DEF InkAt
<1>10. \A i \in 1..n : u[i].class # "n" => InkAt(u, u[i].place)
  BY DEF InkAt
<1> HIDE DEF k, n, m, e, f
<1>11. ASSUME NEW p PROVE InkAt(w, p) <=> InkAt(t, p) \/ InkAt(u, p)
  <2>1. ASSUME InkAt(w, p) PROVE InkAt(t, p) \/ InkAt(u, p)
    <3>1. PICK i \in 1..(m + n) : w[i].class # "n" /\ w[i].place = p
      BY <1>4, <2>1 DEF InkAt
    <3>2. i # m
      BY <1>4, <3>1
    <3>3. CASE i \in 1..k
      BY <1>4, <1>9, <3>1, <3>3
    <3>4. CASE i - m \in 1..n /\ m + (i - m) = i
      <4> DEFINE j == i - m
      <4>1. j \in 1..n /\ w[m + j] = u[j] /\ m + j = i
        BY <1>4, <3>4
      <4> HIDE DEF j
      <4> QED BY <1>10, <3>1, <4>1
    <3> QED BY <1>7, <3>2, <3>3, <3>4
  <2>2. ASSUME InkAt(t, p) PROVE InkAt(w, p)
    <3>1. PICK i \in 1..k : t[i].class # "n" /\ t[i].place = p
      BY <2>2 DEF InkAt, k
    <3> QED BY <1>4, <1>8, <3>1 DEF InkAt
  <2>3. ASSUME InkAt(u, p) PROVE InkAt(w, p)
    <3>1. PICK i \in 1..n : u[i].class # "n" /\ u[i].place = p
      BY <2>3 DEF InkAt, n
    <3> QED BY <1>4, <1>8, <3>1 DEF InkAt
  <2> QED BY <2>1, <2>2, <2>3
<1>12. Ordered(w)
  <2> SUFFICES ASSUME NEW i \in 1..(m + n), NEW j \in 1..(m + n), i < j,
                      w[i].class # "n", w[j].class # "n"
               PROVE  w[i].place < w[j].place
    BY <1>4 DEF Ordered
  <2>1. i # m /\ j # m
    BY <1>4
  <2>2. CASE i \in 1..k /\ j \in 1..k
    BY <1>1, <1>4, <2>2 DEF Solid, Ordered, k
  <2>3. CASE i \in 1..k /\ (j - m \in 1..n /\ m + (j - m) = j)
    <3> DEFINE l == j - m
    <3>1. l \in 1..n /\ w[j] = u[l] /\ w[i] = t[i]
      BY <1>4, <2>3
    <3> HIDE DEF l
    <3>2. InkAt(t, t[i].place) /\ InkAt(u, u[l].place)
      BY <1>9, <1>10, <2>3, <3>1
    <3> DEFINE p == t[i].place
               q == u[l].place
    <3>3. p \in Nat /\ p <= e /\ q \in Nat /\ e < q /\ e \in Nat
      BY <1>2, <1>3, <1>5, <3>2 DEF e
    <3> HIDE DEF p, q
    <3>4. p < q
      BY <3>3
    <3> QED BY <3>1, <3>4 DEF p, q
  <2>4. CASE (i - m \in 1..n /\ m + (i - m) = i) /\ (j - m \in 1..n /\ m + (j - m) = j)
    <3> DEFINE a == i - m
               l == j - m
    <3>1. l \in 1..n /\ a \in 1..n /\ a < l /\ w[j] = u[l] /\ w[i] = u[a]
      <4>1. m \in Nat
        BY <1>2 DEF m
      <4>2. a < l
        BY <4>1
      <4> QED BY <1>4, <2>4, <4>2
    <3> HIDE DEF a, l
    <3> QED BY <1>1, <3>1 DEF Solid, Ordered, n
  <2>5. ~ ((i - m \in 1..n /\ m + (i - m) = i) /\ j \in 1..k)
    <3> QED BY <1>2, <1>3 DEF m
  <2> QED BY <1>7, <2>1, <2>2, <2>3, <2>4, <2>5
<1>13. End(w) = f
  <2>1. n \in 1..n /\ Len(w) = m + n
    BY <1>3, <1>4
  <2>2. w[m + n] = u[n]
    BY <1>4, <2>1
  <2> QED BY <2>1, <2>2 DEF End, f, n
<1>14. ASSUME NEW p \in Nat PROVE InkAt(w, p) <=> InkAt(s, p) /\ x < p /\ p <= f
  <2>1. InkAt(t, p) <=> InkAt(s, p) /\ x < p /\ p <= e
    BY DEF Spans, e
  <2>2. InkAt(u, p) <=> InkAt(s, p) /\ e < p /\ p <= f
    BY DEF Spans, e, f
  <2>3. x < e
    BY <1>2 DEF Spans, e
  <2>4. e \in Nat /\ f \in Nat
    BY <1>2, <1>3 DEF e, f
  <2> QED BY <1>6, <1>11, <2>1, <2>2, <2>3, <2>4
<1>15. Solid(w)
  BY <1>4, <1>12 DEF Solid
<1> QED BY <1>4, <1>13, <1>14, <1>15 DEF Spans, w, f

\* What joins on the right changes nothing on the left.
LEMMA JoinEchoes ==
  ASSUME NEW G, Sited(G), Break \in G, NEW t \in Seq(G), NEW u \in Seq(G), NEW s,
         Solid(t), Spans(u, s, End(t)), NEW y \in Nat, y <= End(t), NEW o,
         NEW r \in 0..Len(t),
         \A i \in 1..Len(t) : t[i].class # "n" => (t[i].place <= y <=> i <= r),
         r > 0 => t[r].class # "n" /\ Tokens(SubSeq(t, 1, r)) <= o
  PROVE  Echoes(Join(t, u), y, o)
<1> DEFINE w == Join(t, u)
           k == Len(t)
           m == k + 1
           n == Len(u)
<1>1. Solid(u)
  BY DEF Spans
<1>2. End(t) \in Nat /\ k \in Nat /\ k > 0
  BY EndIsLast
<1>3. (\A p : InkAt(u, p) => p \in Nat) /\ n \in Nat /\ n > 0
  BY <1>1, EndIsLast
<1>4. /\ w \in Seq(G) /\ Len(w) = m + n
      /\ \A i \in 1..k : w[i] = t[i]
      /\ w[m].class = "n"
      /\ \A i \in 1..n : w[m + i] = u[i]
  BY <1>1, JoinLaysOut
<1>5. \A p : InkAt(u, p) => End(t) < p
  BY <1>3 DEF Spans
<1> HIDE DEF w
<1>6. r \in 0..(m + n) /\ r \in Nat /\ r <= k
  BY <1>2, <1>3
<1>7. ASSUME NEW i \in 1..(m + n), w[i].class # "n" PROVE w[i].place <= y <=> i <= r
  <2>1. CASE i \in 1..k
    BY <1>4, <1>7, <2>1
  <2>2. i # m
    BY <1>4, <1>7
  <2>3. CASE i > m
    <3> DEFINE j == i - m
    <3>1. j \in 1..n /\ m + j = i /\ ~ (i <= r)
      BY <1>2, <1>3, <1>6, <2>3
    <3> HIDE DEF j, m, n
    <3>2. w[i] = u[j]
      BY <1>4, <3>1
    <3>3. InkAt(u, u[j].place)
      BY <1>7, <3>1, <3>2 DEF InkAt, n
    <3> DEFINE q == u[j].place
    <3>4. q \in Nat /\ End(t) < q
      BY <1>3, <1>5, <3>3
    <3> HIDE DEF q
    <3>5. ~ (q <= y)
      BY <1>2, <3>4
    <3> QED BY <3>1, <3>2, <3>5 DEF q
  <2> QED BY <1>2, <1>3, <2>1, <2>2, <2>3
<1>8. ASSUME r > 0 PROVE w[r].class # "n" /\ Tokens(SubSeq(w, 1, r)) <= o
  <2>1. r \in 1..k
    BY <1>6, <1>8
  <2>2. SubSeq(w, 1, r) = SubSeq(t, 1, r)
    <3> DEFINE a == SubSeq(w, 1, r)
               b == SubSeq(t, 1, r)
    <3>1. 1 \in Nat /\ 1 >= 1 /\ 1 <= r + 1 /\ r <= Len(w) /\ r <= Len(t) /\ r - 1 + 1 = r
          /\ \A i \in 1..r : i + (1 - 1) = i /\ i \in 1..k
      BY <1>2, <1>3, <1>4, <1>6
    <3>2. a \in Seq(G) /\ Len(a) = r - 1 + 1 /\ \A i \in 1..(r - 1 + 1) : a[i] = w[i + (1 - 1)]
      BY <1>4, <1>6, <3>1, SubText
    <3>3. b \in Seq(G) /\ Len(b) = r - 1 + 1 /\ \A i \in 1..(r - 1 + 1) : b[i] = t[i + (1 - 1)]
      BY <1>6, <3>1, SubText
    <3> HIDE DEF a, b, k
    <3>4. Len(a) = r /\ Len(b) = r /\ \A i \in 1..r : a[i] = w[i + (1 - 1)] /\ b[i] = t[i + (1 - 1)]
      BY <3>1, <3>2, <3>3
    <3>5. \A i \in 1..r : a[i] = w[i] /\ b[i] = t[i]
      BY <3>1, <3>4
    <3>6. \A i \in 1..r : a[i] = b[i]
      BY <1>4, <3>1, <3>5
    <3>7. a = b
      BY <3>2, <3>3, <3>4, <3>6, SameText
    <3> QED BY <3>7 DEF a, b
  <2>3. w[r] = t[r]
    BY <1>4, <2>1
  <2> QED BY <1>8, <2>2, <2>3
<1>9. r \in 0..Len(w) /\ \A i \in 1..Len(w) : w[i].class # "n" => (w[i].place <= y <=> i <= r)
  BY <1>4, <1>6, <1>7
<1>10. Echoes(w, y, o)
  BY <1>8, <1>9 DEF Echoes
<1> QED BY <1>10 DEF w

\* The overlap is a stretch up to the end, or nothing.
LEMMA TailSpans ==
  ASSUME NEW G, Sited(G), NEW t \in Seq(G), NEW s, NEW x \in Nat, Spans(t, s, x), NEW o,
         TokenLimitedTail(t, o) # <<>>
  PROVE  LET u == TokenLimitedTail(t, o) IN
         /\ u \in Seq(G) /\ Tokens(u) <= o /\ End(u) = End(t)
         /\ \E y \in Nat : x <= y /\ y <= End(t) /\ Spans(u, s, y)
<1> DEFINE a == TailStart(t, o)
           h == SubSeq(t, 1, a)
           v == SubSeq(t, a + 1, Len(t))
           u == Strip(v)
<1>1. TokenLimitedTail(t, o) = u
  BY DEF TokenLimitedTail
<1>2. a \in 0..Len(t) /\ (a = Len(t) \/ Tokens(v) <= o)
  BY TailFits
<1>3. Solid(t)
  BY DEF Spans
<1>4. /\ End(t) \in Nat /\ InkAt(t, End(t)) /\ (\A p : InkAt(t, p) => p \in Nat /\ p <= End(t))
      /\ Len(t) \in Nat
  BY <1>3, EndIsLast
<1> HIDE DEF a
<1>5. /\ h \in Seq(G) /\ v \in Seq(G) /\ Len(v) = Len(t) - a /\ Ordered(v) /\ LiesBefore(h, v)
      /\ \A p : InkAt(t, p) <=> InkAt(h, p) \/ InkAt(v, p)
  BY <1>2, <1>3, TwoInk DEF Solid
<1> HIDE DEF h, v
<1>6. /\ u \in Seq(G) /\ Trimmed(u) /\ Ordered(u)
      /\ Len(u) <= Len(v)
      /\ \A p : InkAt(u, p) <=> InkAt(v, p)
  BY <1>5, StripInk
<1>7. Tokens(u) = Tokens(v)
  BY <1>5, StripKeepsTokens
<1>8. u # <<>>
  BY <1>1
<1> HIDE DEF u
<1>9. a # Len(t)
  <2>1. Len(u) \in Nat /\ Len(u) # 0
    BY <1>6, <1>8
  <2> DEFINE l == Len(u)
             m == Len(v)
             n == Len(t)
  <2>2. l \in Nat /\ l # 0 /\ l <= m /\ m = n - a /\ n \in Nat
    BY <1>4, <1>5, <1>6, <2>1
  <2> HIDE DEF l, m, n
  <2>3. a # n
    BY <2>2
  <2> QED BY <2>3 DEF n
<1>10. Tokens(u) <= o
  BY <1>2, <1>7, <1>9
<1>11. Solid(u)
  BY <1>6, <1>8 DEF Solid
<1>12. /\ End(u) \in Nat /\ InkAt(u, End(u)) /\ (\A p : InkAt(u, p) => p \in Nat /\ p <= End(u))
  BY <1>6, <1>11, EndIsLast
<1>13. End(u) = End(t)
  <2> DEFINE e == End(t)
             f == End(u)
  <2>1. f <= e
    BY <1>4, <1>5, <1>6, <1>12
  <2>2. CASE InkAt(h, e)
    <3>1. e < f
      BY <1>4, <1>5, <1>6, <1>12, <2>2 DEF LiesBefore
    <3> QED BY <1>4, <1>12, <2>1, <3>1
  <2>3. CASE InkAt(v, e)
    <3>1. e <= f
      BY <1>6, <1>12, <2>3
    <3> QED BY <1>4, <1>12, <2>1, <3>1
  <2> QED BY <1>4, <1>5, <2>2, <2>3
<1>14. PICK i \in 1..Len(u) : i = 1
  <2>1. Len(u) \in Nat /\ Len(u) # 0
    BY <1>6, <1>8
  <2> QED BY <2>1
<1> DEFINE q == u[1].place
           y == q - 1
<1>15. u[1].class # "n"
  <2>1. Len(u) > 0
    BY <1>6, <1>8
  <2> QED BY <1>6, <2>1 DEF Trimmed
<1>16. InkAt(u, q)
  BY <1>14, <1>15 DEF InkAt
<1>17. \A p : InkAt(u, p) => q <= p
  <2> SUFFICES ASSUME NEW p, InkAt(u, p) PROVE q <= p
    OBVIOUS
  <2>1. PICK j \in 1..Len(u) : u[j].class # "n" /\ u[j].place = p
    BY DEF InkAt
  <2>2. q \in Nat /\ p \in Nat
    BY <1>12, <1>16
  <2>3. CASE j = 1
    BY <2>1, <2>2, <2>3
  <2>4. CASE 1 < j
    <3>1. u[1].place < u[j].place
      BY <1>6, <1>14, <1>15, <2>1, <2>4 DEF Ordered
    <3> HIDE DEF q
    <3>2. q < p
      BY <2>1, <3>1 DEF q
    <3> QED BY <2>2, <3>2
  <2> QED BY <2>3, <2>4
<1> HIDE DEF q
<1>18. q \in Nat /\ x < q /\ q <= End(t) /\ InkAt(t, q)
  <2>1. InkAt(t, q) /\ q \in Nat
    BY <1>5, <1>6, <1>12, <1>16
  <2> QED BY <1>4, <2>1 DEF Spans
<1>19. y \in Nat /\ x <= y /\ y <= End(t) /\ \A p \in Nat : q <= p <=> y < p
  BY <1>4, <1>18
<1>20. ASSUME NEW p \in Nat PROVE InkAt(u, p) <=> InkAt(s, p) /\ y < p /\ p <= End(u)
  <2>1. InkAt(t, p) <=> InkAt(s, p) /\ x < p /\ p <= End(t)
    BY DEF Spans
  <2>2. ASSUME InkAt(u, p) PROVE InkAt(s, p) /\ y < p /\ p <= End(u)
    BY <1>5, <1>6, <1>12, <1>17, <1>19, <2>1, <2>2
  <2>3. ASSUME InkAt(s, p), y < p, p <= End(u) PROVE InkAt(u, p)
    <3>1. q <= p
      BY <1>19, <2>3
    <3>2. x < p
      BY <1>18, <3>1
    <3>3. InkAt(t, p)
      BY <1>13, <2>1, <2>3, <3>2
    <3>4. ASSUME InkAt(h, p) PROVE FALSE
      <4>1. InkAt(v, q)
        BY <1>6, <1>16
      <4>2. p < q
        BY <1>5, <1>18, <3>4, <4>1 DEF LiesBefore
      <4> QED BY <1>18, <3>1, <4>2
    <3> QED BY <1>5, <1>6, <3>3, <3>4
  <2> QED BY <2>2, <2>3
<1>21. Spans(u, s, y)
  BY <1>11, <1>20 DEF Spans
<1> QED BY <1>1, <1>6, <1>10, <1>13, <1>19, <1>21

-----------------------------------------------------------------------------
(* A chunk and the next one.                                               *)

\* u begins at the latest where t ends and goes on; what it repeats is within o.
Linked(t, u, s, o) == \E x, y \in Nat :
  /\ Spans(t, s, x) /\ Spans(u, s, y)
  /\ x <= y /\ y <= End(t) /\ End(t) < End(u)
  /\ Echoes(u, End(t), o)

\* A stretch that begins after place x, where there is nothing up to place x.
LEMMA NothingEchoes ==
  ASSUME NEW G, Sited(G), NEW u \in Seq(G), NEW s, NEW x \in Nat, Spans(u, s, x), NEW o
  PROVE  Echoes(u, x, o) /\ x < End(u)
<1>1. Solid(u)
  BY DEF Spans
<1>2. End(u) \in Nat /\ InkAt(u, End(u)) /\ (\A p : InkAt(u, p) => p \in Nat) /\ Len(u) \in Nat
  BY <1>1, EndIsLast
<1>3. \A p : InkAt(u, p) => x < p
  BY <1>2 DEF Spans
<1>4. ASSUME NEW i \in 1..Len(u), u[i].class # "n" PROVE u[i].place <= x <=> i <= 0
  <2> DEFINE p == u[i].place
  <2>1. InkAt(u, p)
    BY <1>4 DEF InkAt
  <2>2. p \in Nat /\ x < p
    BY <1>2, <1>3, <2>1
  <2>3. ~ (i <= 0)
    BY <1>2
  <2> HIDE DEF p
  <2>4. ~ (p <= x)
    BY <2>2
  <2> QED BY <2>3, <2>4 DEF p
<1>5. 0 \in 0..Len(u) /\ ~ (0 > 0)
  BY <1>2
<1> QED BY <1>2, <1>3, <1>4, <1>5 DEF Echoes

\* A piece that begins the next chunk alone.
LEMMA PieceLinks ==
  ASSUME NEW G, Sited(G), NEW t \in Seq(G), NEW u \in Seq(G), NEW s, NEW x \in Nat,
         Spans(t, s, x), Spans(u, s, End(t)), NEW o
  PROVE  Linked(t, u, s, o)
<1>1. Solid(t) /\ End(t) \in Nat /\ InkAt(t, End(t))
  BY EndIsLast DEF Spans
<1>2. x < End(t)
  BY <1>1 DEF Spans
<1>3. Echoes(u, End(t), o) /\ End(t) < End(u)
  BY <1>1, NothingEchoes
<1> DEFINE e == End(t)
<1>4. e \in Nat /\ x <= e /\ e <= e
  BY <1>1, <1>2
<1> QED BY <1>3, <1>4 DEF Linked

\* A piece after the overlap.
LEMMA TailLinks ==
  ASSUME NEW G, Sited(G), Break \in G, NEW t \in Seq(G), NEW u \in Seq(G), NEW s,
         NEW x \in Nat, Spans(t, s, x), Spans(u, s, End(t)), NEW o
  PROVE  LET next == Join(TokenLimitedTail(t, o), u) IN
         /\ next \in Seq(G) /\ Linked(t, next, s, o) /\ End(next) = End(u)
<1> DEFINE v == TokenLimitedTail(t, o)
<1>1. CASE v = <<>>
  <2>1. Join(v, u) = u
    BY <1>1, SolidStays DEF Join, Spans
  <2> HIDE DEF v
  <2> QED BY <2>1, PieceLinks DEF v
<1>2. CASE v # <<>>
  <2>1. v \in Seq(G) /\ Tokens(v) <= o /\ End(v) = End(t)
    BY <1>2, TailSpans
  <2>2. PICK y \in Nat : x <= y /\ y <= End(t) /\ Spans(v, s, y)
    BY <1>2, TailSpans
  <2> HIDE DEF v
  <2> DEFINE w == Join(v, u)
             e == End(t)
             r == Len(v)
  <2>3. Spans(u, s, End(v))
    BY <2>1
  <2>4. w \in Seq(G) /\ Spans(w, s, y) /\ End(w) = End(u)
    BY <2>1, <2>2, <2>3, JoinSpans
  <2>5. Solid(v)
    BY <2>2 DEF Spans
  <2>6. e \in Nat /\ (\A p : InkAt(v, p) => p \in Nat /\ p <= e) /\ r \in Nat /\ r > 0
    BY <2>1, <2>5, EndIsLast
  <2>7. \A i \in 1..r : v[i].class # "n" => (v[i].place <= e <=> i <= r)
    <3> SUFFICES ASSUME NEW i \in 1..r, v[i].class # "n" PROVE v[i].place <= e /\ i <= r
      OBVIOUS
    <3>1. InkAt(v, v[i].place)
      BY DEF InkAt
    <3> QED BY <2>6, <3>1
  <2>8. v[r].class # "n" /\ SubSeq(v, 1, r) = v
    BY <2>1, <2>5, <2>6, FirstLinesOf DEF Solid, Trimmed
  <2>9. Tokens(SubSeq(v, 1, r)) <= o
    BY <2>1, <2>8
  <2>10. r \in 0..r /\ e <= e
    BY <2>6
  <2>11. e <= End(v)
    BY <2>1, <2>10
  <2>12. Echoes(w, e, o)
    BY <2>1, <2>3, <2>5, <2>6, <2>7, <2>8, <2>9, <2>10, <2>11, JoinEchoes
  <2>13. e < End(u)
    BY <2>6, NothingEchoes
  <2>14. e < End(w)
    BY <2>4, <2>13
  <2> HIDE DEF w, e
  <2>15. Linked(t, w, s, o)
    BY <2>2, <2>4, <2>12, <2>14 DEF Linked, e
  <2> QED BY <2>4, <2>15 DEF w, v
<1> QED BY <1>1, <1>2

\* A piece more in the chunk.
LEMMA LinkGrows ==
  ASSUME NEW G, Sited(G), Break \in G, NEW a \in Seq(G), NEW t \in Seq(G), NEW u \in Seq(G),
         NEW s, NEW o, Linked(a, t, s, o), Spans(u, s, End(t))
  PROVE  Linked(a, Join(t, u), s, o)
<1> DEFINE w == Join(t, u)
           b == End(a)
           e == End(t)
           f == End(u)
<1>1. PICK x \in Nat, y \in Nat :
        /\ Spans(a, s, x) /\ Spans(t, s, y)
        /\ x <= y /\ y <= End(a) /\ End(a) < End(t)
        /\ Echoes(t, End(a), o)
  BY DEF Linked
<1>2. Solid(a) /\ Solid(t) /\ Solid(u)
  BY <1>1 DEF Spans
<1>3. b \in Nat /\ e \in Nat /\ f \in Nat
  BY <1>2, EndIsLast
<1>4. e < f
  BY <1>3, NothingEchoes
<1>5. w \in Seq(G) /\ Spans(w, s, y) /\ End(w) = f
  BY <1>1, JoinSpans
<1>6. PICK r \in 0..Len(t) :
        /\ \A i \in 1..Len(t) : t[i].class # "n" => (t[i].place <= b <=> i <= r)
        /\ r > 0 => t[r].class # "n" /\ Tokens(SubSeq(t, 1, r)) <= o
  BY <1>1 DEF Echoes
<1>7. b <= End(t)
  BY <1>1, <1>3
<1>8. Echoes(w, b, o)
  BY <1>2, <1>3, <1>6, <1>7, JoinEchoes
<1>9. b < f
  BY <1>1, <1>3, <1>4
<1>10. b < End(w)
  BY <1>5, <1>9
<1> HIDE DEF w
<1> QED BY <1>1, <1>5, <1>8, <1>10 DEF Linked, w

-----------------------------------------------------------------------------
(* The chunks, one after the other.                                        *)

Chained(w, s, o) ==
  /\ Len(w) > 0 /\ Spans(w[1], s, 0)
  /\ \A k \in 1..(Len(w) - 1) : Linked(w[k], w[k + 1], s, o)

LEMMA ChainEnds ==
  ASSUME NEW w, Len(w) \in Nat, NEW s, NEW o, Chained(w, s, o)
  PROVE  \A k \in 1..Len(w) : \E x \in Nat : Spans(w[k], s, x)
<1> DEFINE n == Len(w)
<1>1. n \in Nat /\ Spans(w[1], s, 0) /\ \A k \in 1..(n - 1) : Linked(w[k], w[k + 1], s, o)
  BY DEF Chained
<1> HIDE DEF n
<1>2. ASSUME NEW k \in 1..n PROVE \E x \in Nat : Spans(w[k], s, x)
  <2>1. CASE k = 1
    BY <1>1, <2>1
  <2>2. CASE k # 1
    <3> DEFINE j == k - 1
    <3>1. j \in 1..(n - 1) /\ j + 1 = k
      BY <1>1, <2>2
    <3>2. Linked(w[j], w[j + 1], s, o)
      BY <1>1, <3>1
    <3> HIDE DEF j
    <3>3. Linked(w[j], w[k], s, o)
      BY <3>1, <3>2
    <3> QED BY <3>3 DEF Linked
  <2> QED BY <2>1, <2>2
<1> QED BY <1>2 DEF n

\* A piece more in the last chunk.
LEMMA ChainGrows ==
  ASSUME NEW G, Sited(G), Break \in G, NEW c \in Seq(Seq(G)), NEW t \in Seq(G), NEW u \in Seq(G),
         NEW s, NEW o, Chained(Append(c, t), s, o), Spans(u, s, End(t))
  PROVE  LET w == Join(t, u) IN
         w \in Seq(G) /\ Chained(Append(c, w), s, o) /\ End(w) = End(u)
<1> DEFINE V == Seq(G)
           w == Join(t, u)
           a == Append(c, t)
           b == Append(c, w)
           n == Len(c)
           m == n + 1
<1>1. t \in V /\ c \in Seq(V)
  OBVIOUS
<1> HIDE DEF V
<1>2. /\ Len(a) = m /\ n \in Nat
      /\ \A k \in 1..n : a[k] = c[k]
      /\ a[m] = t
  BY <1>1, LineAppended
<1> HIDE DEF a
<1>3. PICK x \in Nat : Spans(t, s, x)
  <2>1. m \in 1..m /\ Len(a) \in Nat
    BY <1>2
  <2> HIDE DEF m
  <2>2. \E x \in Nat : Spans(a[m], s, x)
    BY <1>2, <2>1, ChainEnds DEF a
  <2> QED BY <1>2, <2>2
<1>4. w \in Seq(G) /\ End(w) = End(u)
  BY <1>3, JoinSpans
<1> HIDE DEF w
<1>5. /\ Len(b) = m /\ \A k \in 1..n : b[k] = c[k]
      /\ b[m] = w
  <2>1. w \in V
    BY <1>4 DEF V
  <2> QED BY <1>1, <2>1, LineAppended
<1> HIDE DEF b
<1>6. Spans(a[1], s, 0) /\ \A k \in 1..(m - 1) : Linked(a[k], a[k + 1], s, o)
  BY <1>2 DEF Chained, a
<1>7. m - 1 = n
  BY <1>2
<1>8. Spans(b[1], s, 0)
  <2>1. CASE n = 0
    <3>1. m = 1
      BY <2>1
    <3>2. Spans(t, s, 0)
      BY <1>2, <1>6, <3>1
    <3>3. Spans(w, s, 0)
      BY <3>2, JoinSpans DEF w
    <3> QED BY <1>5, <3>1, <3>3
  <2>2. CASE n # 0
    <3>1. 1 \in 1..n
      BY <1>2, <2>2
    <3> QED BY <1>2, <1>5, <1>6, <3>1
  <2> QED BY <2>1, <2>2
<1>9. ASSUME NEW k \in 1..n PROVE Linked(b[k], b[k + 1], s, o)
  <2>1. Linked(a[k], a[k + 1], s, o)
    BY <1>6, <1>7
  <2>2. CASE k = n
    <3>1. c[n] \in V /\ a[n] = c[n] /\ b[n] = c[n]
      BY <1>1, <1>2, <1>5, <2>2
    <3>2. Linked(c[n], t, s, o)
      BY <1>2, <2>1, <2>2, <3>1
    <3>3. Linked(c[n], w, s, o)
      BY <3>1, <3>2, LinkGrows DEF V, w
    <3> QED BY <1>5, <2>2, <3>1, <3>3
  <2>3. CASE k # n
    <3> DEFINE j == k + 1
    <3>1. j \in 1..n
      BY <1>2, <2>3
    <3> HIDE DEF j
    <3>2. a[j] = b[j] /\ a[k] = b[k]
      BY <1>2, <1>5, <3>1
    <3> QED BY <2>1, <3>2 DEF j
  <2> QED BY <2>2, <2>3
<1>10. Len(b) > 0 /\ Len(b) - 1 = n
  BY <1>2, <1>5
<1>11. Chained(b, s, o)
  BY <1>8, <1>9, <1>10 DEF Chained
<1> QED BY <1>4, <1>11 DEF b, w

\* A chunk closed and the next one begun.
LEMMA ChainAppended ==
  ASSUME NEW V, NEW a \in Seq(V), NEW t \in V, NEW z \in V, NEW s, NEW o,
         Chained(a, s, o), Len(a) > 0, a[Len(a)] = t, Linked(t, z, s, o)
  PROVE  Chained(Append(a, z), s, o)
<1> DEFINE b == Append(a, z)
           n == Len(a)
           m == n + 1
<1>1. /\ Len(b) = m /\ n \in Nat /\ n > 0
      /\ \A k \in 1..n : b[k] = a[k]
      /\ b[m] = z
  BY LineAppended
<1> HIDE DEF b
<1>2. Spans(a[1], s, 0) /\ (\A k \in 1..(n - 1) : Linked(a[k], a[k + 1], s, o)) /\ Linked(a[n], z, s, o)
  BY DEF Chained
<1> HIDE DEF n
<1>3. 1 \in 1..n /\ Len(b) > 0 /\ Len(b) - 1 = n
  BY <1>1
<1>4. Spans(b[1], s, 0)
  BY <1>1, <1>2, <1>3
<1>5. ASSUME NEW k \in 1..n PROVE Linked(b[k], b[k + 1], s, o)
  <2>1. CASE k = n
    BY <1>1, <1>2, <1>3, <2>1
  <2>2. CASE k # n
    <3> DEFINE j == k + 1
    <3>1. j \in 1..n /\ k \in 1..(n - 1)
      BY <1>1, <2>2
    <3>2. Linked(a[k], a[j], s, o)
      BY <1>2, <3>1
    <3> HIDE DEF j
    <3>3. b[k] = a[k] /\ b[j] = a[j]
      BY <1>1, <3>1
    <3> QED BY <3>2, <3>3 DEF j
  <2> QED BY <2>1, <2>2
<1>6. Chained(b, s, o)
  BY <1>3, <1>4, <1>5 DEF Chained
<1> QED BY <1>6 DEF b

\* What the loop of TextChunker.split keeps, after a piece that ends at place e.
Holds(state, s, o, e) ==
  /\ Chained(Append(state.chunks, state.current), s, o)
  /\ End(state.current) = e

\* A turn of it.
LEMMA PieceHolds ==
  ASSUME NEW G, Sited(G), Break \in G, NEW c \in Seq(Seq(G)), NEW t \in Seq(G), NEW u \in Seq(G),
         NEW s, NEW limit, NEW o, Chained(Append(c, t), s, o), Spans(u, s, End(t))
  PROVE  Holds(AddPiece([chunks |-> c, current |-> t], u, limit, o), s, o, End(u))
<1> DEFINE V == Seq(G)
           state == [chunks |-> c, current |-> t]
           candidate == Join(t, u)
           next == Join(TokenLimitedTail(t, o), u)
           a == Append(c, t)
           y == IF Tokens(next) <= limit THEN next ELSE u
           done == [chunks |-> a, current |-> y]
           more == [chunks |-> c, current |-> candidate]
<1>1. AddPiece(state, u, limit, o) = done \/ AddPiece(state, u, limit, o) = more
  <2>1. [state EXCEPT !.current = candidate] = more
    OBVIOUS
  <2>2. /\ state.chunks = c /\ state.current = t
    OBVIOUS
  <2> HIDE DEF state, more
  <2>3. AddPiece(state, u, limit, o) =
          IF state.current # <<>> /\ Tokens(Join(state.current, u)) > limit
          THEN [chunks |-> Append(state.chunks, state.current),
                current |-> IF Tokens(Join(TokenLimitedTail(state.current, o), u)) <= limit
                            THEN Join(TokenLimitedTail(state.current, o), u) ELSE u]
          ELSE [state EXCEPT !.current = Join(state.current, u)]
    BY DEF AddPiece
  <2> QED BY <2>1, <2>2, <2>3, Zenon
<1>2. /\ a \in Seq(V) /\ Len(a) \in Nat /\ Len(a) > 0 /\ a[Len(a)] = t /\ t \in V /\ u \in V
  <2>1. c \in Seq(V) /\ t \in V /\ u \in V
    OBVIOUS
  <2> HIDE DEF V
  <2>2. Len(c) \in Nat
    BY <2>1
  <2>3. a \in Seq(V) /\ Len(a) = Len(c) + 1 /\ a[Len(c) + 1] = t
    BY <2>1, LineAppended
  <2> HIDE DEF a
  <2> DEFINE n == Len(c)
  <2>4. n + 1 \in Nat /\ n + 1 > 0
    BY <2>2
  <2> QED BY <2>1, <2>3, <2>4
<1>3. PICK x \in Nat : Spans(t, s, x)
  <2> HIDE DEF a
  <2> DEFINE n == Len(a)
  <2>1. n \in 1..n
    BY <1>2
  <2>2. \E x \in Nat : Spans(a[n], s, x)
    BY <1>2, <2>1, ChainEnds DEF a
  <2> QED BY <1>2, <2>2
<1>4. y \in V /\ Linked(t, y, s, o) /\ End(y) = End(u)
  <2>1. next \in V /\ Linked(t, next, s, o) /\ End(next) = End(u)
    BY <1>3, TailLinks
  <2>2. Linked(t, u, s, o)
    BY <1>3, PieceLinks
  <2> HIDE DEF next, V
  <2> QED BY <1>2, <2>1, <2>2
<1> HIDE DEF y
<1>5. Holds(done, s, o, End(u))
  <2>1. Chained(a, s, o)
    OBVIOUS
  <2> HIDE DEF a, V
  <2>2. Chained(Append(a, y), s, o)
    BY <1>2, <1>4, <2>1, ChainAppended
  <2>3. done.chunks = a /\ done.current = y
    OBVIOUS
  <2> HIDE DEF done
  <2> QED BY <1>4, <2>2, <2>3 DEF Holds
<1>6. Holds(more, s, o, End(u))
  <2>1. Chained(Append(c, candidate), s, o) /\ End(candidate) = End(u)
    BY ChainGrows
  <2>2. more.chunks = c /\ more.current = candidate
    OBVIOUS
  <2> HIDE DEF more
  <2> QED BY <2>1, <2>2 DEF Holds
<1> QED BY <1>1, <1>5, <1>6

\* v is s in stretches, from its beginning.
Tiled(v, s) == \A k \in 1..Len(v) : Spans(v[k], s, IF k = 1 THEN 0 ELSE End(v[k - 1]))

\* The first piece is the first chunk, so far.
LEMMA FirstHolds ==
  ASSUME NEW G, NEW u \in Seq(G), NEW s, NEW limit, NEW o, Spans(u, s, 0)
  PROVE  /\ AddPiece([chunks |-> <<>>, current |-> <<>>], u, limit, o) = [chunks |-> <<>>, current |-> u]
         /\ Holds([chunks |-> <<>>, current |-> u], s, o, End(u))
<1> DEFINE base == [chunks |-> <<>>, current |-> <<>>]
           one == [chunks |-> <<>>, current |-> u]
<1>1. Join(<<>>, u) = u
  BY SolidStays DEF Spans, Join
<1>2. base.current = <<>> /\ one.current = u /\ one.chunks = <<>>
  OBVIOUS
<1>3. [base EXCEPT !.current = u] = one
  OBVIOUS
<1>4. AddPiece(base, u, limit, o) = [base EXCEPT !.current = Join(base.current, u)]
  BY <1>2 DEF AddPiece
<1>5. AddPiece(base, u, limit, o) = one
  BY <1>1, <1>2, <1>3, <1>4, Zenon
<1>6. Chained(Append(<<>>, u), s, o)
  <2>1. Len(Append(<<>>, u)) = 1 /\ Append(<<>>, u)[1] = u /\ 1..(1 - 1) = {} /\ 1 > 0
    OBVIOUS
  <2> QED BY <2>1 DEF Chained
<1> HIDE DEF one
<1>7. Holds(one, s, o, End(u))
  BY <1>2, <1>6 DEF Holds
<1> QED BY <1>5, <1>7 DEF one

\* The loop.
LEMMA ChunksChained ==
  ASSUME NEW G, Sited(G), Break \in G, NEW text, NEW limit, NEW o, Strip(text) # <<>>,
         NEW v \in Seq(Seq(G)), v = SplitToLimit(Strip(text), limit), Len(v) > 0,
         NEW s, Tiled(v, s)
  PROVE  LET chunks == Split(text, limit, o) IN
         /\ chunks \in Seq(Seq(G)) /\ Chained(chunks, s, o)
         /\ Len(chunks) > 0 /\ End(chunks[Len(chunks)]) = End(v[Len(v)])
<1> DEFINE S == Seq(G)
           V == [chunks : Seq(S), current : S]
           n == Len(v)
           base == [chunks |-> <<>>, current |-> <<>>]
<1>1. n \in Nat /\ n > 0 /\ (\A i \in 1..n : v[i] \in S) /\ v \in Seq(S) /\ <<>> \in S
  OBVIOUS
<1>2. ASSUME NEW c \in Seq(S), NEW t \in S, NEW u \in S
      PROVE  AddPiece([chunks |-> c, current |-> t], u, limit, o) \in V
  <2> DEFINE state == [chunks |-> c, current |-> t]
             next == Join(TokenLimitedTail(t, o), u)
             more == Join(t, u)
             a == Append(c, t)
             y == IF Tokens(next) <= limit THEN next ELSE u
  <2>1. next \in S /\ more \in S
    BY TailIsText, JoinIsText
  <2>2. a \in Seq(S)
    <3> HIDE DEF S
    <3> QED OBVIOUS
  <2>3. y \in S
    BY <2>1
  <2>4. state.chunks = c /\ state.current = t
    OBVIOUS
  <2>5. [state EXCEPT !.current = more] = [chunks |-> c, current |-> more]
    OBVIOUS
  <2>6. AddPiece(state, u, limit, o) =
          IF state.current # <<>> /\ Tokens(Join(state.current, u)) > limit
          THEN [chunks |-> Append(state.chunks, state.current),
                current |-> IF Tokens(Join(TokenLimitedTail(state.current, o), u)) <= limit
                            THEN Join(TokenLimitedTail(state.current, o), u) ELSE u]
          ELSE [state EXCEPT !.current = Join(state.current, u)]
    BY DEF AddPiece
  <2>7. AddPiece(state, u, limit, o) = [chunks |-> a, current |-> y]
        \/ AddPiece(state, u, limit, o) = [chunks |-> c, current |-> more]
    <3> HIDE DEF state
    <3> QED BY <2>4, <2>5, <2>6, Zenon DEF a, y, next, more
  <2> HIDE DEF a, y, more, S
  <2>8. [chunks |-> a, current |-> y] \in V /\ [chunks |-> c, current |-> more] \in V
    BY <2>1, <2>2, <2>3
  <2> QED BY <2>7, <2>8
<1> HIDE DEF S
<1>3. base \in V
  BY <1>1
<1>4. \A state \in V, i \in 1..n : AddPiece(state, v[i], limit, o) \in V
  <2> SUFFICES ASSUME NEW state \in V, NEW i \in 1..n PROVE AddPiece(state, v[i], limit, o) \in V
    OBVIOUS
  <2>1. /\ state.chunks \in Seq(S) /\ state.current \in S
        /\ state = [chunks |-> state.chunks, current |-> state.current]
    OBVIOUS
  <2>2. AddPiece([chunks |-> state.chunks, current |-> state.current], v[i], limit, o) \in V
    BY <1>1, <1>2, <2>1
  <2> QED BY <2>1, <2>2, Zenon
<1>5. PICK h : ChunksWalk(h, V, text, v, limit, o)
  <2> HIDE DEF V
  <2> QED BY <1>1, <1>3, <1>4, ChunksPath
<1>6. /\ h \in [0..n -> V] /\ h[0] = base
      /\ Split(text, limit, o) = Append(h[n].chunks, h[n].current)
      /\ \A i \in 1..n : h[i] = AddPiece(h[i - 1], v[i], limit, o)
  BY <1>5 DEF ChunksWalk
<1>7. \A k \in 1..n : Spans(v[k], s, IF k = 1 THEN 0 ELSE End(v[k - 1]))
  BY DEF Tiled
<1> DEFINE P == {i \in 0..n : i > 0 => Holds(h[i], s, o, End(v[i]))}
<1>8. 0 \in P
  BY <1>1
<1> HIDE DEF n, base
<1>9. ASSUME NEW i \in 1..n, i - 1 \in P PROVE i \in P
  <2> DEFINE j == i - 1
             u == v[i]
             state == h[j]
             c == state.chunks
             t == state.current
  <2>1. u \in S /\ h[i] = AddPiece(state, u, limit, o) /\ i \in 0..n /\ j \in 0..n
    BY <1>1, <1>6
  <2>2. CASE i = 1
    <3>1. state = base
      BY <1>6, <2>2
    <3>2. Spans(u, s, 0)
      BY <1>7, <2>2
    <3> HIDE DEF state, u
    <3> DEFINE one == [chunks |-> <<>>, current |-> u]
    <3>5. u \in Seq(G)
      BY <2>1 DEF S
    <3>6. AddPiece([chunks |-> <<>>, current |-> <<>>], u, limit, o) = one
      BY <3>2, <3>5, FirstHolds
    <3>7. Holds(one, s, o, End(u))
      BY <3>2, <3>5, FirstHolds
    <3>8. AddPiece(base, u, limit, o) = one
      BY <3>6 DEF base
    <3> HIDE DEF one
    <3>3. Holds(AddPiece(base, u, limit, o), s, o, End(u))
      BY <3>7, <3>8, Zenon
    <3>4. Holds(h[i], s, o, End(u))
      BY <2>1, <3>1, <3>3
    <3> QED BY <2>1, <3>4 DEF u
  <2>3. CASE i # 1
    <3>1. j > 0 /\ j \in P
      BY <1>9, <2>3
    <3>2. Holds(state, s, o, End(v[j])) /\ Spans(u, s, End(v[j]))
      BY <1>7, <2>3, <3>1
    <3>3. state \in V
      BY <1>6, <2>1
    <3> HIDE DEF state, u, P, j
    <3>4. c \in Seq(S) /\ t \in S /\ state = [chunks |-> c, current |-> t]
      BY <3>3
    <3>5. Chained(Append(c, t), s, o) /\ End(t) = End(v[j])
      BY <3>2 DEF Holds
    <3> HIDE DEF c, t
    <3>6. Holds(AddPiece([chunks |-> c, current |-> t], u, limit, o), s, o, End(u))
      BY <2>1, <3>2, <3>4, <3>5, PieceHolds DEF S
    <3>7. Holds(h[i], s, o, End(u))
      BY <2>1, <3>4, <3>6, Zenon
    <3> QED BY <2>1, <3>7 DEF u, P
  <2> QED BY <2>2, <2>3
<1>10. \A i \in 1..n : i - 1 \in P => i \in P
  BY <1>9
<1> HIDE DEF P
<1>11. n \in P
  BY <1>1, <1>8, <1>10, Along
<1> DEFINE c == h[n].chunks
           t == h[n].current
<1>12. Holds(h[n], s, o, End(v[n]))
  BY <1>1, <1>11 DEF P
<1>13. c \in Seq(S) /\ t \in S
  <2>1. h[n] \in V
    BY <1>1, <1>6
  <2> QED BY <2>1
<1>14. Chained(Append(c, t), s, o) /\ End(t) = End(v[n])
  BY <1>12 DEF Holds
<1> HIDE DEF c, t
<1> DEFINE w == Append(c, t)
<1>15. w \in Seq(S) /\ Len(w) = Len(c) + 1 /\ w[Len(c) + 1] = t /\ Len(c) \in Nat
  BY <1>13, LineAppended
<1> HIDE DEF w
<1>16. Len(w) > 0 /\ w[Len(w)] = t
  BY <1>15
<1>17. Split(text, limit, o) = w
  BY <1>6 DEF w, c, t
<1> QED BY <1>14, <1>15, <1>16, <1>17 DEF S, n, w

\* The pieces of a text are its stretches.
LEMMA PiecesTile ==
  ASSUME NEW G, Sited(G), NEW s \in Seq(G), Solid(s), ~InkAt(s, 0),
         NEW v \in Seq(Seq(G)), Cuts(v, s), Tight(v)
  PROVE  Tiled(v, s) /\ Len(v) > 0 /\ End(v[Len(v)]) = End(s)
<1> DEFINE n == Len(v)
<1>1. n \in Nat /\ \A k \in 1..n : v[k] \in Seq(G)
  OBVIOUS
<1>2. /\ \A k \in 1..n : Ordered(v[k]) /\ \A l \in 1..n : k < l => LiesBefore(v[k], v[l])
      /\ \A p : InkAt(s, p) <=> \E k \in 1..n : InkAt(v[k], p)
  BY DEF Cuts, Successive, Ink
<1> HIDE DEF n
<1>3. \A k \in 1..n : Solid(v[k])
  BY <1>2 DEF Tight, Solid, n
<1> DEFINE e == [k \in 1..n |-> End(v[k])]
<1>4. ASSUME NEW k \in 1..n
      PROVE  /\ e[k] \in Nat /\ InkAt(v[k], e[k]) /\ e[k] = End(v[k])
             /\ \A p : InkAt(v[k], p) => p \in Nat /\ p <= e[k]
  <2> DEFINE u == v[k]
  <2>1. u \in Seq(G) /\ Solid(u)
    BY <1>1, <1>3
  <2> HIDE DEF u
  <2>2. End(u) \in Nat /\ InkAt(u, End(u)) /\ \A p : InkAt(u, p) => p \in Nat /\ p <= End(u)
    BY <2>1, EndIsLast
  <2>3. e[k] = End(u)
    BY DEF u
  <2> HIDE DEF e
  <2> QED BY <2>2, <2>3 DEF u
<1> HIDE DEF e
<1>5. \A k, l \in 1..n : k < l => \A p : InkAt(v[k], p) => p \in Nat /\ p < e[l]
  BY <1>2, <1>4 DEF LiesBefore
<1>6. \A k, l \in 1..n : k < l => \A p : InkAt(v[l], p) => p \in Nat /\ e[k] < p
  BY <1>2, <1>4 DEF LiesBefore
<1>7. ASSUME NEW k \in 1..n PROVE Spans(v[k], s, IF k = 1 THEN 0 ELSE End(v[k - 1]))
  <2> DEFINE j == k - 1
             x == IF k = 1 THEN 0 ELSE e[j]
  <2>1. k # 1 => j \in 1..n /\ j < k /\ \A l \in 1..n : l < k => l < j \/ l = j
    BY <1>1
  <2>2. k = 1 => \A l \in 1..n : ~ l < k
    BY <1>1
  <2>3. x = IF k = 1 THEN 0 ELSE End(v[k - 1])
    BY <1>4, <2>1
  <2> HIDE DEF j
  <2>4. ASSUME NEW p \in Nat PROVE InkAt(v[k], p) <=> InkAt(s, p) /\ x < p /\ p <= e[k]
    <3>1. ASSUME InkAt(v[k], p) PROVE InkAt(s, p) /\ x < p /\ p <= e[k]
      <4>1. InkAt(s, p) /\ p <= e[k]
        BY <1>2, <1>4, <3>1
      <4>2. p # 0
        BY <4>1
      <4>3. k # 1 => e[j] < p
        BY <1>6, <2>1, <3>1
      <4> QED BY <4>1, <4>2, <4>3
    <3>2. ASSUME InkAt(s, p), x < p, p <= e[k], ~InkAt(v[k], p) PROVE FALSE
      <4>1. PICK l \in 1..n : InkAt(v[l], p)
        BY <1>2, <3>2
      <4>2. l # k
        BY <3>2, <4>1
      <4>3. CASE k < l
        <5>1. e[k] < p
          BY <1>6, <4>1, <4>3
        <5> QED BY <1>4, <3>2, <5>1
      <4>4. CASE l < k
        <5>1. k # 1
          BY <2>2, <4>4
        <5>2. j \in 1..n /\ (l < j \/ l = j) /\ x = e[j]
          BY <2>1, <4>4, <5>1
        <5>3. p <= e[j] \/ p < e[j]
          BY <1>4, <1>5, <4>1, <5>2
        <5> QED BY <1>4, <3>2, <5>2, <5>3
      <4> QED BY <1>1, <4>2, <4>3, <4>4
    <3> QED BY <3>1, <3>2
  <2> HIDE DEF x
  <2>5. Spans(v[k], s, x)
    BY <1>3, <1>4, <2>4 DEF Spans
  <2> QED BY <2>3, <2>5
<1>8. Tiled(v, s)
  BY <1>7 DEF Tiled, n
<1> DEFINE f == End(s)
<1>9. f \in Nat /\ InkAt(s, f) /\ \A p : InkAt(s, p) => p <= f
  BY EndIsLast
<1> HIDE DEF f
<1>10. PICK l \in 1..n : InkAt(v[l], f)
  BY <1>2, <1>9
<1>11. n > 0 /\ n \in 1..n /\ (l < n \/ l = n)
  BY <1>1
<1>12. e[n] \in Nat /\ e[n] <= f
  BY <1>2, <1>4, <1>9, <1>11
<1>13. f <= e[n]
  <2>1. CASE l < n
    <3>1. f < e[n]
      BY <1>5, <1>10, <1>11, <2>1
    <3> QED BY <1>9, <1>12, <3>1
  <2>2. CASE l = n
    BY <1>4, <1>10, <2>2
  <2> QED BY <1>11, <2>1, <2>2
<1>14. e[n] = f
  BY <1>9, <1>12, <1>13
<1>15. End(v[n]) = f
  BY <1>4, <1>11, <1>14
<1> QED BY <1>8, <1>11, <1>15 DEF n, f

-----------------------------------------------------------------------------
(* What chunks in a chain cover.                                           *)

LEMMA PlacesHaveInk ==
  ASSUME NEW G, NEW t \in Seq(G)
  PROVE  \A p : p \in Places(t) <=> InkAt(t, p)
<1>1. DOMAIN t = 1..Len(t)
  OBVIOUS
<1> QED BY <1>1 DEF Places, Inked, InkAt

LEMMA PlacesOfText ==
  ASSUME NEW G, Sited(G), NEW t \in Seq(G), Solid(t)
  PROVE  /\ Max(Places(t)) = End(t)
         /\ Min(Places(t)) \in Nat /\ InkAt(t, Min(Places(t)))
         /\ \A p : InkAt(t, p) => Min(Places(t)) <= p
<1> DEFINE S == Places(t)
<1>1. \A p : p \in S <=> InkAt(t, p)
  BY PlacesHaveInk
<1>2. /\ End(t) \in Nat /\ InkAt(t, End(t))
      /\ \A p : InkAt(t, p) => p \in Nat /\ p <= End(t)
  BY EndIsLast
<1> HIDE DEF S
<1> DEFINE e == End(t)
<1>3. S \in SUBSET Nat /\ S # {} /\ e \in S
  BY <1>1, <1>2
<1>4. S \subseteq 0..e
  BY <1>1, <1>2
<1>5. IsFiniteSet(S)
  <2>1. IsFiniteSet(0..e)
    BY <1>2, FS_Interval
  <2> QED BY <1>4, <2>1, FS_Subset
<1> DEFINE a == Min(S)
           b == Max(S)
<1>6. a \in S /\ (\A p \in S : a <= p) /\ b \in S /\ \A p \in S : p <= b
  BY <1>3, <1>5, MinIsLeast, MaxIsGreatest
<1> HIDE DEF a, b, e
<1>7. b = e
  <2>1. b \in Nat /\ e \in Nat /\ b <= e /\ e <= b
    BY <1>1, <1>2, <1>3, <1>6 DEF e
  <2> QED BY <2>1
<1>8. a \in Nat /\ InkAt(t, a) /\ \A p : InkAt(t, p) => a <= p
  BY <1>1, <1>3, <1>6
<1> QED BY <1>7, <1>8 DEF a, b, e, S

\* What a chunk repeats of the one before it.
LEMMA RepeatedFits ==
  ASSUME NEW G, Sited(G), NEW t \in Seq(G), NEW u \in Seq(G), NEW s, NEW o, Linked(t, u, s, o),
         NEW R, R = {i \in Inked(u) : u[i].place \in Places(t)}, R # {}
  PROVE  Tokens(SubSeq(u, 1, Max(R))) <= o
<1> DEFINE e == End(t)
           n == Len(u)
<1>1. PICK x \in Nat, y \in Nat :
        /\ Spans(t, s, x) /\ Spans(u, s, y)
        /\ x <= y /\ y <= End(t) /\ End(t) < End(u)
        /\ Echoes(u, End(t), o)
  BY DEF Linked
<1>2. PICK r \in 0..n :
        /\ \A i \in 1..n : u[i].class # "n" => (u[i].place <= e <=> i <= r)
        /\ r > 0 => u[r].class # "n" /\ Tokens(SubSeq(u, 1, r)) <= o
  BY <1>1 DEF Echoes
<1>3. /\ Solid(t) /\ \A p \in Nat : InkAt(t, p) <=> InkAt(s, p) /\ x < p /\ p <= e
  BY <1>1 DEF Spans
<1>4. /\ Solid(u) /\ \A p \in Nat : InkAt(u, p) => InkAt(s, p) /\ y < p
  BY <1>1 DEF Spans
<1>5. \A p : p \in Places(t) <=> InkAt(t, p)
  BY PlacesHaveInk
<1>6. e \in Nat /\ \A p : InkAt(t, p) => p \in Nat /\ p <= e
  BY <1>3, EndIsLast
<1>7. n \in Nat /\ \A p : InkAt(u, p) => p \in Nat
  BY <1>4, EndIsLast
<1>8. \A i \in R : i \in 1..n /\ u[i].class # "n" /\ InkAt(t, u[i].place)
  <2>1. DOMAIN u = 1..n
    OBVIOUS
  <2> QED BY <1>5, <2>1 DEF Inked
<1> HIDE DEF e
<1>9. \A i \in R : i \in 1..n /\ i <= r
  BY <1>2, <1>6, <1>8
<1>10. r \in Nat /\ r > 0
  <2>1. PICK i \in R : TRUE
    OBVIOUS
  <2> HIDE DEF n
  <2> QED BY <1>2, <1>7, <1>9, <2>1
<1>11. r \in R
  <2>1. r \in 1..n /\ u[r].class # "n"
    BY <1>2, <1>7, <1>10
  <2> DEFINE p == u[r].place
  <2>2. InkAt(u, p)
    BY <2>1 DEF InkAt
  <2>3. p <= e
    BY <1>2, <1>10, <2>1
  <2>4. r \in Inked(u)
    <3>1. DOMAIN u = 1..n
      OBVIOUS
    <3> QED BY <2>1, <3>1 DEF Inked
  <2> HIDE DEF p
  <2>5. p \in Nat /\ InkAt(s, p) /\ x < p
    BY <1>1, <1>4, <1>7, <2>2
  <2>6. InkAt(t, p)
    BY <1>3, <2>3, <2>5
  <2> QED BY <1>5, <2>4, <2>6 DEF p
<1> HIDE DEF n
<1>12. R \in SUBSET Nat /\ IsFiniteSet(R)
  <2>1. R \subseteq 1..n /\ IsFiniteSet(1..n)
    BY <1>7, <1>9, FS_Interval
  <2> QED BY <1>7, <2>1, FS_Subset
<1> DEFINE m == Max(R)
<1>13. m \in R /\ \A i \in R : i <= m
  BY <1>12, MaxIsGreatest
<1> HIDE DEF m
<1>14. m \in Nat /\ m <= r /\ r <= m
  BY <1>9, <1>11, <1>12, <1>13
<1>15. m = r
  BY <1>10, <1>14
<1> QED BY <1>2, <1>10, <1>15 DEF m

\* ChunksCover, of given chunks.
Covering(chunks, s, o) ==
  LET Repeated(k) == {i \in Inked(chunks[k]) : chunks[k][i].place \in Places(chunks[k - 1])}
  IN /\ UNION {Places(chunks[k]) : k \in DOMAIN chunks} = Places(s)
     /\ \A k \in DOMAIN chunks :
          /\ \A i, j \in Inked(chunks[k]) : i < j => chunks[k][i].place < chunks[k][j].place
          /\ Places(chunks[k]) = {p \in Places(s) : Min(Places(chunks[k])) <= p
                                                    /\ p <= Max(Places(chunks[k]))}
     /\ \A k \in DOMAIN chunks \ {1} :
          /\ Max(Places(chunks[k])) > Max(Places(chunks[k - 1]))
          /\ Repeated(k) # {} => Tokens(SubSeq(chunks[k], 1, Max(Repeated(k)))) <= o

\* A chunk is a stretch of the text.
LEMMA StretchOfText ==
  ASSUME NEW G, Sited(G), NEW t \in Seq(G), NEW s \in Seq(G), NEW x \in Nat, Spans(t, s, x),
         \A p : InkAt(s, p) => p \in Nat
  PROVE  /\ \A i, j \in Inked(t) : i < j => t[i].place < t[j].place
         /\ Places(t) = {p \in Places(s) : Min(Places(t)) <= p /\ p <= Max(Places(t))}
<1> DEFINE e == End(t)
           a == Min(Places(t))
<1>1. Solid(t) /\ \A p \in Nat : InkAt(t, p) <=> InkAt(s, p) /\ x < p /\ p <= e
  BY DEF Spans
<1>2. /\ e \in Nat /\ \A p : InkAt(t, p) => p \in Nat /\ p <= e
  BY <1>1, EndIsLast
<1>3. Max(Places(t)) = e /\ a \in Nat /\ InkAt(t, a) /\ \A p : InkAt(t, p) => a <= p
  BY <1>1, PlacesOfText
<1>4. (\A p : p \in Places(t) <=> InkAt(t, p)) /\ \A p : p \in Places(s) <=> InkAt(s, p)
  BY PlacesHaveInk
<1>5. \A i, j \in Inked(t) : i < j => t[i].place < t[j].place
  <2>1. DOMAIN t = 1..Len(t)
    OBVIOUS
  <2> QED BY <1>1, <2>1 DEF Solid, Ordered, Inked
<1> HIDE DEF e, a
<1>6. x < a
  BY <1>1, <1>3
<1>7. \A p : InkAt(t, p) <=> InkAt(s, p) /\ a <= p /\ p <= e
  BY <1>1, <1>2, <1>3, <1>6
<1>8. Places(t) = {p \in Places(s) : a <= p /\ p <= e}
  BY <1>4, <1>7
<1> QED BY <1>3, <1>5, <1>8 DEF a

\* Chunks in a chain up to the text's end leave nothing out.
LEMMA ChainReaches ==
  ASSUME NEW G, Sited(G), NEW w \in Seq(Seq(G)), NEW s \in Seq(G), NEW o, Chained(w, s, o),
         \A p : InkAt(s, p) => p \in Nat /\ p # 0 /\ p <= End(w[Len(w)])
  PROVE  \A p : InkAt(s, p) <=> \E k \in 1..Len(w) : InkAt(w[k], p)
<1> DEFINE n == Len(w)
<1>1. n \in Nat /\ n > 0 /\ \A k \in 1..n : w[k] \in Seq(G)
  BY DEF Chained
<1>2. \A k \in 1..n : \E x \in Nat : Spans(w[k], s, x)
  BY <1>1, ChainEnds
<1>3. Spans(w[1], s, 0) /\ \A k \in 1..(n - 1) : Linked(w[k], w[k + 1], s, o)
  BY DEF Chained
<1> HIDE DEF n
<1>4. ASSUME NEW k \in 1..n PROVE End(w[k]) \in Nat /\ \A p : InkAt(w[k], p) => InkAt(s, p)
  <2> DEFINE u == w[k]
  <2>1. PICK x \in Nat : Spans(u, s, x)
    BY <1>2
  <2>2. Solid(u) /\ u \in Seq(G)
    BY <1>1, <2>1 DEF Spans
  <2> HIDE DEF u
  <2>3. End(u) \in Nat /\ \A p : InkAt(u, p) => p \in Nat
    BY <2>2, EndIsLast
  <2>4. End(u) \in Nat /\ \A p : InkAt(u, p) => InkAt(s, p)
    BY <2>1, <2>3 DEF Spans
  <2> QED BY <2>4 DEF u
<1>5. ASSUME NEW p, InkAt(s, p) PROVE \E k \in 1..n : InkAt(w[k], p)
  <2> DEFINE K == {k \in 1..n : p <= End(w[k])}
  <2>1. p \in Nat /\ p # 0 /\ p <= End(w[n])
    BY <1>5 DEF n
  <2>2. n \in K /\ K \in SUBSET Nat
    BY <1>1, <2>1
  <2>3. PICK k \in K : \A l \in K : k <= l
    BY <2>2, LeastNatural
  <2>4. k \in 1..n /\ p <= End(w[k])
    OBVIOUS
  <2>5. CASE k = 1
    <3>1. Spans(w[k], s, 0) /\ 0 < p
      BY <1>3, <2>1, <2>5
    <3>2. InkAt(w[k], p)
      BY <1>5, <2>1, <2>4, <3>1 DEF Spans
    <3> QED BY <2>4, <3>2
  <2>6. CASE k # 1
    <3> DEFINE j == k - 1
    <3>1. j \in 1..n /\ j \in 1..(n - 1) /\ j + 1 = k /\ ~ (k <= j)
      BY <1>1, <2>4, <2>6
    <3>2. Linked(w[j], w[k], s, o)
      <4>1. Linked(w[j], w[j + 1], s, o)
        BY <1>3, <3>1
      <4> HIDE DEF j
      <4> QED BY <3>1, <4>1
    <3> HIDE DEF j
    <3>3. ~ (p <= End(w[j]))
      BY <2>3, <3>1
    <3> DEFINE d == End(w[j])
    <3>4. d \in Nat /\ d < p
      BY <1>4, <2>1, <3>1, <3>3
    <3>5. PICK y \in Nat : Spans(w[k], s, y) /\ y <= d
      BY <3>2 DEF Linked
    <3> HIDE DEF d
    <3>6. y < p
      BY <2>1, <3>4, <3>5
    <3>7. InkAt(w[k], p)
      BY <1>5, <2>1, <2>4, <3>5, <3>6 DEF Spans
    <3> QED BY <2>4, <3>7
  <2> QED BY <2>5, <2>6
<1> QED BY <1>4, <1>5 DEF n

\* Chunks in a chain up to the text's end cover it.
LEMMA ChainCovers ==
  ASSUME NEW G, Sited(G), NEW w \in Seq(Seq(G)), NEW s \in Seq(G), NEW o, Chained(w, s, o),
         \A p : InkAt(s, p) => p \in Nat /\ p # 0 /\ p <= End(w[Len(w)])
  PROVE  Covering(w, s, o)
<1> DEFINE n == Len(w)
<1>1. n \in Nat /\ DOMAIN w = 1..n /\ \A k \in 1..n : w[k] \in Seq(G)
  OBVIOUS
<1>2. \A k \in 1..n : \E x \in Nat : Spans(w[k], s, x)
  BY <1>1, ChainEnds
<1>3. \A k \in 1..(n - 1) : Linked(w[k], w[k + 1], s, o)
  BY DEF Chained
<1>4. \A p : InkAt(s, p) <=> \E k \in 1..n : InkAt(w[k], p)
  BY ChainReaches
<1>5. \A p : p \in Places(s) <=> InkAt(s, p)
  BY PlacesHaveInk
<1>6. \A k \in 1..n : \A p : p \in Places(w[k]) <=> InkAt(w[k], p)
  BY <1>1, PlacesHaveInk
<1> HIDE DEF n
<1>7. UNION {Places(w[k]) : k \in 1..n} = Places(s)
  <2> DEFINE U == UNION {Places(w[k]) : k \in 1..n}
  <2>1. \A p : p \in U <=> \E k \in 1..n : p \in Places(w[k])
    OBVIOUS
  <2> HIDE DEF U
  <2>2. \A p : p \in U <=> p \in Places(s)
    BY <1>4, <1>5, <1>6, <2>1
  <2>3. U = Places(s)
    BY <2>2
  <2> QED BY <2>3 DEF U
<1>8. ASSUME NEW k \in 1..n
      PROVE  /\ \A i, j \in Inked(w[k]) : i < j => w[k][i].place < w[k][j].place
             /\ Places(w[k]) = {p \in Places(s) : Min(Places(w[k])) <= p /\ p <= Max(Places(w[k]))}
  <2> DEFINE u == w[k]
  <2>1. u \in Seq(G) /\ \E x \in Nat : Spans(u, s, x)
    BY <1>1, <1>2
  <2> HIDE DEF u
  <2>2. /\ \A i, j \in Inked(u) : i < j => u[i].place < u[j].place
        /\ Places(u) = {p \in Places(s) : Min(Places(u)) <= p /\ p <= Max(Places(u))}
    BY <2>1, StretchOfText
  <2> QED BY <2>2 DEF u
<1> DEFINE Repeated(k) == {i \in Inked(w[k]) : w[k][i].place \in Places(w[k - 1])}
<1>9. ASSUME NEW k \in 1..n, k # 1
      PROVE  /\ Max(Places(w[k])) > Max(Places(w[k - 1]))
             /\ Repeated(k) # {} => Tokens(SubSeq(w[k], 1, Max(Repeated(k)))) <= o
  <2> DEFINE j == k - 1
             t == w[j]
             u == w[k]
             R == {i \in Inked(u) : u[i].place \in Places(t)}
  <2>1. j \in 1..n /\ j \in 1..(n - 1) /\ j + 1 = k
    BY <1>1, <1>9
  <2>2. Linked(t, u, s, o)
    <3>1. Linked(w[j], w[j + 1], s, o)
      BY <1>3, <2>1
    <3> HIDE DEF j
    <3> QED BY <2>1, <3>1
  <2>3. t \in Seq(G) /\ u \in Seq(G)
    BY <1>1, <2>1
  <2> HIDE DEF j, t, u
  <2>4. R # {} => Tokens(SubSeq(u, 1, Max(R))) <= o
    BY <2>2, <2>3, RepeatedFits
  <2> DEFINE d == End(t)
             e == End(u)
  <2>5. Solid(t) /\ Solid(u) /\ d < e
    BY <2>2 DEF Linked, Spans
  <2>6. d \in Nat /\ e \in Nat
    BY <2>3, <2>5, EndIsLast
  <2>7. Max(Places(t)) = d /\ Max(Places(u)) = e
    BY <2>3, <2>5, PlacesOfText
  <2> HIDE DEF d, e
  <2>8. Max(Places(u)) > Max(Places(t))
    BY <2>5, <2>6, <2>7
  <2>9. Repeated(k) = R
    BY DEF u, t, j
  <2> HIDE DEF Repeated, R
  <2>10. Repeated(k) # {} => Tokens(SubSeq(u, 1, Max(Repeated(k)))) <= o
    BY <2>4, <2>9
  <2> QED BY <2>8, <2>10 DEF u, t, j
<1>10. \A k \in DOMAIN w \ {1} :
         /\ Max(Places(w[k])) > Max(Places(w[k - 1]))
         /\ Repeated(k) # {} => Tokens(SubSeq(w[k], 1, Max(Repeated(k)))) <= o
  <2> HIDE DEF Repeated
  <2> QED BY <1>1, <1>9
<1> HIDE DEF Repeated
<1> QED BY <1>1, <1>7, <1>8, <1>10 DEF Covering, Repeated

\* What is covered is a matter of ink.
LEMMA CoveringOfSame ==
  ASSUME NEW w, NEW s, NEW t, NEW o, Places(s) = Places(t), Covering(w, s, o)
  PROVE  Covering(w, t, o)
BY Zenon DEF Covering

\* A text is covered by its chunks, and by the whole of it.
LEMMA ChunksAreCovering ==
  ASSUME NEW G, Sited(G), Break \in G, NEW text \in Seq(G), Ordered(text), ~InkAt(text, 0),
         NEW budget, budget.limit \in Nat, budget.limit > SpecialTokens
  PROVE  ChunksCover(text, budget)
<1> DEFINE s == Strip(text)
           o == budget.overlap
           limit == budget.limit
<1>1. /\ s \in Seq(G) /\ Trimmed(s) /\ Ordered(s)
      /\ \A p : InkAt(s, p) <=> InkAt(text, p)
  BY StripInk
<1>2. Places(s) = Places(text)
  <2> HIDE DEF s
  <2>1. \A p : p \in Places(s) <=> p \in Places(text)
    BY <1>1, PlacesHaveInk
  <2> QED BY <2>1
<1>3. CASE s = <<>>
  <2>1. \A wholeDocument \in BOOLEAN : ChunkForCollection(text, wholeDocument, budget) = <<>>
    BY <1>3 DEF ChunkForCollection, PreserveAsSingleChunk, Split
  <2>2. Covering(<<>>, s, o)
    <3>1. DOMAIN <<>> = {} /\ Places(<<>>) = {}
      <4>1. DOMAIN <<>> = {}
        OBVIOUS
      <4> QED BY <4>1 DEF Places, Inked
    <3>2. UNION {Places(<<>>[k]) : k \in {}} = {}
      OBVIOUS
    <3> QED BY <1>3, <3>1, <3>2, Zenon DEF Covering
  <2>3. Covering(<<>>, text, o)
    BY <1>2, <2>2, CoveringOfSame
  <2> HIDE DEF s
  <2>4. \A wholeDocument \in BOOLEAN : Covering(ChunkForCollection(text, wholeDocument, budget), text, o)
    BY <2>1, <2>3, Zenon
  <2> QED BY <2>4, Zenon DEF ChunksCover, Covering, o
<1>4. CASE s # <<>>
  <2>1. Solid(s)
    BY <1>1, <1>4 DEF Solid
  <2> HIDE DEF s
  <2>2. \A p : InkAt(s, p) => p \in Nat /\ p # 0 /\ p <= End(s)
    BY <1>1, <2>1, EndIsLast
  <2>3. ASSUME NEW w \in Seq(Seq(G)), Chained(w, s, o), End(w[Len(w)]) = End(s)
        PROVE  Covering(w, text, o)
    <3>1. \A p : InkAt(s, p) => p \in Nat /\ p # 0 /\ p <= End(w[Len(w)])
      BY <2>2, <2>3
    <3> HIDE DEF o
    <3>2. Covering(w, s, o)
      BY <1>1, <2>3, <3>1, ChainCovers
    <3> QED BY <1>2, <3>2, CoveringOfSame
  <2>4. Covering(Split(text, limit, o), text, o)
    <3> DEFINE v == SplitToLimit(s, limit)
               chunks == Split(text, limit, o)
    <3>1. v \in Seq(Seq(G)) /\ Cuts(v, s) /\ Tight(v)
      BY <1>1, <1>4, PiecesCut
    <3> HIDE DEF v, o, limit
    <3>2. ~InkAt(s, 0)
      BY <1>1
    <3>3. Tiled(v, s) /\ Len(v) > 0 /\ End(v[Len(v)]) = End(s)
      BY <1>1, <2>1, <3>1, <3>2, PiecesTile
    <3>4. Strip(text) # <<>> /\ v = SplitToLimit(Strip(text), limit)
      BY <1>4 DEF s, v
    <3>5. chunks \in Seq(Seq(G)) /\ Chained(chunks, s, o) /\ End(chunks[Len(chunks)]) = End(v[Len(v)])
      BY <3>1, <3>3, <3>4, ChunksChained
    <3> HIDE DEF chunks
    <3>6. Covering(chunks, text, o)
      BY <2>3, <3>3, <3>5
    <3> QED BY <3>6 DEF chunks
  <2>5. Covering(<<s>>, text, o)
    <3> DEFINE w == <<s>>
    <3>1. w \in Seq(Seq(G)) /\ Len(w) = 1 /\ w[1] = s /\ 1 > 0 /\ 1..(1 - 1) = {}
      BY <1>1
    <3> HIDE DEF w, o
    <3>2. Spans(s, s, 0)
      BY <2>1, <2>2 DEF Spans
    <3>3. Chained(w, s, o) /\ End(w[Len(w)]) = End(s)
      BY <3>1, <3>2 DEF Chained
    <3>4. Covering(w, text, o)
      BY <2>3, <3>1, <3>3
    <3> QED BY <3>4 DEF w
  <2>6. ASSUME NEW wholeDocument \in BOOLEAN
        PROVE  Covering(ChunkForCollection(text, wholeDocument, budget), text, o)
    <3> HIDE DEF o, limit
    <3>1. CASE wholeDocument
      <4>1. ChunkForCollection(text, wholeDocument, budget) = <<s>>
        BY <1>4, <3>1 DEF ChunkForCollection, PreserveAsSingleChunk, s
      <4> QED BY <2>5, <4>1, Zenon
    <3>2. CASE ~wholeDocument
      <4>1. ChunkForCollection(text, wholeDocument, budget) = Split(text, limit, o)
        BY <3>2 DEF ChunkForCollection, limit, o
      <4> QED BY <2>4, <4>1, Zenon
    <3> QED BY <3>1, <3>2
  <2> QED BY <2>6, Zenon DEF ChunksCover, Covering, o
<1> QED BY <1>3, <1>4
=============================================================================
