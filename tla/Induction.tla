----------------------------- MODULE Induction -----------------------------
(***************************************************************************)
(* Induction over numbers and finite sets, stated of sets, so that a proof *)
(* can cite it with the set of those of which its claim holds; and what    *)
(* follows for the least and greatest element, for sums and for folds.     *)
(***************************************************************************)
EXTENDS Integers, FiniteSetTheorems, SequencesExt, FiniteSetsExt, Functions, TLAPS

-----------------------------------------------------------------------------
(* Induction.                                                              *)

\* What holds of a subset whenever it holds of all smaller ones holds of all subsets of
\* a finite set.
LEMMA SubsetInduction ==
  ASSUME NEW D, IsFiniteSet(D), NEW P,
         \A s \in SUBSET D : (\A t \in SUBSET s : t # s => t \in P) => s \in P
  PROVE  SUBSET D \subseteq P
<1> DEFINE T == (SUBSET D) \ P
<1> SUFFICES ASSUME T # {} PROVE FALSE
  OBVIOUS
<1>1. IsWellFoundedOn(StrictSubsetOrdering(D), FiniteSubsetsOf(D))
  BY FS_StrictSubsetOrderingWellFounded
<1>2. T \subseteq FiniteSubsetsOf(D)
  BY FS_FiniteSubsetsOfFinite
<1> HIDE DEF T
<1>3. PICK s \in T : \A t \in T : <<t, s>> \notin StrictSubsetOrdering(D)
  BY <1>1, <1>2, WFMin
<1>4. s \in SUBSET D /\ s \notin P
  BY DEF T
<1>5. \A t \in SUBSET s : t # s => t \notin T
  BY <1>3, <1>4 DEF StrictSubsetOrdering
<1> QED BY <1>4, <1>5 DEF T

LEMMA LeastNatural ==
  ASSUME NEW S \in SUBSET Nat, S # {}
  PROVE  \E n \in S : \A m \in S : n <= m
<1> PICK k \in S : TRUE
  OBVIOUS
<1> DEFINE I == 1..k
           Reached == \E m \in S : \A l \in S : m <= l
           P == {s \in SUBSET I : \A n \in S : s = 1..n => Reached}
<1> HIDE DEF Reached
<1>1. IsFiniteSet(I)
  BY FS_Interval
<1>2. \A s \in SUBSET I : (\A t \in SUBSET s : t # s => t \in P) => s \in P
  <2> SUFFICES ASSUME NEW s \in SUBSET I, \A t \in SUBSET s : t # s => t \in P,
                      NEW n \in S, s = 1..n, ~Reached
               PROVE  FALSE
    OBVIOUS
  <2>1. PICK l \in S : l < n
    BY DEF Reached
  <2>2. 1..l \subseteq s /\ n \in s /\ n \notin 1..l
    BY <2>1
  <2> QED BY <2>2
<1> HIDE DEF P, I
<1>3. SUBSET I \subseteq P
  BY <1>1, <1>2, SubsetInduction
<1> QED BY <1>3 DEF P, I, Reached

LEMMA NatSetInduction ==
  ASSUME NEW S, 0 \in S, \A n \in Nat : n \in S => n + 1 \in S
  PROVE  Nat \subseteq S
<1> DEFINE U == Nat \ S
<1> SUFFICES ASSUME U # {} PROVE FALSE
  OBVIOUS
<1>1. PICK n \in U : \A m \in U : n <= m
  BY LeastNatural
<1>2. n # 0 /\ n - 1 \in Nat /\ n - 1 \notin U
  BY <1>1
<1> QED BY <1>1, <1>2

-----------------------------------------------------------------------------
(* Least and greatest elements.                                            *)

LEMMA MinIsLeast ==
  ASSUME NEW S \in SUBSET Nat, S # {}
  PROVE  Min(S) \in S /\ \A n \in S : Min(S) <= n
BY LeastNatural, Zenon DEF Min

LEMMA MaxIsGreatest ==
  ASSUME NEW S \in SUBSET Nat, S # {}, IsFiniteSet(S)
  PROVE  Max(S) \in S /\ \A n \in S : n <= Max(S)
<1> DEFINE P == {s \in SUBSET S : s # {} => \E m \in s : \A n \in s : m >= n}
<1>1. \A s \in SUBSET S : (\A t \in SUBSET s : t # s => t \in P) => s \in P
  <2> SUFFICES ASSUME NEW s \in SUBSET S, \A t \in SUBSET s : t # s => t \in P, s # {}
               PROVE  \E m \in s : \A n \in s : m >= n
    OBVIOUS
  <2>1. PICK x \in s : TRUE
    OBVIOUS
  <2>2. s \ {x} \in P
    BY <2>1
  <2>3. CASE s = {x}
    BY <2>3
  <2>4. CASE s # {x}
    <3>1. PICK m \in s \ {x} : \A n \in s \ {x} : m >= n
      BY <2>1, <2>2, <2>4
    <3> QED BY <2>1, <3>1
  <2> QED BY <2>3, <2>4
<1> HIDE DEF P
<1>2. S \in P
  BY <1>1, SubsetInduction
<1>3. \E m \in S : \A n \in S : m >= n
  BY <1>2 DEF P
<1>4. Max(S) \in S /\ \A n \in S : Max(S) >= n
  BY <1>3, Zenon DEF Max
<1> QED BY <1>4

\* The places of a sequence.
LEMMA SequencePlaces ==
  ASSUME NEW S, NEW s \in Seq(S)
  PROVE  /\ DOMAIN s = 1..Len(s) /\ Len(s) \in Nat
         /\ IsFiniteSet(DOMAIN s) /\ Cardinality(DOMAIN s) = Len(s)
         /\ DOMAIN s \subseteq Nat
         /\ \A i \in DOMAIN s : s[i] \in S
<1>1. DOMAIN s = 1..Len(s) /\ Len(s) \in Nat
  OBVIOUS
<1>2. IsFiniteSet(1..Len(s)) /\ Cardinality(1..Len(s)) = Len(s)
  BY <1>1, FS_Interval
<1>3. DOMAIN s \subseteq Nat /\ \A i \in DOMAIN s : s[i] \in S
  OBVIOUS
<1> QED BY <1>1, <1>2, <1>3

-----------------------------------------------------------------------------
(* Counting.                                                               *)

Maps(f, S, T) == f \in [S -> T]
OneToOne(f, S) == \A x, y \in S : f[x] = f[y] => x = y

\* Different elements of S go to different elements of T, which has as many: so to all.
LEMMA InjectionIsOnto ==
  ASSUME NEW S, NEW T, IsFiniteSet(S), IsFiniteSet(T), Cardinality(S) = Cardinality(T),
         NEW f, Maps(f, S, T),
         OneToOne(f, S)
  PROVE  \A t \in T : \E x \in S : f[x] = t
<1>1. f \in Injection(S, T)
  BY DEF Injection, IsInjective, OneToOne, Maps
<1>2. f \in Surjection(S, T)
  BY <1>1, FS_Injection
<1> QED BY <1>2 DEF Surjection

\* ... which then has at least as many.
LEMMA InjectionCounts ==
  ASSUME NEW S, NEW T, IsFiniteSet(S), IsFiniteSet(T), NEW f, Maps(f, S, T),
         OneToOne(f, S)
  PROVE  Cardinality(S) <= Cardinality(T)
<1>1. f \in Injection(S, T)
  BY DEF Injection, IsInjective, OneToOne, Maps
<1> QED BY <1>1, FS_Injection

\* ... and as many as there are images.
LEMMA ImageCounts ==
  ASSUME NEW S, NEW T, IsFiniteSet(S), NEW f, Maps(f, S, T),
         OneToOne(f, S), \A t \in T : \E x \in S : f[x] = t
  PROVE  IsFiniteSet(T) /\ Cardinality(T) = Cardinality(S)
<1>1. f \in Bijection(S, T)
  BY DEF Injection, Surjection, Bijection, IsInjective, OneToOne, Maps
<1> QED BY <1>1, FS_Bijection DEF ExistsBijection

LEMMA ImageIsFinite ==
  ASSUME NEW S, IsFiniteSet(S), NEW f, NEW T, T = {f[x] : x \in S}
  PROVE  IsFiniteSet(T)
<1> DEFINE g == [x \in S |-> f[x]]
<1>1. g \in Surjection(S, T)
  BY DEF Surjection
<1> QED BY <1>1, FS_Surjection

LEMMA EmptyCounts ==
  ASSUME NEW S, IsFiniteSet(S)
  PROVE  Cardinality(S) \in Nat /\ (Cardinality(S) = 0 <=> S = {})
BY FS_EmptySet, FS_CardinalityType

\* A proper part counts less.
LEMMA ProperPartCounts ==
  ASSUME NEW S, IsFiniteSet(S), NEW T \in SUBSET S, NEW x \in S \ T
  PROVE  /\ Cardinality(T) \in Nat /\ Cardinality(S) \in Nat
         /\ Cardinality(T) < Cardinality(S)
<1>1. IsFiniteSet(S \ {x}) /\ Cardinality(S \ {x}) = Cardinality(S) - 1
  BY FS_RemoveElement
<1>2. T \in SUBSET (S \ {x})
  OBVIOUS
<1>3. IsFiniteSet(T) /\ Cardinality(T) <= Cardinality(S \ {x})
  BY <1>1, <1>2, FS_Subset
<1>4. Cardinality(T) \in Nat /\ Cardinality(S) \in Nat
  BY <1>3, FS_CardinalityType
<1> QED BY <1>1, <1>3, <1>4

-----------------------------------------------------------------------------
(* Folds.                                                                  *)

\* pick takes an element out of every subset of D.
Picks(pick, D) == \A s \in SUBSET D : s # {} => pick[s] \in s

\* f is the fold of D that begins with base, and of whose steps step says what comes
\* of each element.
Folds(f, D, base, pick, step) == \A s \in SUBSET D :
  f[s] = IF s = {} THEN base ELSE step[pick[s]][f[s \ {pick[s]}]]

\* f adds up w.
Sums(f, D, w, pick) == \A s \in SUBSET D :
  f[s] = IF s = {} THEN 0 ELSE w[pick[s]] + f[s \ {pick[s]}]

\* The recursion by which a fold is defined, over the subsets of a finite set, has a
\* solution: pick says which element of a subset is taken, step what comes of it.
LEMMA FoldExists ==
  ASSUME NEW D, IsFiniteSet(D), NEW V, NEW base \in V,
         NEW pick, Picks(pick, D), NEW step \in [D -> [V -> V]]
  PROVE  \E f \in [SUBSET D -> V] : Folds(f, D, base, pick, step)
<1> USE DEF Picks
<1> DEFINE Next(g) == [s \in SUBSET D |->
                        IF s = {} THEN base ELSE step[pick[s]][g[s \ {pick[s]}]]]
           Solves(g, n) == \A s \in SUBSET D : Cardinality(s) < n => g[s] = Next(g)[s]
           Good == {n \in Nat : \E g \in [SUBSET D -> V] : Solves(g, n)}
<1>1. \A s \in SUBSET D : s # {} => pick[s] \in D /\ s \ {pick[s]} \in SUBSET D
  OBVIOUS
<1>2. \A g \in [SUBSET D -> V] : Next(g) \in [SUBSET D -> V]
  <2> SUFFICES ASSUME NEW g \in [SUBSET D -> V], NEW s \in SUBSET D, s # {}
               PROVE  step[pick[s]][g[s \ {pick[s]}]] \in V
    OBVIOUS
  <2> QED BY <1>1
<1>3. \A s \in SUBSET D : IsFiniteSet(s)
  BY FS_Subset
<1>4. \A s \in SUBSET D : Cardinality(s) \in Nat /\ Cardinality(s) <= Cardinality(D)
  BY <1>3, FS_Subset, FS_CardinalityType
<1>5. 0 \in Good
  <2>1. [s \in SUBSET D |-> base] \in [SUBSET D -> V]
    OBVIOUS
  <2>2. \A g : Solves(g, 0)
    BY <1>4
  <2> HIDE DEF Solves
  <2> QED BY <2>1, <2>2
<1>6. ASSUME NEW n \in Nat, n \in Good PROVE n + 1 \in Good
  <2>1. PICK g \in [SUBSET D -> V] : Solves(g, n)
    BY <1>6
  <2>2. ASSUME NEW s \in SUBSET D, Cardinality(s) < n + 1
        PROVE  Next(g)[s] = Next(Next(g))[s]
    <3>1. CASE s = {}
      BY <3>1
    <3>2. CASE s # {}
      <4> DEFINE t == s \ {pick[s]}
      <4>1. t \in SUBSET D /\ Cardinality(t) = Cardinality(s) - 1
        BY <1>3, <3>2, FS_RemoveElement
      <4>2. Cardinality(t) < n
        BY <1>4, <2>2, <4>1
      <4> HIDE DEF t
      <4>3. g[t] = Next(g)[t]
        BY <2>1, <4>1, <4>2
      <4>4. Next(g)[s] = step[pick[s]][g[t]]
        BY <3>2 DEF t
      <4>5. Next(Next(g))[s] = step[pick[s]][Next(g)[t]]
        BY <3>2 DEF t
      <4> QED BY <4>3, <4>4, <4>5
    <3> QED BY <3>1, <3>2
  <2> DEFINE h == Next(g)
  <2>3. h \in [SUBSET D -> V]
    BY <1>2
  <2>4. Solves(h, n + 1)
    BY <2>2
  <2> HIDE DEF Solves, h
  <2> QED BY <2>3, <2>4
<1> HIDE DEF Good
<1>7. Cardinality(D) + 1 \in Good
  <2>1. Nat \subseteq Good
    BY <1>5, <1>6, NatSetInduction
  <2> QED BY <1>4, <2>1
<1>8. PICK g \in [SUBSET D -> V] : Solves(g, Cardinality(D) + 1)
  BY <1>7 DEF Good
<1>9. \A s \in SUBSET D : Cardinality(s) < Cardinality(D) + 1
  BY <1>4
<1>10. \A s \in SUBSET D : g[s] = Next(g)[s]
  BY <1>8, <1>9
<1> QED BY <1>10 DEF Folds

\* The choice of FoldLeft: the last place.
Lasts(n) == [s \in SUBSET (1..n) |-> Max(s)]

LEMMA LastIsPick ==
  ASSUME NEW n \in Nat
  PROVE  /\ IsFiniteSet(1..n)
         /\ Picks(Lasts(n), 1..n)
         /\ \A s \in SUBSET (1..n) : s # {} =>
              Lasts(n)[s] = Max(s) /\ Max(s) \in 1..n /\ s \ {Max(s)} \in SUBSET (1..n)
<1>0. IsFiniteSet(1..n)
  BY FS_Interval
<1>1. ASSUME NEW s \in SUBSET (1..n), s # {} PROVE Max(s) \in s
  <2>1. s \in SUBSET Nat
    OBVIOUS
  <2>2. IsFiniteSet(s)
    BY <1>0, FS_Subset
  <2> QED BY <1>1, <2>1, <2>2, MaxIsGreatest
<1> QED BY <1>0, <1>1 DEF Picks, Lasts

\* A step for each of n elements, and the fold over any of them from the first to the last.
Steps(step, n, V) == step \in [1..n -> [V -> V]]
FoldsLeft(f, n, V, base, step) ==
  /\ f \in [SUBSET (1..n) -> V] /\ f[{}] = base
  /\ \A s \in SUBSET (1..n) : s # {} =>
       /\ Max(s) \in 1..n /\ f[s \ {Max(s)}] \in V
       /\ f[s] = step[Max(s)][f[s \ {Max(s)}]]

\* FoldLeft's recursion has a solution.
LEMMA FoldLeftExists ==
  ASSUME NEW n \in Nat, NEW V, NEW base \in V, NEW step, Steps(step, n, V)
  PROVE  \E f : FoldsLeft(f, n, V, base, step)
<1> step \in [1..n -> [V -> V]]
  BY DEF Steps
<1>1. PICK f \in [SUBSET (1..n) -> V] : Folds(f, 1..n, base, Lasts(n), step)
  BY LastIsPick, FoldExists
<1>2. f[{}] = base
  BY <1>1 DEF Folds
<1>3. ASSUME NEW s \in SUBSET (1..n), s # {}
      PROVE  /\ Max(s) \in 1..n /\ f[s \ {Max(s)}] \in V
             /\ f[s] = step[Max(s)][f[s \ {Max(s)}]]
  <2>1. Lasts(n)[s] = Max(s) /\ Max(s) \in 1..n /\ s \ {Max(s)} \in SUBSET (1..n)
    BY <1>3, LastIsPick
  <2> QED BY <1>1, <1>3, <2>1 DEF Folds
<1> QED BY <1>2, <1>3 DEF FoldsLeft

\* How far a fold over a sequence has got: the last of the first i elements is the i-th.
LEMMA LastOfInterval ==
  ASSUME NEW n \in Nat, NEW i \in 1..n
  PROVE  /\ (1..i) \in SUBSET (1..n)
         /\ (1..i) # {}
         /\ Max(1..i) = i
         /\ (1..i) \ {i} = 1..(i - 1)
<1>1. /\ (1..i) \in SUBSET Nat
      /\ IsFiniteSet(1..i)
      /\ i \in 1..i
  BY FS_Interval
<1>2. (1..i) # {}
  BY <1>1
<1>3. Max(1..i) \in 1..i /\ i <= Max(1..i)
  BY <1>1, <1>2, MaxIsGreatest
<1>4. (1..i) \in SUBSET (1..n)
  OBVIOUS
<1>5. Max(1..i) = i
  BY <1>3
<1>6. (1..i) \ {i} = 1..(i - 1)
  OBVIOUS
<1> QED BY <1>2, <1>4, <1>5, <1>6

-----------------------------------------------------------------------------
(* Sums.                                                                   *)

\* Whichever element is taken first, the sum is the same.
LEMMA SumSolution ==
  ASSUME NEW D, IsFiniteSet(D), NEW w, \A x \in D : w[x] \in Int,
         NEW pick, Picks(pick, D), NEW f, Sums(f, D, w, pick)
  PROVE  \A s \in SUBSET D :
           f[s] \in Int /\ \A x \in s : f[s] = w[x] + f[s \ {x}]
<1> USE DEF Picks, Sums
<1> DEFINE Holds(s) == f[s] \in Int /\ \A x \in s : f[s] = w[x] + f[s \ {x}]
           P == {s \in SUBSET D : Holds(s)}
<1>2. ASSUME NEW s \in SUBSET D, \A t \in SUBSET s : t # s => t \in P
      PROVE  s \in P
  <2>1. CASE s = {}
    BY <2>1
  <2>2. CASE s # {}
    <3> DEFINE p == pick[s]
    <3>1. p \in s /\ s \ {p} \in SUBSET s /\ s \ {p} # s
      BY <2>2
    <3>2. f[s] = w[p] + f[s \ {p}] /\ f[s \ {p}] \in Int /\ w[p] \in Int
      BY <1>2, <2>2, <3>1
    <3>3. ASSUME NEW x \in s, x # p PROVE f[s] = w[x] + f[s \ {x}]
      <4>1. s \ {x} \in P /\ s \ {p} \in P
        BY <1>2, <3>1, <3>3
      <4>2. f[s \ {x}] = w[p] + f[(s \ {x}) \ {p}] /\ f[s \ {p}] = w[x] + f[(s \ {p}) \ {x}]
        BY <3>1, <3>3, <4>1
      <4>3. (s \ {x}) \ {p} = (s \ {p}) \ {x} /\ (s \ {x}) \ {p} \in SUBSET s /\ (s \ {x}) \ {p} # s
        OBVIOUS
      <4>4. f[(s \ {x}) \ {p}] \in Int /\ w[x] \in Int
        BY <1>2, <4>3
      <4> DEFINE rest == f[(s \ {x}) \ {p}]
      <4>5. rest \in Int /\ f[s \ {x}] = w[p] + rest /\ f[s \ {p}] = w[x] + rest
        BY <4>2, <4>3, <4>4
      <4> HIDE DEF P, p, rest
      <4> QED BY <3>2, <4>4, <4>5
    <3>4. f[s] \in Int
      BY <3>2
    <3> HIDE DEF p
    <3> QED BY <3>2, <3>3, <3>4
  <2> QED BY <2>1, <2>2
<1>3. SUBSET D \subseteq P
  <2>1. \A s \in SUBSET D : (\A t \in SUBSET s : t # s => t \in P) => s \in P
    BY <1>2
  <2> HIDE DEF P
  <2> QED BY <2>1, SubsetInduction
<1> QED BY <1>3


\* The choice of SumFunctionOnSet.
Chosen(s) == CHOOSE x \in s : TRUE
Chooser(D) == [s \in SUBSET D |-> Chosen(s)]

LEMMA ChosenIsPick ==
  ASSUME NEW D
  PROVE  /\ Picks(Chooser(D), D)
         /\ \A s \in SUBSET D : s # {} => Chosen(s) \in s /\ Chooser(D)[s] = Chosen(s)
<1>1. \A s : s # {} => Chosen(s) \in s
  BY Zenon DEF Chosen
<1> QED BY <1>1 DEF Picks, Chooser

LEMMA SumIsUnique ==
  ASSUME NEW D, IsFiniteSet(D), NEW w, NEW pick, Picks(pick, D),
         NEW f, NEW g, Sums(f, D, w, pick), Sums(g, D, w, pick)
  PROVE  f[D] = g[D]
<1> DEFINE P == {s \in SUBSET D : f[s] = g[s]}
<1>1. \A s \in SUBSET D : (\A t \in SUBSET s : t # s => t \in P) => s \in P
  <2> SUFFICES ASSUME NEW s \in SUBSET D, \A t \in SUBSET s : t # s => t \in P
               PROVE  f[s] = g[s]
    OBVIOUS
  <2>1. CASE s = {}
    BY <2>1 DEF Sums
  <2>2. CASE s # {}
    <3> DEFINE t == s \ {pick[s]}
    <3>1. t \in SUBSET s /\ t # s
      BY <2>2 DEF Picks
    <3>2. f[t] = g[t]
      BY <3>1
    <3>3. f[s] = w[pick[s]] + f[t] /\ g[s] = w[pick[s]] + g[t]
      BY <2>2 DEF Sums
    <3> QED BY <3>2, <3>3
  <2> QED BY <2>1, <2>2
<1> HIDE DEF P
<1>2. D \in P
  BY <1>1, SubsetInduction
<1> QED BY <1>2 DEF P

LEMMA SumIsFold ==
  ASSUME NEW D, IsFiniteSet(D), NEW w, \A x \in D : w[x] \in Int
  PROVE  \E f : Sums(f, D, w, Chooser(D)) /\ SumFunctionOnSet(w, D) = f[D]
<1> DEFINE it == CHOOSE f : f = [s \in SUBSET D |->
                   IF s = {} THEN 0 ELSE w[Chosen(s)] + f[s \ {Chosen(s)}]]
           step == [x \in D |-> [v \in Int |-> w[x] + v]]
<1>1. step \in [D -> [Int -> Int]] /\ 0 \in Int
  OBVIOUS
<1>2. \A x \in D, v \in Int : step[x][v] = w[x] + v
  OBVIOUS
<1> HIDE DEF step
<1>3. PICK f \in [SUBSET D -> Int] : Folds(f, D, 0, Chooser(D), step)
  BY <1>1, ChosenIsPick, FoldExists
<1>4. \A s \in SUBSET D : f[s] = IF s = {} THEN 0 ELSE w[Chosen(s)] + f[s \ {Chosen(s)}]
  <2> SUFFICES ASSUME NEW s \in SUBSET D, s # {}
               PROVE  f[s] = w[Chosen(s)] + f[s \ {Chosen(s)}]
    BY <1>3 DEF Folds
  <2>1. Chooser(D)[s] = Chosen(s) /\ Chosen(s) \in D /\ s \ {Chosen(s)} \in SUBSET D
    BY ChosenIsPick
  <2>2. f[s \ {Chosen(s)}] \in Int
    BY <1>3, <2>1
  <2> QED BY <1>2, <1>3, <2>1, <2>2 DEF Folds
<1>5. f = [s \in SUBSET D |-> IF s = {} THEN 0 ELSE w[Chosen(s)] + f[s \ {Chosen(s)}]]
  BY <1>4
<1>6. it = [s \in SUBSET D |-> IF s = {} THEN 0 ELSE w[Chosen(s)] + it[s \ {Chosen(s)}]]
  BY <1>5, Zenon
<1>7. SumFunctionOnSet(w, D) = it[D]
  BY Zenon DEF SumFunctionOnSet, FoldFunctionOnSet, MapThenFoldSet, Chosen
<1> HIDE DEF it
<1>8. Sums(it, D, w, Chooser(D))
  BY <1>6, ChosenIsPick DEF Sums
<1> QED BY <1>7, <1>8

\* SumFunctionOnSet: of nothing it is zero, and any element may be added last.
LEMMA SumOfNone ==
  ASSUME NEW w
  PROVE  SumFunctionOnSet(w, {}) = 0
BY SumIsFold, FS_EmptySet DEF Sums

LEMMA SumAdds ==
  ASSUME NEW S, IsFiniteSet(S), NEW w, \A x \in S : w[x] \in Int
  PROVE  /\ SumFunctionOnSet(w, S) \in Int
         /\ \A x \in S : SumFunctionOnSet(w, S) = w[x] + SumFunctionOnSet(w, S \ {x})
<1>1. PICK f : Sums(f, S, w, Chooser(S)) /\ SumFunctionOnSet(w, S) = f[S]
  BY SumIsFold
<1>2. \A s \in SUBSET S : f[s] \in Int /\ \A x \in s : f[s] = w[x] + f[s \ {x}]
  BY <1>1, ChosenIsPick, SumSolution
<1>3. ASSUME NEW x \in S PROVE SumFunctionOnSet(w, S \ {x}) = f[S \ {x}]
  <2> DEFINE T == S \ {x}
  <2>1. T \in SUBSET S /\ IsFiniteSet(T) /\ \A y \in T : w[y] \in Int
    BY FS_RemoveElement
  <2> HIDE DEF T
  <2>2. PICK g : Sums(g, T, w, Chooser(T)) /\ SumFunctionOnSet(w, T) = g[T]
    BY <2>1, SumIsFold
  <2>3. Sums(f, T, w, Chooser(T))
    <3>1. \A s \in SUBSET T : Chooser(T)[s] = Chooser(S)[s]
      BY <2>1 DEF Chooser
    <3> QED BY <1>1, <2>1, <3>1 DEF Sums
  <2>4. f[T] = g[T]
    BY <2>1, <2>2, <2>3, ChosenIsPick, SumIsUnique
  <2> QED BY <2>2, <2>4 DEF T
<1> QED BY <1>1, <1>2, <1>3

\* A sum of natural numbers is one.
LEMMA SumIsNatural ==
  ASSUME NEW S, IsFiniteSet(S), NEW w, \A x \in S : w[x] \in Nat
  PROVE  SumFunctionOnSet(w, S) \in Nat
<1> DEFINE P == {s \in SUBSET S : SumFunctionOnSet(w, s) \in Nat}
<1>1. \A s \in SUBSET S : (\A t \in SUBSET s : t # s => t \in P) => s \in P
  <2> SUFFICES ASSUME NEW s \in SUBSET S, \A t \in SUBSET s : t # s => t \in P
               PROVE  SumFunctionOnSet(w, s) \in Nat
    OBVIOUS
  <2>1. CASE s = {}
    BY <2>1, SumOfNone
  <2>2. CASE s # {}
    <3>1. PICK x \in s : TRUE
      BY <2>2
    <3>2. IsFiniteSet(s) /\ \A y \in s : w[y] \in Int
      BY FS_Subset
    <3>3. SumFunctionOnSet(w, s) = w[x] + SumFunctionOnSet(w, s \ {x})
      BY <3>2, SumAdds
    <3>4. s \ {x} \in P /\ w[x] \in Nat
      OBVIOUS
    <3> QED BY <3>3, <3>4
  <2> QED BY <2>1, <2>2
<1> HIDE DEF P
<1>2. S \in P
  BY <1>1, SubsetInduction
<1> QED BY <1>2 DEF P

\* A sum is the same by any names of its elements.
LEMMA SumMoves ==
  ASSUME NEW S, IsFiniteSet(S), NEW T, NEW f, Maps(f, S, T), OneToOne(f, S),
         \A y \in T : \E x \in S : f[x] = y,
         NEW w, NEW v, \A x \in S : w[x] \in Int /\ v[f[x]] = w[x]
  PROVE  SumFunctionOnSet(w, S) = SumFunctionOnSet(v, T)
<1> DEFINE I(s) == {y \in T : \E x \in s : f[x] = y}
           P == {s \in SUBSET S : SumFunctionOnSet(w, s) = SumFunctionOnSet(v, I(s))}
<1>1. IsFiniteSet(T)
  BY ImageCounts
<1>2. \A y \in T : v[y] \in Int
  OBVIOUS
<1>3. \A x \in S : f[x] \in T
  BY DEF Maps
<1>4. \A s \in SUBSET S : (\A t \in SUBSET s : t # s => t \in P) => s \in P
  <2> SUFFICES ASSUME NEW s \in SUBSET S, \A t \in SUBSET s : t # s => t \in P
               PROVE  SumFunctionOnSet(w, s) = SumFunctionOnSet(v, I(s))
    OBVIOUS
  <2>1. CASE s = {}
    <3>1. I(s) = {}
      BY <2>1
    <3> QED BY <2>1, <3>1, SumOfNone
  <2>2. CASE s # {}
    <3>1. PICK x \in s : TRUE
      BY <2>2
    <3> DEFINE t == s \ {x}
               y == f[x]
    <3>2. SumFunctionOnSet(w, t) = SumFunctionOnSet(v, I(t))
      OBVIOUS
    <3>3. y \in I(s) /\ I(t) = I(s) \ {y}
      BY <1>3 DEF OneToOne
    <3>4. IsFiniteSet(s) /\ \A z \in s : w[z] \in Int
      BY FS_Subset
    <3>5. IsFiniteSet(I(s)) /\ \A z \in I(s) : v[z] \in Int
      <4>1. I(s) \in SUBSET T
        OBVIOUS
      <4> HIDE DEF I
      <4> QED BY <1>1, <1>2, <4>1, FS_Subset
    <3>6. v[y] = w[x]
      OBVIOUS
    <3> HIDE DEF I, y
    <3>7. SumFunctionOnSet(w, s) = w[x] + SumFunctionOnSet(w, t)
      BY <3>4, SumAdds
    <3>8. SumFunctionOnSet(v, I(s)) = v[y] + SumFunctionOnSet(v, I(t))
      <4> DEFINE is == I(s)
                 it == I(t)
      <4>1. IsFiniteSet(is) /\ (\A z \in is : v[z] \in Int) /\ y \in is /\ it = is \ {y}
        BY <3>3, <3>5
      <4> HIDE DEF is, it
      <4>2. SumFunctionOnSet(v, is) = v[y] + SumFunctionOnSet(v, it)
        BY <4>1, SumAdds
      <4> QED BY <4>2 DEF is, it
    <3> HIDE DEF t
    <3> QED BY <3>2, <3>6, <3>7, <3>8
  <2> QED BY <2>1, <2>2
<1> HIDE DEF P
<1>5. S \in P
  BY <1>4, SubsetInduction
<1>6. I(S) = T
  BY <1>3
<1> QED BY <1>5, <1>6 DEF P

-----------------------------------------------------------------------------
(* The path a fold takes.                                                  *)

\* The recursion of FoldLeft over n elements, and the states it goes through in order.
Recurs(it, n, V, base, step) ==
  /\ n \in Nat /\ base \in V /\ Steps(step, n, V) /\ it[{}] = base
  /\ \A s \in SUBSET (1..n) :
       s # {} /\ Max(s) \in 1..n /\ it[s \ {Max(s)}] \in V
         => it[s] = step[Max(s)][it[s \ {Max(s)}]]

Walks(h, n, V, base, step, end) ==
  /\ h \in [0..n -> V] /\ h[0] = base /\ h[n] = end
  /\ \A i \in 1..n : h[i] = step[i][h[i - 1]]

LEMMA FoldPath ==
  ASSUME NEW n, NEW V, NEW base, NEW step, NEW it, Recurs(it, n, V, base, step)
  PROVE  \E h : Walks(h, n, V, base, step, it[1..n])
<1> DEFINE S == {i \in Nat : i <= n => it[1..i] \in V}
           h == [i \in 0..n |-> it[1..i]]
<1>0. /\ n \in Nat /\ base \in V /\ it[{}] = base
      /\ \A s \in SUBSET (1..n) :
           s # {} /\ Max(s) \in 1..n /\ it[s \ {Max(s)}] \in V
             => it[s] = step[Max(s)][it[s \ {Max(s)}]]
  BY DEF Recurs
<1> USE <1>0
<1>1. step \in [1..n -> [V -> V]]
  BY DEF Steps, Recurs
<1>2. ASSUME NEW i \in 1..n, it[1..(i - 1)] \in V
      PROVE  it[1..i] = step[i][it[1..(i - 1)]] /\ it[1..i] \in V
  <2> DEFINE a == 1..i
             b == 1..(i - 1)
  <2>1. a \in SUBSET (1..n) /\ a # {} /\ Max(a) = i /\ a \ {i} = b
    BY LastOfInterval
  <2>2. it[b] \in V
    BY <1>2
  <2> HIDE DEF a, b
  <2>3. it[a] = step[i][it[b]]
    BY <2>1, <2>2
  <2>4. it[a] \in V
    BY <1>1, <2>2, <2>3
  <2> QED BY <2>3, <2>4 DEF a, b
<1>3. it[1..0] = base
  <2>1. 1..0 = {}
    OBVIOUS
  <2> QED BY <2>1
<1>4. 0 \in S
  BY <1>3
<1>5. ASSUME NEW i \in Nat, i \in S PROVE i + 1 \in S
  <2> SUFFICES ASSUME i + 1 <= n PROVE it[1..(i + 1)] \in V
    OBVIOUS
  <2>1. it[1..i] \in V /\ i + 1 \in 1..n /\ (i + 1) - 1 = i
    BY <1>5
  <2> HIDE DEF S
  <2>2. it[1..((i + 1) - 1)] \in V
    BY <2>1
  <2> QED BY <1>2, <2>1, <2>2
<1> HIDE DEF S
<1>6. Nat \subseteq S
  BY <1>4, <1>5, NatSetInduction
<1>7. \A i \in 0..n : it[1..i] \in V
  BY <1>6 DEF S
<1>8. h \in [0..n -> V]
  BY <1>7
<1>9. h[0] = base /\ h[n] = it[1..n]
  BY <1>3
<1>10. ASSUME NEW i \in 1..n PROVE h[i] = step[i][h[i - 1]]
  <2>1. i \in 0..n /\ i - 1 \in 0..n
    OBVIOUS
  <2>2. h[i] = it[1..i] /\ h[i - 1] = it[1..(i - 1)]
    BY <2>1
  <2> HIDE DEF h
  <2> QED BY <1>2, <1>7, <2>1, <2>2
<1> HIDE DEF h
<1> QED BY <1>8, <1>9, <1>10 DEF Walks
-----------------------------------------------------------------------------
(* Along a sequence.                                                       *)

\* What holds at the start and is kept by each of n steps holds at the end.
LEMMA Along ==
  ASSUME NEW n \in Nat, NEW P, 0 \in P, \A i \in 1..n : i - 1 \in P => i \in P
  PROVE  n \in P /\ \A i \in 0..n : i \in P
<1> DEFINE S == {i \in Nat : i <= n => i \in P}
<1>1. 0 \in S
  OBVIOUS
<1>2. ASSUME NEW i \in Nat, i \in S PROVE i + 1 \in S
  <2> SUFFICES ASSUME i + 1 <= n PROVE i + 1 \in P
    OBVIOUS
  <2>1. i \in P /\ i + 1 \in 1..n /\ (i + 1) - 1 = i
    BY <1>2
  <2> QED BY <2>1
<1> HIDE DEF S
<1>3. Nat \subseteq S
  BY <1>1, <1>2, NatSetInduction
<1> QED BY <1>3 DEF S

\* The first items of a sequence.
LEMMA FirstLinesOf ==
  ASSUME NEW L, NEW s \in Seq(L)
  PROVE  /\ SubSeq(s, 1, 0) = <<>> /\ SubSeq(s, 1, Len(s)) = s
         /\ \A i \in 1..Len(s) : SubSeq(s, 1, i) = Append(SubSeq(s, 1, i - 1), s[i])
<1>1. SubSeq(s, 1, 0) = <<>>
  OBVIOUS
<1>2. SubSeq(s, 1, Len(s)) = s
  OBVIOUS
<1>3. ASSUME NEW i \in 1..Len(s) PROVE SubSeq(s, 1, i) = Append(SubSeq(s, 1, i - 1), s[i])
  <2>1. /\ SubSeq(s, 1, i) \in Seq(L) /\ Len(SubSeq(s, 1, i)) = i
        /\ \A j \in 1..i : SubSeq(s, 1, i)[j] = s[j]
    OBVIOUS
  <2>2. /\ SubSeq(s, 1, i - 1) \in Seq(L) /\ Len(SubSeq(s, 1, i - 1)) = i - 1
        /\ \A j \in 1..(i - 1) : SubSeq(s, 1, i - 1)[j] = s[j]
    OBVIOUS
  <2>3. s[i] \in L
    OBVIOUS
  <2> DEFINE a == SubSeq(s, 1, i)
             b == SubSeq(s, 1, i - 1)
             x == s[i]
  <2> HIDE DEF a, b, x
  <2>4. Append(b, x) \in Seq(L) /\ Len(Append(b, x)) = i
        /\ \A j \in 1..i : Append(b, x)[j] = IF j = i THEN x ELSE b[j]
    BY <2>2, <2>3 DEF a, b, x
  <2>5. \A j \in 1..i : a[j] = Append(b, x)[j]
    BY <2>1, <2>2, <2>4 DEF a, b, x
  <2>6. a = Append(b, x)
    BY <2>1, <2>4, <2>5 DEF a
  <2> QED BY <2>6 DEF a, b, x
<1> QED BY <1>1, <1>2, <1>3

LEMMA LineAppended ==
  ASSUME NEW S, NEW s \in Seq(S), NEW x \in S
  PROVE  /\ Append(s, x) \in Seq(S) /\ Len(Append(s, x)) = Len(s) + 1
         /\ \A j \in 1..Len(s) : Append(s, x)[j] = s[j]
         /\ Append(s, x)[Len(s) + 1] = x
         /\ Append(s, x) # <<>> /\ Last(Append(s, x)) = x
BY DEF Last

LEMMA ItemReplaced ==
  ASSUME NEW S, NEW v \in Seq(S), NEW n \in 1..Len(v), NEW e \in S
  PROVE  LET w == [v EXCEPT ![n] = e] IN
         /\ w \in Seq(S) /\ Len(w) = Len(v) /\ w[n] = e
         /\ \A k \in 1..Len(v) : k # n => w[k] = v[k]
OBVIOUS

LEMMA Joined ==
  ASSUME NEW S, NEW s \in Seq(S), NEW t \in Seq(S)
  PROVE  /\ s \o t \in Seq(S) /\ Len(s \o t) = Len(s) + Len(t)
         /\ \A j \in 1..Len(s) : (s \o t)[j] = s[j]
         /\ \A j \in 1..Len(t) : (s \o t)[Len(s) + j] = t[j]
OBVIOUS

\* A part of a text.
LEMMA SubText ==
  ASSUME NEW G, NEW s \in Seq(G), NEW a \in Nat, NEW b \in Nat, a >= 1, b <= Len(s), a <= b + 1
  PROVE  /\ SubSeq(s, a, b) \in Seq(G)
         /\ Len(SubSeq(s, a, b)) = b - a + 1
         /\ DOMAIN SubSeq(s, a, b) = 1..(b - a + 1)
         /\ \A i \in 1..(b - a + 1) : SubSeq(s, a, b)[i] = s[i + (a - 1)]
  OBVIOUS
=============================================================================
