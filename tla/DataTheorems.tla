---------------------------- MODULE DataTheorems ----------------------------
(***************************************************************************)
(* What the proofs of several components need of finite sets, of the folds *)
(* of the community modules, of lists without duplicates, of lists that    *)
(* are made of lists and of recursive functions.                           *)
(*                                                                         *)
(* Induction over a finite set is the well-foundedness of the strict       *)
(* subset ordering, in which every non-empty collection of sets has a      *)
(* smallest member.  A fold is described by a function g on the subsets of *)
(* a set: ch chooses the element of a subset that is taken last, and step  *)
(* adds it to the value of the others.                                     *)
(***************************************************************************)
EXTENDS FiniteSetTheorems, SequenceTheorems, SequencesExt, TLAPS

-----------------------------------------------------------------------------
(* Induction and folds over a finite set *)

\* Among the finite sets of some kind there is a smallest one: induction over finite sets.
LEMMA SmallestSet ==
  ASSUME NEW S, IsFiniteSet(S), NEW P, P \subseteq SUBSET S, P # {}
  PROVE  \E T \in P : \A U \in P : U \subseteq T => U = T
<1>1. P \subseteq FiniteSubsetsOf(S)
  BY FS_FiniteSubsetsOfFinite
<1>2. PICK T \in P : \A U \in P : <<U, T>> \notin StrictSubsetOrdering(S)
  BY <1>1, WFMin, FS_StrictSubsetOrderingWellFounded
<1>3. ASSUME NEW U \in P, U \subseteq T, U # T PROVE FALSE
  <2>1. <<U, T>> \in (SUBSET S) \X (SUBSET S)
    OBVIOUS
  <2>2. <<U, T>> \in StrictSubsetOrdering(S)
    BY <1>3, <2>1 DEF StrictSubsetOrdering
  <2> QED
    BY <1>2, <2>2
<1> QED
  BY <1>3

\* The values of a fold on the subsets of T.
IsFold(g, T, base, ch, step) ==
    g = [U \in SUBSET T |-> IF U = {} THEN base ELSE step[<<ch[U], g[U \ {ch[U]}]>>]]

\* A fold takes the chosen element last.
LEMMA FoldValue ==
  ASSUME NEW g, NEW T, NEW base, NEW ch, NEW step, IsFold(g, T, base, ch, step),
         NEW U \in SUBSET T
  PROVE  g[U] = IF U = {} THEN base ELSE step[<<ch[U], g[U \ {ch[U]}]>>]
BY DEF IsFold

\* A set and a larger one are folded alike.
LEMMA FoldUnique ==
  ASSUME NEW S, IsFiniteSet(S), NEW base, NEW ch, NEW step,
         \A U \in SUBSET S : U # {} => ch[U] \in U,
         NEW T \in SUBSET S, NEW U \in SUBSET S, NEW g, NEW h,
         IsFold(g, T, base, ch, step), IsFold(h, U, base, ch, step),
         NEW W, W \subseteq T, W \subseteq U
  PROVE  g[W] = h[W]
<1> DEFINE Bad == {X \in SUBSET (T \cap U) : g[X] # h[X]}
<1>1. SUFFICES ASSUME Bad # {} PROVE FALSE
  OBVIOUS
<1>2. PICK X \in Bad : \A Y \in Bad : Y \subseteq X => Y = X
  <2>1. Bad \subseteq SUBSET S
    OBVIOUS
  <2> HIDE DEF Bad
  <2> QED
    BY <1>1, <2>1, SmallestSet
<1>3. X \in SUBSET T /\ X \in SUBSET U /\ X \in SUBSET S
  OBVIOUS
<1>4. X # {}
  BY <1>3 DEF IsFold
<1>5. ch[X] \in X
  BY <1>3, <1>4
<1> DEFINE Y == X \ {ch[X]}
<1>6. g[Y] = h[Y]
  <2>1. Y \subseteq X /\ Y # X /\ Y \in SUBSET (T \cap U)
    BY <1>5
  <2> QED
    BY <1>2, <2>1
<1>7. g[X] = step[<<ch[X], g[Y]>>] /\ h[X] = step[<<ch[X], h[Y]>>]
  BY <1>3, <1>4 DEF IsFold
<1>8. g[X] # h[X]
  BY <1>2
<1> QED
  BY <1>6, <1>7, <1>8

\* Whatever the values of a step, a fold has one for every subset.
LEMMA FoldExists ==
  ASSUME NEW S, IsFiniteSet(S), NEW V, NEW base \in V, NEW ch,
         \A U \in SUBSET S : U # {} => ch[U] \in U,
         NEW step \in [S \X V -> V]
  PROVE  \E g \in [SUBSET S -> V] : IsFold(g, S, base, ch, step)
<1> DEFINE Good(T) == \E g \in [SUBSET T -> V] : IsFold(g, T, base, ch, step)
           Bad == {T \in SUBSET S : ~Good(T)}
<1>1. SUFFICES ASSUME Bad # {} PROVE FALSE
  OBVIOUS
<1>2. PICK T \in Bad : \A U \in Bad : U \subseteq T => U = T
  <2>1. Bad \subseteq SUBSET S
    OBVIOUS
  <2> HIDE DEF Bad
  <2> QED
    BY <1>1, <2>1, SmallestSet
<1>3. \A U \in SUBSET T : U # T => Good(U)
  BY <1>2
<1> DEFINE Fn(U) == CHOOSE g \in [SUBSET U -> V] : IsFold(g, U, base, ch, step)
<1>4. \A U \in SUBSET T : U # T => Fn(U) \in [SUBSET U -> V] /\ IsFold(Fn(U), U, base, ch, step)
  <2> SUFFICES ASSUME NEW U \in SUBSET T, U # T
               PROVE  Fn(U) \in [SUBSET U -> V] /\ IsFold(Fn(U), U, base, ch, step)
    OBVIOUS
  <2>1. Good(U)
    BY <1>3
  <2> QED
    BY <2>1
<1> HIDE DEF Fn
<1> DEFINE Low(U) == Fn(U)[U]
           Top == IF T = {} THEN base ELSE step[<<ch[T], Low(T \ {ch[T]})>>]
           f == [U \in SUBSET T |-> IF U = T THEN Top ELSE Low(U)]
<1>5. \A U \in SUBSET T : U # T => Low(U) \in V
  BY <1>4
<1>6. ASSUME NEW U \in SUBSET T, U # {}
      PROVE  /\ U \ {ch[U]} \in SUBSET T
             /\ U \ {ch[U]} # T
             /\ U \ {ch[U]} # U
             /\ ch[U] \in S
             /\ f[U \ {ch[U]}] = Low(U \ {ch[U]})
  <2>1. ch[U] \in U
    BY <1>6
  <2> QED
    BY <2>1
<1>7. Top \in V
  <2>1. CASE T = {}
    BY <2>1
  <2>2. CASE T # {}
    <3>1. ch[T] \in S /\ Low(T \ {ch[T]}) \in V
      BY <2>2, <1>5, <1>6
    <3> HIDE DEF Low
    <3> QED
      BY <2>2, <3>1
  <2> QED
    BY <2>1, <2>2
<1>8. f \in [SUBSET T -> V]
  <2> HIDE DEF Top, Low
  <2> QED
    BY <1>5, <1>7
<1>9. ASSUME NEW U \in SUBSET T
      PROVE  f[U] = IF U = {} THEN base ELSE step[<<ch[U], f[U \ {ch[U]}]>>]
  <2>1. CASE U = T
    <3>1. f[U] = Top
      BY <2>1
    <3> HIDE DEF f, Low
    <3> QED
      BY <2>1, <3>1, <1>6
  <2>2. CASE U # T /\ U = {}
    <3>1. f[U] = Low(U)
      BY <2>2
    <3>2. Fn(U)[U] = base
      <4>1. IsFold(Fn(U), U, base, ch, step)
        BY <2>2, <1>4
      <4>2. U \in SUBSET U
        OBVIOUS
      <4>3. Fn(U)[U] = IF U = {} THEN base ELSE step[<<ch[U], Fn(U)[U \ {ch[U]}]>>]
        BY <4>1, <4>2, FoldValue
      <4> QED
        BY <2>2, <4>3, Zenon
    <3> QED
      BY <2>2, <3>1, <3>2
  <2>3. CASE U # T /\ U # {}
    <3> DEFINE W == U \ {ch[U]}
    <3>1. f[U] = Fn(U)[U] /\ f[W] = Fn(W)[W]
      BY <2>3, <1>6
    <3>2. Fn(U)[U] = step[<<ch[U], Fn(U)[W]>>]
      <4>1. IsFold(Fn(U), U, base, ch, step)
        BY <2>3, <1>4
      <4> HIDE DEF f, Low, Top, Good
      <4> QED
        BY <2>3, <4>1, FoldValue
    <3>3. W \in SUBSET T /\ W # T /\ W \subseteq U
      BY <2>3, <1>6
    <3>4. IsFold(Fn(U), U, base, ch, step) /\ IsFold(Fn(W), W, base, ch, step)
      BY <2>3, <3>3, <1>4
    <3>5. U \in SUBSET S /\ W \in SUBSET S
      BY <3>3
    <3> HIDE DEF W, f
    <3>6. Fn(U)[W] = Fn(W)[W]
      BY <3>3, <3>4, <3>5, FoldUnique
    <3> USE DEF W
    <3> QED
      BY <2>3, <3>1, <3>2, <3>6
  <2> QED
    BY <2>1, <2>2, <2>3
<1>10. IsFold(f, T, base, ch, step)
  <2>1. f = [U \in SUBSET T |-> f[U]]
    OBVIOUS
  <2> HIDE DEF f
  <2> QED
    BY <2>1, <1>9 DEF IsFold
<1> HIDE DEF f
<1>11. Good(T)
  BY <1>8, <1>10
<1> QED
  BY <1>2, <1>11

\* What holds of the empty set, and of a set when it holds of the set without its
\* chosen element, holds of every subset.
LEMMA SetInduction ==
  ASSUME NEW S, IsFiniteSet(S), NEW ch, \A U \in SUBSET S : U # {} => ch[U] \in U,
         NEW P, {} \in P,
         \A U \in SUBSET S : U # {} /\ U \ {ch[U]} \in P => U \in P
  PROVE  SUBSET S \subseteq P
<1> DEFINE Bad == {T \in SUBSET S : T \notin P}
<1>1. SUFFICES ASSUME Bad # {} PROVE FALSE
  OBVIOUS
<1>2. PICK T \in Bad : \A U \in Bad : U \subseteq T => U = T
  <2>1. Bad \subseteq SUBSET S
    OBVIOUS
  <2> HIDE DEF Bad
  <2> QED
    BY <1>1, <2>1, SmallestSet
<1>3. T # {} /\ ch[T] \in T
  BY <1>2
<1>4. T \ {ch[T]} \in SUBSET S /\ T \ {ch[T]} # T
  BY <1>2, <1>3
<1>5. T \ {ch[T]} \in P
  BY <1>2, <1>4
<1> QED
  BY <1>2, <1>3, <1>5

-----------------------------------------------------------------------------
(* Sums over a finite set *)

\* The element that the folds of the community modules take last.
Choice(S) == [U \in SUBSET S |-> CHOOSE x \in U : TRUE]

LEMMA ChoiceOK == \A S : \A U \in SUBSET S : U # {} => Choice(S)[U] \in U
BY DEF Choice

\* Induction in the order of the folds of the community modules.
LEMMA ChoiceInduction ==
  ASSUME NEW S, IsFiniteSet(S), NEW P, {} \in P,
         ASSUME NEW U \in SUBSET S, NEW c \in U, c = Choice(S)[U], U \ {c} \in P
         PROVE  U \in P
  PROVE  S \in P
<1> DEFINE ch == Choice(S)
<1>1. \A U \in SUBSET S : U # {} => ch[U] \in U
  BY ChoiceOK
<1>2. \A U \in SUBSET S : U # {} /\ U \ {ch[U]} \in P => U \in P
  BY <1>1
<1> HIDE DEF ch
<1>3. SUBSET S \subseteq P
  BY <1>1, <1>2, SetInduction
<1> QED
  BY <1>3

\* The sums of f over the subsets of S.
IsSum(g, f, S) ==
    /\ g \in [SUBSET S -> Nat]
    /\ SumFunctionOnSet(f, S) = g[S]
    /\ g[{}] = 0
    /\ \A U \in SUBSET S : U # {} =>
         g[U] = f[Choice(S)[U]] + g[U \ {Choice(S)[U]}]

\* A sum adds the number of the chosen element to the sum over the others.
LEMMA SumIsFold ==
  ASSUME NEW S, IsFiniteSet(S), NEW f, \A x \in S : f[x] \in Nat
  PROVE  \E g : IsSum(g, f, S)
<1> DEFINE ch == Choice(S)
           step == [p \in S \X Nat |-> f[p[1]] + p[2]]
<1>1. \A U \in SUBSET S : U # {} => ch[U] \in U
  BY ChoiceOK
<1>2. step \in [S \X Nat -> Nat]
  OBVIOUS
<1>3. PICK g \in [SUBSET S -> Nat] : IsFold(g, S, 0, ch, step)
  <2> HIDE DEF ch, step
  <2> QED
    BY <1>1, <1>2, FoldExists
<1>4. \A U \in SUBSET S :
        g[U] = IF U = {} THEN 0
               ELSE f[CHOOSE x \in U : TRUE] + g[U \ {CHOOSE x \in U : TRUE}]
  <2> TAKE U \in SUBSET S
  <2>1. g[U] = IF U = {} THEN 0 ELSE step[<<ch[U], g[U \ {ch[U]}]>>]
    <3> HIDE DEF ch, step
    <3> QED
      BY <1>3, FoldValue
  <2>2. CASE U = {}
    BY <2>1, <2>2
  <2>3. CASE U # {}
    <3>1. ch[U] \in S /\ U \ {ch[U]} \in SUBSET S
      BY <1>1, <2>3
    <3>2. <<ch[U], g[U \ {ch[U]}]>> \in S \X Nat
      <4> HIDE DEF ch, step
      <4> QED
        BY <3>1
    <3>3. g[U] = f[ch[U]] + g[U \ {ch[U]}]
      BY <2>1, <2>3, <3>2
    <3> QED
      BY <2>3, <3>3 DEF Choice
  <2> QED
    BY <2>2, <2>3
<1> DEFINE h == CHOOSE iter : iter = [s \in SUBSET S |->
                    IF s = {} THEN 0
                    ELSE f[CHOOSE x \in s : TRUE] + iter[s \ {CHOOSE x \in s : TRUE}]]
<1>5. h = [s \in SUBSET S |->
             IF s = {} THEN 0
             ELSE f[CHOOSE x \in s : TRUE] + h[s \ {CHOOSE x \in s : TRUE}]]
  <2>1. g = [s \in SUBSET S |->
               IF s = {} THEN 0
               ELSE f[CHOOSE x \in s : TRUE] + g[s \ {CHOOSE x \in s : TRUE}]]
    BY <1>4
  <2> QED
    BY <2>1
<1>6. SumFunctionOnSet(f, S) = h[S]
  BY DEF SumFunctionOnSet, FoldFunctionOnSet, MapThenFoldSet
<1> HIDE DEF h
<1>7. \A U \in SUBSET S : U # {} => h[U] = f[ch[U]] + h[U \ {ch[U]}]
  BY <1>5 DEF Choice
<1>8. h[{}] = 0
  BY <1>5
<1>9. SUBSET S \subseteq {U \in SUBSET S : h[U] \in Nat}
  <2> DEFINE P == {U \in SUBSET S : h[U] \in Nat}
  <2>1. {} \in P
    BY <1>8
  <2>2. ASSUME NEW U \in SUBSET S, U # {}, U \ {ch[U]} \in P PROVE U \in P
    <3>1. f[ch[U]] \in Nat
      BY <1>1, <2>2
    <3>2. h[U \ {ch[U]}] \in Nat
      BY <2>2
    <3>3. h[U] = f[ch[U]] + h[U \ {ch[U]}]
      BY <1>7, <2>2
    <3>4. h[U] \in Nat
      <4> HIDE DEF ch, P, step
      <4> QED
        BY <3>1, <3>2, <3>3
    <3> QED
      BY <3>4
  <2> HIDE DEF P, ch
  <2>3. SUBSET S \subseteq P
    BY <1>1, <2>1, <2>2, SetInduction
  <2> QED
    BY <2>3 DEF P
<1>10. h \in [SUBSET S -> Nat]
  <2>1. DOMAIN h = SUBSET S /\ h = [U \in DOMAIN h |-> h[U]]
    BY <1>5
  <2> QED
    BY <1>9, <2>1
<1> QED
  BY <1>6, <1>7, <1>8, <1>10 DEF IsSum

LEMMA SumStep ==
  ASSUME NEW S, NEW f, NEW a, IsSum(a, f, S), NEW U \in SUBSET S, NEW c \in U,
         c = Choice(S)[U]
  PROVE  a[U] = f[c] + a[U \ {c}] /\ a[U] \in Nat /\ a[U \ {c}] \in Nat
BY DEF IsSum

\* When two families differ in one number, so do their sums.
LEMMA SumChange ==
  ASSUME NEW S, IsFiniteSet(S), NEW f, NEW h, \A x \in S : f[x] \in Nat /\ h[x] \in Nat,
         NEW e \in S, \A x \in S \ {e} : f[x] = h[x]
  PROVE  /\ SumFunctionOnSet(f, S) \in Nat /\ SumFunctionOnSet(h, S) \in Nat
         /\ SumFunctionOnSet(f, S) + h[e] = SumFunctionOnSet(h, S) + f[e]
<1>1. PICK a : IsSum(a, f, S)
  BY SumIsFold
<1>2. PICK b : IsSum(b, h, S)
  BY SumIsFold
<1> DEFINE P == {U \in SUBSET S : IF e \in U THEN a[U] + h[e] = b[U] + f[e] ELSE a[U] = b[U]}
<1>3. {} \in P
  BY <1>1, <1>2 DEF IsSum
<1>4. ASSUME NEW U \in SUBSET S, NEW c \in U, c = Choice(S)[U], U \ {c} \in P
      PROVE  U \in P
  <2> DEFINE W == U \ {c}
  <2>1. a[U] = f[c] + a[W] /\ b[U] = h[c] + b[W] /\ a[W] \in Nat /\ b[W] \in Nat
    BY <1>1, <1>2, <1>4, SumStep
  <2>2. f[c] \in Nat /\ h[c] \in Nat /\ f[e] \in Nat /\ h[e] \in Nat
    OBVIOUS
  <2>3. IF e \in W THEN a[W] + h[e] = b[W] + f[e] ELSE a[W] = b[W]
    BY <1>4
  <2>4. e \in W <=> e \in U /\ e # c
    OBVIOUS
  <2> HIDE DEF W
  <2>5. CASE c = e
    BY <2>1, <2>2, <2>3, <2>4, <2>5
  <2>6. CASE c # e
    <3>1. f[c] = h[c]
      BY <2>6
    <3> QED
      BY <2>1, <2>2, <2>3, <2>4, <2>6, <3>1
  <2> QED
    BY <2>5, <2>6
<1>5. S \in P
  <2> HIDE DEF P
  <2> QED
    BY <1>3, <1>4, ChoiceInduction
<1> QED
  BY <1>1, <1>2, <1>5 DEF IsSum

\* Families with the same numbers have the same sum.
LEMMA SumSame ==
  ASSUME NEW S, IsFiniteSet(S), NEW f, NEW h, \A x \in S : f[x] \in Nat /\ h[x] = f[x]
  PROVE  SumFunctionOnSet(f, S) \in Nat /\ SumFunctionOnSet(h, S) = SumFunctionOnSet(f, S)
<1>1. PICK a : IsSum(a, f, S)
  BY SumIsFold
<1>2. PICK b : IsSum(b, h, S)
  BY SumIsFold
<1> DEFINE P == {U \in SUBSET S : a[U] = b[U]}
<1>3. {} \in P
  BY <1>1, <1>2 DEF IsSum
<1>4. ASSUME NEW U \in SUBSET S, NEW c \in U, c = Choice(S)[U], U \ {c} \in P
      PROVE  U \in P
  <2>1. a[U] = f[c] + a[U \ {c}] /\ b[U] = h[c] + b[U \ {c}]
    BY <1>1, <1>2, <1>4, SumStep
  <2> QED
    BY <1>4, <2>1
<1>5. S \in P
  <2> HIDE DEF P
  <2> QED
    BY <1>3, <1>4, ChoiceInduction
<1> QED
  BY <1>1, <1>2, <1>5 DEF IsSum

\* The sum of none of anything is none.
LEMMA SumZero ==
  ASSUME NEW S, IsFiniteSet(S), NEW f, \A x \in S : f[x] = 0
  PROVE  SumFunctionOnSet(f, S) = 0
<1>1. PICK a : IsSum(a, f, S)
  BY SumIsFold
<1> DEFINE P == {U \in SUBSET S : a[U] = 0}
<1>2. {} \in P
  BY <1>1 DEF IsSum
<1>3. ASSUME NEW U \in SUBSET S, NEW c \in U, c = Choice(S)[U], U \ {c} \in P
      PROVE  U \in P
  <2>1. a[U] = f[c] + a[U \ {c}] /\ a[U \ {c}] = 0 /\ f[c] = 0
    BY <1>1, <1>3, SumStep
  <2> QED
    BY <2>1
<1>4. S \in P
  <2> HIDE DEF P
  <2> QED
    BY <1>2, <1>3, ChoiceInduction
<1> QED
  BY <1>1, <1>4 DEF IsSum

-----------------------------------------------------------------------------
(* Lists without duplicates *)

\* The list s without its place p.
WithoutAt(s, p) == SubSeq(s, 1, p - 1) \o SubSeq(s, p + 1, Len(s))

\* Where a list has a key there is a first place, and RemoveFirst takes it out.
LEMMA RemoveFirstAt ==
  ASSUME NEW K, NEW s \in Seq(K), IsInjective(s), NEW p \in 1 .. Len(s)
  PROVE  RemoveFirst(s, s[p]) = WithoutAt(s, p)
<1>0. DOMAIN s = 1 .. Len(s) /\ Len(s) \in Nat
  BY LenProperties
<1> DEFINE I == {i \in 1 .. Len(s) : s[i] = s[p]}
<1>1. I = {p}
  BY <1>0 DEF IsInjective
<1>2. (CHOOSE x \in I : \A y \in I : x =< y) = p
  BY <1>0, <1>1
<1>3. RemoveFirst(s, s[p]) = RemoveAt(s, CHOOSE x \in I : \A y \in I : x =< y)
  BY <1>1 DEF RemoveFirst, SelectInSeq, Min
<1> QED
  BY <1>2, <1>3 DEF RemoveAt, WithoutAt

LEMMA RemoveFirstAbsent ==
  ASSUME NEW K, NEW s \in Seq(K), NEW k, k \notin ToSet(s)
  PROVE  RemoveFirst(s, k) = s
BY LenProperties DEF RemoveFirst, ToSet

\* The list without one place.
LEMMA WithoutPlace ==
  ASSUME NEW K, NEW s \in Seq(K), NEW p \in 1 .. Len(s), NEW r,
         r = WithoutAt(s, p)
  PROVE  /\ r \in Seq(K)
         /\ Len(r) = Len(s) - 1
         /\ \A i \in 1 .. Len(r) : r[i] = IF i < p THEN s[i] ELSE s[i + 1]
<1>1. PICK n \in Nat : n = Len(s)
  BY LenProperties
<1>2. p \in Int /\ p >= 1 /\ p <= n
  BY <1>1
<1>3. \A i \in 1 .. n : s[i] \in K
  BY <1>1, LenProperties
<1> DEFINE a == SubSeq(s, 1, p - 1)
           b == SubSeq(s, p + 1, n)
<1>4. a \in Seq(K) /\ Len(a) = p - 1 /\ \A i \in 1 .. p - 1 : a[i] = s[i]
  <2>1. 1 \in Int /\ p - 1 \in Int /\ \A i \in 1 .. p - 1 : s[i] \in K
    BY <1>2, <1>3
  <2>2. /\ a \in Seq(K)
        /\ Len(a) = IF 1 <= p - 1 THEN p - 1 - 1 + 1 ELSE 0
        /\ \A i \in 1 .. p - 1 - 1 + 1 : a[i] = s[1 + i - 1]
    BY <2>1, SubSeqProperties
  <2> HIDE DEF a
  <2> QED
    BY <2>2, <1>2
<1>5. b \in Seq(K) /\ Len(b) = n - p /\ \A i \in 1 .. n - p : b[i] = s[p + i]
  <2>1. p + 1 \in Int /\ n \in Int /\ \A i \in p + 1 .. n : s[i] \in K
    BY <1>2, <1>3
  <2>2. /\ b \in Seq(K)
        /\ Len(b) = IF p + 1 <= n THEN n - (p + 1) + 1 ELSE 0
        /\ \A i \in 1 .. n - (p + 1) + 1 : b[i] = s[p + 1 + i - 1]
    BY <2>1, SubSeqProperties
  <2> HIDE DEF b
  <2>3. n - (p + 1) + 1 = n - p /\ (~(p + 1 <= n) => n - p = 0)
    BY <1>2
  <2>4. \A i \in 1 .. n - p : p + 1 + i - 1 = p + i
    BY <1>2
  <2> QED
    BY <2>2, <2>3, <2>4
<1> HIDE DEF a, b
<1>6. /\ r \in Seq(K)
      /\ Len(r) = Len(a) + Len(b)
      /\ \A i \in 1 .. Len(a) + Len(b) : r[i] = IF i <= Len(a) THEN a[i] ELSE b[i - Len(a)]
  <2>1. r = a \o b
    BY <1>1 DEF a, b, WithoutAt
  <2>2. /\ a \o b \in Seq(K)
        /\ Len(a \o b) = Len(a) + Len(b)
        /\ \A i \in 1 .. Len(a) + Len(b) :
             (a \o b)[i] = IF i <= Len(a) THEN a[i] ELSE b[i - Len(a)]
    BY <1>4, <1>5, ConcatProperties
  <2> QED
    BY <2>1, <2>2
<1>7. Len(a) + Len(b) = n - 1
  BY <1>2, <1>4, <1>5
<1>8. ASSUME NEW i \in 1 .. n - 1 PROVE r[i] = IF i < p THEN s[i] ELSE s[i + 1]
  <2>1. CASE i < p
    <3>1. i \in 1 .. p - 1 /\ i <= p - 1
      BY <1>2, <2>1
    <3> QED
      BY <1>4, <1>6, <1>7, <2>1, <3>1
  <2>2. CASE ~(i < p)
    <3>1. i - (p - 1) \in 1 .. n - p /\ ~(i <= p - 1) /\ p + (i - (p - 1)) = i + 1
      BY <1>2, <2>2
    <3>2. r[i] = b[i - (p - 1)]
      BY <1>4, <1>6, <1>7, <3>1
    <3>3. b[i - (p - 1)] = s[p + (i - (p - 1))]
      BY <1>5, <3>1
    <3> QED
      BY <2>2, <3>1, <3>2, <3>3
  <2> QED
    BY <2>1, <2>2
<1> QED
  BY <1>1, <1>6, <1>7, <1>8

\* Removing a key from a list without duplicates leaves the others in their order.
LEMMA RemoveFirstKeeps ==
  ASSUME NEW K, NEW s \in Seq(K), IsInjective(s), NEW k, NEW r, r = RemoveFirst(s, k)
  PROVE  /\ r \in Seq(K)
         /\ IsInjective(r)
         /\ ToSet(r) = ToSet(s) \ {k}
         /\ \A i, j \in DOMAIN r : \E a, b \in DOMAIN s :
              r[i] = s[a] /\ r[j] = s[b] /\ (i < j <=> a < b)
<1>0. s \in [1 .. Len(s) -> K] /\ Len(s) \in Nat /\ DOMAIN s = 1 .. Len(s)
  BY LenProperties
<1>1. CASE k \notin ToSet(s)
  BY <1>1, RemoveFirstAbsent
<1>2. CASE k \in ToSet(s)
  <2>1. PICK p \in 1 .. Len(s) : s[p] = k
    BY <1>0, <1>2 DEF ToSet
  <2>2. /\ r \in Seq(K)
        /\ Len(r) = Len(s) - 1
        /\ \A i \in 1 .. Len(r) : r[i] = IF i < p THEN s[i] ELSE s[i + 1]
    <3>1. r = WithoutAt(s, p)
      BY <2>1, RemoveFirstAt
    <3> QED
      BY <3>1, WithoutPlace
  <2>3. DOMAIN r = 1 .. Len(s) - 1
    BY <2>2, LenProperties
  <2> DEFINE at(i) == IF i < p THEN i ELSE i + 1
  <2>4. \A i \in DOMAIN r : at(i) \in DOMAIN s /\ at(i) # p /\ r[i] = s[at(i)]
    BY <1>0, <2>2, <2>3
  <2>5. \A i, j \in DOMAIN r : (i < j <=> at(i) < at(j)) /\ (at(i) = at(j) => i = j)
    BY <2>3
  <2>6. \A a \in DOMAIN s : a # p => \E i \in DOMAIN r : at(i) = a
    <3> SUFFICES ASSUME NEW a \in DOMAIN s, a # p
                 PROVE  \E i \in DOMAIN r : at(i) = a
      OBVIOUS
    <3> DEFINE i == IF a < p THEN a ELSE a - 1
    <3>1. i \in DOMAIN r /\ at(i) = a
      BY <1>0, <2>3
    <3> QED
      BY <3>1
  <2> HIDE DEF at
  <2>7. ToSet(r) = ToSet(s) \ {k}
    BY <2>1, <2>4, <2>6 DEF ToSet, IsInjective
  <2>8. IsInjective(r)
    BY <2>4, <2>5 DEF IsInjective
  <2>9. \A i, j \in DOMAIN r : \E a, b \in DOMAIN s :
              r[i] = s[a] /\ r[j] = s[b] /\ (i < j <=> a < b)
    BY <2>4, <2>5
  <2> QED
    BY <2>2, <2>7, <2>8, <2>9
<1> QED
  BY <1>1, <1>2

\* A key in front of a list that does not have it.
LEMMA ConsKeeps ==
  ASSUME NEW K, NEW s \in Seq(K), IsInjective(s), NEW k \in K, k \notin ToSet(s),
         NEW r, r = Cons(k, s)
  PROVE  /\ r \in Seq(K)
         /\ IsInjective(r)
         /\ ToSet(r) = ToSet(s) \cup {k}
         /\ DOMAIN r = 1 .. Len(s) + 1
         /\ r[1] = k
         /\ \A i \in 2 .. Len(s) + 1 : i - 1 \in DOMAIN s /\ r[i] = s[i - 1]
<1>0. s \in [1 .. Len(s) -> K] /\ Len(s) \in Nat /\ DOMAIN s = 1 .. Len(s)
  BY LenProperties
<1>1. <<k>> \in Seq(K) /\ Len(<<k>>) = 1 /\ <<k>>[1] = k
  OBVIOUS
<1>2. /\ r \in Seq(K)
      /\ Len(r) = Len(s) + 1
      /\ \A i \in 1 .. Len(s) + 1 : r[i] = IF i <= 1 THEN <<k>>[i] ELSE s[i - 1]
  <2>1. r = <<k>> \o s
    BY DEF Cons
  <2>2. /\ r \in Seq(K)
        /\ Len(r) = 1 + Len(s)
        /\ \A i \in 1 .. 1 + Len(s) : r[i] = IF i <= 1 THEN <<k>>[i] ELSE s[i - 1]
    BY <2>1, <1>1, ConcatProperties
  <2> QED
    BY <2>2, <1>0
<1>3. DOMAIN r = 1 .. Len(s) + 1
  BY <1>2, LenProperties
<1>4. r[1] = k
  BY <1>0, <1>1, <1>2
<1>5. \A i \in 2 .. Len(s) + 1 : i - 1 \in DOMAIN s /\ r[i] = s[i - 1]
  BY <1>0, <1>2
<1>6. ToSet(r) = ToSet(s) \cup {k}
  <2>1. \A a \in DOMAIN s : a + 1 \in DOMAIN r /\ r[a + 1] = s[a]
    <3> TAKE a \in DOMAIN s
    <3>1. a + 1 \in 2 .. Len(s) + 1 /\ a + 1 - 1 = a
      BY <1>0
    <3> QED
      BY <3>1, <1>3, <1>5
  <2>2. 1 \in DOMAIN r
    BY <1>0, <1>3
  <2>3. \A i \in DOMAIN r : i = 1 \/ i \in 2 .. Len(s) + 1
    BY <1>0, <1>3
  <2> QED
    BY <2>1, <2>2, <2>3, <1>4, <1>5 DEF ToSet
<1>7. IsInjective(r)
  <2> SUFFICES ASSUME NEW i \in DOMAIN r, NEW j \in DOMAIN r, r[i] = r[j] PROVE i = j
    BY DEF IsInjective
  <2>1. \A n \in DOMAIN r : n = 1 \/ n \in 2 .. Len(s) + 1
    BY <1>0, <1>3
  <2>2. \A n \in 2 .. Len(s) + 1 : r[n] \in ToSet(s)
    BY <1>5 DEF ToSet
  <2>3. CASE i = 1 \/ j = 1
    BY <2>1, <2>2, <2>3, <1>4
  <2>4. CASE i # 1 /\ j # 1
    <3>1. i \in 2 .. Len(s) + 1 /\ j \in 2 .. Len(s) + 1
      BY <2>1, <2>4
    <3>2. s[i - 1] = s[j - 1] /\ i - 1 \in DOMAIN s /\ j - 1 \in DOMAIN s
      BY <3>1, <1>5
    <3>3. i - 1 = j - 1
      BY <3>2 DEF IsInjective
    <3> QED
      BY <3>1, <3>3, <1>0
  <2> QED
    BY <2>3, <2>4
<1> QED
  BY <1>2, <1>3, <1>4, <1>5, <1>6, <1>7

\* The first places of a list.
LEMMA PrefixKeeps ==
  ASSUME NEW K, NEW s \in Seq(K), IsInjective(s), NEW n \in 0 .. Len(s)
  PROVE  /\ SubSeq(s, 1, n) \in Seq(K)
         /\ IsInjective(SubSeq(s, 1, n))
         /\ Len(SubSeq(s, 1, n)) = n
         /\ DOMAIN SubSeq(s, 1, n) = 1 .. n
         /\ \A i \in 1 .. n : i \in DOMAIN s /\ SubSeq(s, 1, n)[i] = s[i]
         /\ ToSet(SubSeq(s, 1, n)) = ToSet(s) \ {s[i] : i \in n + 1 .. Len(s)}
<1> DEFINE r == SubSeq(s, 1, n)
<1>0. s \in [1 .. Len(s) -> K] /\ Len(s) \in Nat /\ DOMAIN s = 1 .. Len(s)
  BY LenProperties
<1>1. /\ r \in Seq(K)
      /\ Len(r) = IF 1 <= n THEN n - 1 + 1 ELSE 0
      /\ \A i \in 1 .. n - 1 + 1 : r[i] = s[1 + i - 1]
  <2>1. 1 \in Int /\ n \in Int /\ \A i \in 1 .. n : s[i] \in K
    BY <1>0
  <2> QED
    BY <2>1, SubSeqProperties
<1> HIDE DEF r
<1>2. Len(r) = n /\ \A i \in 1 .. n : i \in DOMAIN s /\ r[i] = s[i]
  BY <1>0, <1>1
<1>3. DOMAIN r = 1 .. n
  BY <1>1, <1>2, LenProperties
<1>4. IsInjective(r)
  BY <1>2, <1>3 DEF IsInjective
<1>5. ToSet(r) = ToSet(s) \ {s[i] : i \in n + 1 .. Len(s)}
  <2>1. \A i \in DOMAIN s : i \in 1 .. n <=> ~(i \in n + 1 .. Len(s))
    BY <1>0
  <2>2. \A i \in n + 1 .. Len(s) : i \in DOMAIN s
    BY <1>0
  <2>3. \A i \in 1 .. n : \A j \in n + 1 .. Len(s) : s[i] # s[j]
    BY <2>1, <2>2, <1>2 DEF IsInjective
  <2>4. ToSet(r) = {s[i] : i \in 1 .. n}
    BY <1>2, <1>3 DEF ToSet
  <2>5. ToSet(s) = {s[i] : i \in 1 .. n} \cup {s[i] : i \in n + 1 .. Len(s)}
    BY <2>1, <2>2, <1>2 DEF ToSet
  <2> QED
    BY <2>3, <2>4, <2>5
<1> QED
  BY <1>1, <1>2, <1>3, <1>4, <1>5 DEF r

\* A list without duplicates has as many keys as places.
LEMMA CountInjective ==
  ASSUME NEW K, NEW s \in Seq(K), IsInjective(s)
  PROVE  IsFiniteSet(ToSet(s)) /\ Cardinality(ToSet(s)) = Len(s)
<1>0. s \in [1 .. Len(s) -> K] /\ Len(s) \in Nat /\ DOMAIN s = 1 .. Len(s)
  BY LenProperties
<1>1. s \in Bijection(1 .. Len(s), ToSet(s))
  <2>1. s \in [1 .. Len(s) -> ToSet(s)]
    BY <1>0 DEF ToSet
  <2>2. s \in Injection(1 .. Len(s), ToSet(s))
    BY <2>1 DEF Injection
  <2>3. s \in Surjection(1 .. Len(s), ToSet(s))
    BY <1>0, <2>1 DEF Surjection, ToSet
  <2> QED
    BY <2>2, <2>3 DEF Bijection
<1>2. ExistsBijection(1 .. Len(s), ToSet(s))
  BY <1>1 DEF ExistsBijection
<1> QED
  BY <1>0, <1>2, FS_CountingElements, FS_NatBijection

-----------------------------------------------------------------------------
(* Listings of a finite set *)

\* The places of a list have a last one, with which a fold over the list begins.
LEMMA LastPlace ==
  ASSUME NEW n \in Nat, NEW U \in SUBSET (1 .. n), U # {}
  PROVE  Max(U) \in U
<1> DEFINE P == {W \in SUBSET U : W = {} \/ \E m \in W : \A y \in W : m >= y}
<1>1. IsFiniteSet(U)
  <2>1. IsFiniteSet(1 .. n)
    BY FS_Interval
  <2> QED
    BY <2>1, FS_Subset
<1>2. {} \in P
  OBVIOUS
<1>3. ASSUME NEW W \in SUBSET U, NEW c \in W, c = Choice(U)[W], W \ {c} \in P PROVE W \in P
  <2>1. c \in Int /\ \A y \in W : y \in Int
    OBVIOUS
  <2>2. CASE W \ {c} = {}
    BY <2>1, <2>2
  <2>3. CASE W \ {c} # {}
    <3>1. PICK m \in W \ {c} : \A y \in W \ {c} : m >= y
      BY <1>3, <2>3
    <3>2. CASE m >= c
      BY <2>1, <3>1, <3>2
    <3>3. CASE ~(m >= c)
      <4>1. \A y \in W : c >= y
        BY <2>1, <3>1, <3>3
      <4> QED
        BY <4>1
    <3> QED
      BY <3>2, <3>3
  <2> QED
    BY <2>2, <2>3
<1>4. U \in P
  <2> HIDE DEF P
  <2> QED
    BY <1>1, <1>2, <1>3, ChoiceInduction
<1> QED
  BY <1>4 DEF Max

\* Induction in the order of a fold over a list.
LEMMA PlaceInduction ==
  ASSUME NEW S, IsFiniteSet(S), \A U \in SUBSET S : U # {} => Max(U) \in U,
         NEW P, {} \in P,
         ASSUME NEW U \in SUBSET S, NEW m \in U, m = Max(U), U \ {m} \in P
         PROVE  U \in P
  PROVE  S \in P
<1> DEFINE Bad == {T \in SUBSET S : T \notin P}
<1>1. SUFFICES ASSUME Bad # {} PROVE FALSE
  OBVIOUS
<1>2. PICK T \in Bad : \A U \in Bad : U \subseteq T => U = T
  <2>1. Bad \subseteq SUBSET S
    OBVIOUS
  <2> HIDE DEF Bad
  <2> QED
    BY <1>1, <2>1, SmallestSet
<1> DEFINE m == Max(T)
<1>3. m \in T
  BY <1>2
<1>4. T \ {m} \in SUBSET S /\ T \ {m} # T
  BY <1>2, <1>3
<1>5. T \ {m} \in P
  BY <1>2, <1>4
<1> QED
  BY <1>2, <1>3, <1>5

\* A list of distinct members of a set, as long as the set, has all of them.
LEMMA ListingIsAll ==
  ASSUME NEW S, IsFiniteSet(S), NEW s \in [1 .. Cardinality(S) -> S], IsInjective(s)
  PROVE  s \in Seq(S) /\ Len(s) = Cardinality(S) /\ ToSet(s) = S
<1>1. Cardinality(S) \in Nat
  BY FS_CardinalityType
<1>2. s \in Seq(S) /\ Len(s) = Cardinality(S)
  BY <1>1
<1>3. ToSet(s) \subseteq S
  BY <1>2 DEF ToSet
<1>4. Cardinality(ToSet(s)) = Cardinality(S)
  BY <1>2, CountInjective
<1> QED
  BY <1>2, <1>3, <1>4, FS_Subset

\* A finite set has such a list, which SetToSeq chooses.
LEMMA ListingExists ==
  ASSUME NEW S, IsFiniteSet(S)
  PROVE  SetToSeq(S) \in [1 .. Cardinality(S) -> S] /\ IsInjective(SetToSeq(S))
<1>1. PICK n \in Nat : ExistsBijection(1 .. n, S)
  BY FS_NatBijection
<1>2. n = Cardinality(S)
  BY <1>1, FS_CountingElements
<1>3. PICK f : f \in Bijection(1 .. n, S)
  BY <1>1 DEF ExistsBijection
<1>4. f \in [1 .. Cardinality(S) -> S] /\ IsInjective(f)
  BY <1>2, <1>3 DEF Bijection, Injection, IsInjective
<1> QED
  BY <1>4 DEF SetToSeq

-----------------------------------------------------------------------------
(* Lists of anything, and lists made of lists *)

IsList(s) == s \in Seq(Range(s))

LEMMA ListOf ==
  ASSUME NEW S, NEW s \in Seq(S)
  PROVE  IsList(s) /\ Range(s) \subseteq S
<1>1. Len(s) \in Nat /\ s \in [1 .. Len(s) -> S] /\ DOMAIN s = 1 .. Len(s)
  BY LenProperties
<1>2. s \in [1 .. Len(s) -> Range(s)]
  BY <1>1 DEF Range
<1>3. s \in Seq(Range(s))
  BY <1>1, <1>2
<1> QED
  BY <1>1, <1>3 DEF IsList, Range

LEMMA ListOfLength ==
  ASSUME NEW s, NEW n \in Nat, s = [i \in 1 .. n |-> s[i]]
  PROVE  IsList(s) /\ Len(s) = n
<1>1. s \in [1 .. n -> Range(s)]
  BY DEF Range
<1>2. s \in Seq(Range(s)) /\ Len(s) = n
  BY <1>1
<1> QED
  BY <1>2 DEF IsList

LEMMA CountUp ==
  ASSUME NEW n \in Nat, NEW P, 0 \in P, \A m \in 0 .. n - 1 : m \in P => m + 1 \in P
  PROVE  n \in P
<1> DEFINE S == 1 .. n
           Bad == {1 .. m : m \in {k \in 0 .. n : k \notin P}}
<1>1. SUFFICES ASSUME n \notin P PROVE FALSE
  OBVIOUS
<1>2. PICK T \in Bad : \A U \in Bad : U \subseteq T => U = T
  <2>1. Bad \subseteq SUBSET S
    OBVIOUS
  <2>2. n \in {k \in 0 .. n : k \notin P}
    BY <1>1
  <2>3. Bad # {}
    BY <2>2, Zenon
  <2>4. IsFiniteSet(S)
    BY FS_Interval
  <2> HIDE DEF Bad, S
  <2> QED
    BY <2>1, <2>3, <2>4, SmallestSet
<1>3. PICK m \in 0 .. n : T = 1 .. m /\ m \notin P
  BY <1>2
<1>4. m # 0 /\ m - 1 \in 0 .. n - 1 /\ (m - 1) + 1 = m
  BY <1>3
<1>5. m - 1 \in P
  <2>1. 1 .. (m - 1) \subseteq T /\ m \in T /\ m \notin 1 .. (m - 1)
    BY <1>3, <1>4
  <2>2. 1 .. (m - 1) \notin Bad
    BY <1>2, <2>1
  <2> QED
    BY <1>4, <2>2
<1> QED
  BY <1>3, <1>4, <1>5

\* f has, for each place, what the lists up to that place make.
IsFlat(f, ss, V) ==
    /\ f \in [1 .. Len(ss) -> Seq(V)]
    /\ \A i \in 1 .. Len(ss) : f[i] = IF i = 1 THEN ss[i] ELSE f[i - 1] \o ss[i]
    /\ FlattenSeq(ss) = f[Len(ss)]

LEMMA FlattenValue ==
  ASSUME NEW V, NEW ss \in Seq(Seq(V)), Len(ss) # 0
  PROVE  \E f : IsFlat(f, ss, V)
<1> DEFINE n == Len(ss)
           Good(m, f) == /\ f \in [1 .. m -> Seq(V)]
                         /\ \A i \in 1 .. m : f[i] = IF i = 1 THEN ss[i] ELSE f[i - 1] \o ss[i]
           P == {m \in 0 .. n : \E f : Good(m, f)}
<1>1. n \in Nat /\ n # 0 /\ \A i \in 1 .. n : ss[i] \in Seq(V)
  BY LenProperties, ElementOfSeq
<1> HIDE DEF n
<1>2. 0 \in P
  <2>1. Good(0, [i \in 1 .. 0 |-> ss[i]])
    OBVIOUS
  <2>2. 0 \in 0 .. n
    BY <1>1
  <2> HIDE DEF Good
  <2> QED
    BY <2>1, <2>2, Zenon
<1>3. ASSUME NEW m \in 0 .. n - 1, m \in P PROVE m + 1 \in P
  <2>1. PICK f : Good(m, f)
    BY <1>3
  <2> DEFINE new == IF m = 0 THEN ss[1] ELSE f[m] \o ss[m + 1]
             g == [i \in 1 .. m + 1 |-> IF i = m + 1 THEN new ELSE f[i]]
  <2>2. m + 1 \in 1 .. n /\ m \in Nat
    BY <1>1
  <2>3. new \in Seq(V)
    <3>1. CASE m = 0
      BY <1>1, <2>2, <3>1
    <3>2. CASE m # 0
      <4>1. f[m] \in Seq(V) /\ ss[m + 1] \in Seq(V)
        BY <1>1, <2>1, <2>2, <3>2
      <4> QED
        BY <3>2, <4>1, ConcatProperties
    <3> QED
      BY <3>1, <3>2
  <2>4. \A i \in 1 .. m : f[i] \in Seq(V) /\ i # m + 1
    BY <2>1, <2>2
  <2>5. g \in [1 .. m + 1 -> Seq(V)]
    <3> HIDE DEF new
    <3> QED
      BY <2>2, <2>3, <2>4
  <2>6. ASSUME NEW i \in 1 .. m + 1
        PROVE  g[i] = IF i = 1 THEN ss[i] ELSE g[i - 1] \o ss[i]
    <3>1. CASE i = m + 1
      BY <2>2, <3>1
    <3>2. CASE i # m + 1
      <4>1. i \in 1 .. m /\ (i # 1 => i - 1 \in 1 .. m)
        BY <2>2, <3>2
      <4>2. g[i] = f[i] /\ (i # 1 => g[i - 1] = f[i - 1])
        BY <2>2, <4>1
      <4> HIDE DEF g, new
      <4> QED
        BY <2>1, <4>1, <4>2
    <3> QED
      BY <3>1, <3>2
  <2>7. Good(m + 1, g)
    BY <2>5, <2>6
  <2>8. m + 1 \in 0 .. n
    BY <2>2, <1>1
  <2> HIDE DEF Good, g
  <2> QED
    BY <2>7, <2>8, Zenon
<1>4. n \in P
  <2> HIDE DEF P
  <2> QED
    BY <1>1, <1>2, <1>3, CountUp
<1>5. PICK f : Good(n, f)
  BY <1>4
<1> DEFINE h == CHOOSE flatten : flatten = [i \in 1 .. Len(ss) |->
                  IF i = 1 THEN ss[i] ELSE flatten[i - 1] \o ss[i]]
<1>6. h = [i \in 1 .. Len(ss) |-> IF i = 1 THEN ss[i] ELSE h[i - 1] \o ss[i]]
  <2>1. f = [i \in 1 .. Len(ss) |-> IF i = 1 THEN ss[i] ELSE f[i - 1] \o ss[i]]
    BY <1>5 DEF n
  <2> QED
    BY <2>1
<1>7. FlattenSeq(ss) = h[Len(ss)]
  BY DEF FlattenSeq
<1> HIDE DEF h
<1> DEFINE Q == {m \in 1 .. n : h[m] = f[m]} \cup {0}
<1>8. n \in Q
  <2>1. ASSUME NEW m \in 0 .. n - 1, m \in Q PROVE m + 1 \in Q
    <3>1. m + 1 \in 1 .. n /\ (m + 1) - 1 = m /\ (m + 1 = 1 <=> m = 0)
      BY <1>1
    <3>2. h[m + 1] = IF m = 0 THEN ss[m + 1] ELSE h[m] \o ss[m + 1]
      BY <1>6, <3>1 DEF n
    <3>3. f[m + 1] = IF m = 0 THEN ss[m + 1] ELSE f[m] \o ss[m + 1]
      BY <1>5, <3>1
    <3>4. m # 0 => h[m] = f[m]
      BY <2>1
    <3> QED
      BY <3>1, <3>2, <3>3, <3>4
  <2>2. 0 \in Q
    OBVIOUS
  <2> HIDE DEF Q
  <2> QED
    BY <1>1, <2>1, <2>2, CountUp
<1>9. FlattenSeq(ss) = f[n]
  BY <1>1, <1>7, <1>8 DEF n
<1> QED
  BY <1>5, <1>9 DEF IsFlat, n

LEMMA FlattenIsList ==
  ASSUME NEW V, NEW ss \in Seq(Seq(V))
  PROVE  FlattenSeq(ss) \in Seq(V)
<1>1. CASE Len(ss) = 0
  <2>1. ss = <<>> /\ FlattenSeq(ss) = ss
    BY <1>1, EmptySeq DEF FlattenSeq
  <2>2. <<>> \in Seq(V)
    BY EmptySeq
  <2>3. FlattenSeq(ss) = <<>>
    BY <2>1
  <2> QED
    BY <2>2, <2>3, Zenon
<1>2. CASE Len(ss) # 0
  <2>1. PICK f : IsFlat(f, ss, V)
    BY <1>2, FlattenValue
  <2>2. Len(ss) \in 1 .. Len(ss)
    BY <1>2, LenProperties
  <2> QED
    BY <2>1, <2>2 DEF IsFlat
<1> QED
  BY <1>1, <1>2

\* s has, place by place and each once, what F has of its arguments.
Enumerates(s, F) ==
    \E q \in [1 .. Len(s) -> DOMAIN F] :
      /\ \A i, j \in 1 .. Len(s) : q[i] = q[j] => i = j
      /\ \A x \in DOMAIN F : \E i \in 1 .. Len(s) : q[i] = x
      /\ \A i \in 1 .. Len(s) : s[i] = F[q[i]]

LEMMA EnumerateNothing == ASSUME NEW F, DOMAIN F = {} PROVE Enumerates(<<>>, F)
<1>1. Len(<<>>) = 0 /\ 1 .. 0 = {}
  OBVIOUS
<1> DEFINE q == [i \in {} |-> i]
<1>2. q \in [1 .. Len(<<>>) -> DOMAIN F]
  BY <1>1
<1> QED
  BY <1>1, <1>2 DEF Enumerates

LEMMA EnumerateOne ==
  ASSUME NEW F, NEW x, DOMAIN F = {x}, NEW v, v = F[x]
  PROVE  Enumerates(<<v>>, F)
<1>1. Len(<<v>>) = 1 /\ 1 .. 1 = {1} /\ <<v>>[1] = v
  OBVIOUS
<1> DEFINE q == [i \in {1} |-> x]
<1>2. q \in [1 .. Len(<<v>>) -> DOMAIN F]
  BY <1>1
<1> QED
  BY <1>1, <1>2 DEF Enumerates

\* Two lists that enumerate two parts.
LEMMA EnumerateBoth ==
  ASSUME NEW V, NEW s \in Seq(V), NEW t \in Seq(V), NEW F, NEW A, NEW B,
         DOMAIN F = A \cup B, A \cap B = {},
         Enumerates(s, [x \in A |-> F[x]]), Enumerates(t, [x \in B |-> F[x]])
  PROVE  Enumerates(s \o t, F)
<1> DEFINE a == Len(s)
           b == Len(t)
           r == s \o t
<1>1. /\ a \in Nat /\ b \in Nat /\ Len(r) = a + b
      /\ \A i \in 1 .. a : r[i] = s[i]
      /\ \A i \in a + 1 .. a + b : i - a \in 1 .. b /\ r[i] = t[i - a]
  <2>1. /\ a \in Nat /\ b \in Nat /\ Len(r) = a + b
        /\ \A i \in 1 .. Len(r) : r[i] = IF i <= a THEN s[i] ELSE t[i - a]
    BY ConcatProperties, LenProperties
  <2> HIDE DEF a, b, r
  <2> QED
    BY <2>1
<1>2. PICK p \in [1 .. a -> A] :
        /\ \A i, j \in 1 .. a : p[i] = p[j] => i = j
        /\ \A x \in A : \E i \in 1 .. a : p[i] = x
        /\ \A i \in 1 .. a : s[i] = F[p[i]]
  BY DEF Enumerates
<1>3. PICK q \in [1 .. b -> B] :
        /\ \A i, j \in 1 .. b : q[i] = q[j] => i = j
        /\ \A x \in B : \E i \in 1 .. b : q[i] = x
        /\ \A i \in 1 .. b : t[i] = F[q[i]]
  BY DEF Enumerates
<1> HIDE DEF a, b, r
<1> DEFINE h == [i \in 1 .. a + b |-> IF i <= a THEN p[i] ELSE q[i - a]]
<1>4. /\ \A i \in 1 .. a : i \in 1 .. a + b /\ h[i] = p[i] /\ p[i] \in A
      /\ \A i \in a + 1 .. a + b :
           i - a \in 1 .. b /\ i \in 1 .. a + b /\ h[i] = q[i - a] /\ q[i - a] \in B
      /\ \A i \in 1 .. a + b : i \in 1 .. a \/ i \in a + 1 .. a + b
  BY <1>1, <1>2, <1>3
<1>5. h \in [1 .. a + b -> DOMAIN F]
  BY <1>4
<1>6. ASSUME NEW i \in 1 .. a + b, NEW j \in 1 .. a + b, h[i] = h[j] PROVE i = j
  <2>1. CASE i \in 1 .. a /\ j \in 1 .. a
    BY <1>2, <1>4, <1>6, <2>1
  <2>2. CASE i \in a + 1 .. a + b /\ j \in a + 1 .. a + b
    <3> DEFINE k == i - a
               l == j - a
    <3>2. k \in 1 .. b /\ l \in 1 .. b /\ q[k] = q[l]
      BY <1>4, <1>6, <2>2
    <3> HIDE DEF k, l
    <3>3. k = l
      BY <1>3, <3>2
    <3>1. i - a = j - a
      BY <3>3 DEF k, l
    <3> QED
      BY <1>1, <3>1
  <2>3. CASE i \in 1 .. a /\ j \in a + 1 .. a + b
    BY <1>4, <1>6, <2>3
  <2>4. CASE i \in a + 1 .. a + b /\ j \in 1 .. a
    BY <1>4, <1>6, <2>4
  <2> QED
    BY <1>4, <2>1, <2>2, <2>3, <2>4
<1>7. ASSUME NEW x \in DOMAIN F PROVE \E i \in 1 .. a + b : h[i] = x
  <2>1. CASE x \in A
    BY <1>2, <1>4, <2>1
  <2>2. CASE x \in B
    <3>1. PICK i \in 1 .. b : q[i] = x
      BY <1>3, <2>2
    <3>2. i + a \in a + 1 .. a + b /\ (i + a) - a = i
      BY <1>1
    <3> QED
      BY <1>4, <3>1, <3>2
  <2> QED
    BY <2>1, <2>2
<1>8. ASSUME NEW i \in 1 .. a + b PROVE r[i] = F[h[i]]
  <2>1. CASE i \in 1 .. a
    BY <1>1, <1>2, <1>4, <2>1
  <2>2. CASE i \in a + 1 .. a + b
    BY <1>1, <1>3, <1>4, <2>2
  <2> QED
    BY <1>4, <2>1, <2>2
<1> HIDE DEF h
<1>9. Enumerates(r, F)
  <2>1. /\ h \in [1 .. Len(r) -> DOMAIN F]
        /\ \A i, j \in 1 .. Len(r) : h[i] = h[j] => i = j
        /\ \A x \in DOMAIN F : \E i \in 1 .. Len(r) : h[i] = x
        /\ \A i \in 1 .. Len(r) : r[i] = F[h[i]]
    BY <1>1, <1>5, <1>6, <1>7, <1>8
  <2> QED
    BY <2>1 DEF Enumerates
<1> QED
  BY <1>9 DEF r

\* The same with other values, and other arguments h[x] for x.
LEMMA EnumerateAgain ==
  ASSUME NEW s, NEW F, Enumerates(s, F), NEW t, Len(t) = Len(s), NEW G,
         NEW h \in [DOMAIN F -> DOMAIN G], \A x, y \in DOMAIN F : h[x] = h[y] => x = y,
         \A z \in DOMAIN G : \E x \in DOMAIN F : h[x] = z,
         \A i \in 1 .. Len(s) : \A x \in DOMAIN F : s[i] = F[x] => t[i] = G[h[x]]
  PROVE  Enumerates(t, G)
<1>1. PICK q \in [1 .. Len(s) -> DOMAIN F] :
        /\ \A i, j \in 1 .. Len(s) : q[i] = q[j] => i = j
        /\ \A x \in DOMAIN F : \E i \in 1 .. Len(s) : q[i] = x
        /\ \A i \in 1 .. Len(s) : s[i] = F[q[i]]
  BY DEF Enumerates
<1> DEFINE p == [i \in 1 .. Len(s) |-> h[q[i]]]
<1>2. p \in [1 .. Len(t) -> DOMAIN G]
  BY <1>1
<1>3. \A i, j \in 1 .. Len(t) : p[i] = p[j] => i = j
  BY <1>1
<1>4. \A z \in DOMAIN G : \E i \in 1 .. Len(t) : p[i] = z
  BY <1>1
<1>5. \A i \in 1 .. Len(t) : t[i] = G[p[i]]
  BY <1>1
<1> HIDE DEF p
<1> QED
  BY <1>2, <1>3, <1>4, <1>5 DEF Enumerates

\* A list made of one list for each place: the list at i enumerates what i owns.
LEMMA FlattenEnumerates ==
  ASSUME NEW V, NEW ss \in Seq(Seq(V)), NEW F, NEW owner \in [DOMAIN F -> 1 .. Len(ss)],
         \A i \in 1 .. Len(ss) :
           Enumerates(ss[i], [x \in {y \in DOMAIN F : owner[y] = i} |-> F[x]])
  PROVE  Enumerates(FlattenSeq(ss), F)
<1>1. CASE Len(ss) = 0
  <2>1. ss = <<>> /\ FlattenSeq(ss) = ss
    BY <1>1, EmptySeq DEF FlattenSeq
  <2>2. DOMAIN F = {}
    <3>1. \A y \in DOMAIN F : owner[y] \in 1 .. Len(ss)
      BY Zenon
    <3>2. 1 .. Len(ss) = {}
      BY <1>1
    <3> QED
      BY <3>1, <3>2, Zenon
  <2> QED
    BY <2>1, <2>2, EnumerateNothing
<1>2. CASE Len(ss) # 0
  <2> DEFINE n == Len(ss)
             Up(m) == {y \in DOMAIN F : owner[y] <= m}
             Own(m) == {y \in DOMAIN F : owner[y] = m}
             Part(m) == [x \in Up(m) |-> F[x]]
  <2>1. PICK f : IsFlat(f, ss, V)
    BY <1>2, FlattenValue
  <2>2. n \in Nat /\ n # 0 /\ owner \in [DOMAIN F -> 1 .. n]
    BY <1>2, LenProperties
  <2>3. \A i \in 1 .. n : ss[i] \in Seq(V) /\ f[i] \in Seq(V)
    BY <2>1, ElementOfSeq DEF IsFlat
  <2>4. \A i \in 1 .. n : f[i] = IF i = 1 THEN ss[i] ELSE f[i - 1] \o ss[i]
    BY <2>1 DEF IsFlat
  <2>5. FlattenSeq(ss) = f[n]
    BY <2>1 DEF IsFlat
  <2>6. \A i \in 1 .. n : Enumerates(ss[i], [x \in Own(i) |-> F[x]])
    OBVIOUS
  <2> HIDE DEF n
  <2> DEFINE P == {m \in 1 .. n : Enumerates(f[m], Part(m))} \cup {0}
  <2>7. ASSUME NEW m \in 0 .. n - 1, m \in P PROVE m + 1 \in P
    <3>1. m + 1 \in 1 .. n /\ m \in Nat
      BY <2>2
    <3>2. Enumerates(f[m + 1], Part(m + 1))
      <4>1. CASE m = 0
        <5>1. f[m + 1] = ss[m + 1]
          BY <2>4, <3>1, <4>1
        <5>2. Up(m + 1) = Own(m + 1)
          BY <2>2, <4>1
        <5> QED
          BY <2>6, <3>1, <5>1, <5>2
      <4>2. CASE m # 0
        <5>1. m \in 1 .. n /\ (m + 1) - 1 = m /\ m + 1 # 1
          BY <2>2, <3>1, <4>2
        <5>2. f[m + 1] = f[m] \o ss[m + 1]
          BY <2>4, <3>1, <5>1
        <5>3. Enumerates(f[m], Part(m))
          BY <2>7, <4>2
        <5>4. Up(m + 1) = Up(m) \cup Own(m + 1) /\ Up(m) \cap Own(m + 1) = {}
          BY <2>2, <3>1
        <5>5. /\ DOMAIN Part(m + 1) = Up(m + 1)
              /\ [x \in Up(m) |-> Part(m + 1)[x]] = Part(m)
              /\ [x \in Own(m + 1) |-> Part(m + 1)[x]] = [x \in Own(m + 1) |-> F[x]]
          BY <5>4
        <5>6. f[m] \in Seq(V) /\ ss[m + 1] \in Seq(V)
          BY <2>3, <3>1, <5>1
        <5>7. Enumerates(ss[m + 1], [x \in Own(m + 1) |-> F[x]])
          BY <2>6, <3>1
        <5> DEFINE G == Part(m + 1)
                   A == Up(m)
                   B == Own(m + 1)
                   s == f[m]
                   t == ss[m + 1]
        <5>8. /\ DOMAIN G = A \cup B /\ A \cap B = {} /\ s \in Seq(V) /\ t \in Seq(V)
              /\ Enumerates(s, [x \in A |-> G[x]]) /\ Enumerates(t, [x \in B |-> G[x]])
          BY <5>3, <5>4, <5>5, <5>6, <5>7
        <5>9. Enumerates(s \o t, G)
          <6> HIDE DEF G, A, B, s, t
          <6> QED
            BY <5>8, EnumerateBoth
        <5> QED
          BY <5>2, <5>9
      <4> QED
        BY <4>1, <4>2
    <3> QED
      BY <3>1, <3>2
  <2>8. n \in P
    <3>1. 0 \in P
      OBVIOUS
    <3> HIDE DEF P
    <3> QED
      BY <2>2, <2>7, <3>1, CountUp
  <2>9. Up(n) = DOMAIN F
    <3>1. \A y \in DOMAIN F : owner[y] \in 1 .. n
      BY <2>2, Zenon
    <3>2. \A y \in DOMAIN F : owner[y] <= n
      BY <2>2, <3>1
    <3> QED
      BY <3>2
  <2>10. Enumerates(f[n], [x \in DOMAIN F |-> F[x]])
    BY <2>2, <2>8, <2>9
  <2>11. Enumerates(f[n], F)
    <3>1. DOMAIN [x \in DOMAIN F |-> F[x]] = DOMAIN F
      OBVIOUS
    <3>2. PICK q \in [1 .. Len(f[n]) -> DOMAIN F] :
            /\ \A i, j \in 1 .. Len(f[n]) : q[i] = q[j] => i = j
            /\ \A x \in DOMAIN F : \E i \in 1 .. Len(f[n]) : q[i] = x
            /\ \A i \in 1 .. Len(f[n]) : f[n][i] = [x \in DOMAIN F |-> F[x]][q[i]]
      BY <2>10, <3>1, Zenon DEF Enumerates
    <3>3. \A i \in 1 .. Len(f[n]) : f[n][i] = F[q[i]]
      BY <3>2
    <3> QED
      BY <3>2, <3>3 DEF Enumerates
  <2> QED
    BY <2>5, <2>11
<1> QED
  BY <1>1, <1>2

\* Such a list has the values of F, each as often as F has it.
LEMMA EnumerateValues ==
  ASSUME NEW U, NEW s \in Seq(U), NEW F, Enumerates(s, F)
  PROVE  s \in Seq({F[x] : x \in DOMAIN F})
<1>1. PICK q \in [1 .. Len(s) -> DOMAIN F] : \A i \in 1 .. Len(s) : s[i] = F[q[i]]
  BY DEF Enumerates
<1>2. Len(s) \in Nat /\ s \in [1 .. Len(s) -> U]
  BY LenProperties
<1>3. s \in [1 .. Len(s) -> {F[x] : x \in DOMAIN F}]
  BY <1>1, <1>2
<1> QED
  BY <1>2, <1>3

LEMMA EnumerateCounts ==
  ASSUME NEW U, NEW s \in Seq(U), NEW F, Enumerates(s, F)
  PROVE  /\ Len(s) = Cardinality(DOMAIN F)
         /\ \A v : Cardinality({i \in DOMAIN s : s[i] = v})
                    = Cardinality({x \in DOMAIN F : F[x] = v})
<1>1. PICK q \in [1 .. Len(s) -> DOMAIN F] :
        /\ \A i, j \in 1 .. Len(s) : q[i] = q[j] => i = j
        /\ \A x \in DOMAIN F : \E i \in 1 .. Len(s) : q[i] = x
        /\ \A i \in 1 .. Len(s) : s[i] = F[q[i]]
  BY DEF Enumerates
<1>2. Len(s) \in Nat /\ DOMAIN s = 1 .. Len(s)
  BY LenProperties
<1>3. Len(s) = Cardinality(DOMAIN F)
  <2>1. q \in Bijection(1 .. Len(s), DOMAIN F)
    BY <1>1 DEF Bijection, Injection, Surjection, IsInjective
  <2> QED
    BY <1>2, <2>1, FS_CountingElements DEF ExistsBijection
<1>4. ASSUME NEW v
      PROVE  Cardinality({i \in DOMAIN s : s[i] = v}) = Cardinality({x \in DOMAIN F : F[x] = v})
  <2> DEFINE I == {i \in DOMAIN s : s[i] = v}
             X == {x \in DOMAIN F : F[x] = v}
             p == [i \in I |-> q[i]]
  <2>1. IsFiniteSet(I)
    <3>1. I \subseteq 1 .. Len(s) /\ IsFiniteSet(1 .. Len(s))
      BY <1>2, FS_Interval
    <3> QED
      BY <3>1, FS_Subset
  <2>2. \A i \in I : i \in 1 .. Len(s) /\ q[i] \in X
    BY <1>1, <1>2
  <2>3. p \in [I -> X]
    BY <2>2
  <2>4. \A i, j \in I : p[i] = p[j] => i = j
    BY <1>1, <2>2
  <2>5. ASSUME NEW x \in X PROVE \E i \in I : p[i] = x
    <3>1. PICK i \in 1 .. Len(s) : q[i] = x
      BY <1>1
    <3>2. i \in I
      BY <1>1, <1>2, <3>1
    <3> QED
      BY <3>1, <3>2
  <2> HIDE DEF p, I, X
  <2>6. p \in Bijection(I, X)
    BY <2>3, <2>4, <2>5 DEF Bijection, Injection, Surjection, IsInjective
  <2>7. Cardinality(X) = Cardinality(I)
    BY <2>1, <2>6, FS_Bijection DEF ExistsBijection
  <2> QED
    BY <2>7 DEF I, X
<1> QED
  BY <1>3, <1>4

-----------------------------------------------------------------------------
(* Recursive functions *)

\* The values of a function that is applied again and again.
IsIterated(f, n, c, h) == f = [m \in 0 .. n |-> IF m = 0 THEN c ELSE h[f[m - 1]]]

\* Two such functions agree as far as both go.
LEMMA IteratesAgree ==
  ASSUME NEW c, NEW h, NEW n \in Nat, NEW k \in 0 .. n, NEW f, NEW g,
         IsIterated(f, n, c, h), IsIterated(g, k, c, h), NEW m \in 0 .. k
  PROVE  f[m] = g[m]
<1> DEFINE P == {i \in 0 .. k : f[i] = g[i]}
<1>1. /\ \A i \in 0 .. n : f[i] = IF i = 0 THEN c ELSE h[f[i - 1]]
      /\ \A i \in 0 .. k : g[i] = IF i = 0 THEN c ELSE h[g[i - 1]]
  BY DEF IsIterated
<1>2. 0 \in P
  BY <1>1
<1>3. \A i \in 0 .. m - 1 : i \in P => i + 1 \in P
  <2> SUFFICES ASSUME NEW i \in 0 .. m - 1, i \in P PROVE i + 1 \in P
    OBVIOUS
  <2>1. i + 1 \in 0 .. k /\ i + 1 \in 0 .. n /\ i + 1 # 0 /\ (i + 1) - 1 = i
    OBVIOUS
  <2> QED
    BY <1>1, <2>1
<1>4. m \in Nat
  OBVIOUS
<1> HIDE DEF P
<1>5. m \in P
  BY <1>2, <1>3, <1>4, CountUp
<1> QED
  BY <1>5 DEF P

\* The recursive function over all numbers exists, and so has the value that defines it.
LEMMA IteratesExist ==
  ASSUME NEW S, NEW c \in S, NEW h \in [S -> S]
  PROVE  \E W \in [Nat -> S] : W = [n \in Nat |-> IF n = 0 THEN c ELSE h[W[n - 1]]]
<1>1. ASSUME NEW n \in Nat
      PROVE  \E f : IsIterated(f, n, c, h) /\ f \in [0 .. n -> S]
  <2> DEFINE P == {k \in 0 .. n : \E f : IsIterated(f, k, c, h) /\ f \in [0 .. k -> S]}
  <2>1. 0 \in P
    <3> DEFINE f == [m \in 0 .. 0 |-> c]
    <3>1. IsIterated(f, 0, c, h)
      BY DEF IsIterated
    <3>2. f \in [0 .. 0 -> S] /\ 0 \in 0 .. n
      OBVIOUS
    <3> HIDE DEF f
    <3> QED
      BY <3>1, <3>2, Zenon
  <2>2. ASSUME NEW k \in 0 .. n - 1, k \in P PROVE k + 1 \in P
    <3>1. PICK f : IsIterated(f, k, c, h) /\ f \in [0 .. k -> S]
      BY <2>2
    <3> DEFINE g == [m \in 0 .. k + 1 |-> IF m = 0 THEN c ELSE h[f[m - 1]]]
    <3>2. \A m \in 0 .. k + 1 : m # 0 => m - 1 \in 0 .. k /\ f[m - 1] \in S /\ h[f[m - 1]] \in S
      BY <3>1
    <3>3. g \in [0 .. k + 1 -> S]
      BY <3>2
    <3>4. \A m \in 0 .. k : f[m] = g[m]
      BY <3>1 DEF IsIterated
    <3>5. g = [m \in 0 .. k + 1 |-> IF m = 0 THEN c ELSE h[g[m - 1]]]
      BY <3>2, <3>4
    <3>6. IsIterated(g, k + 1, c, h) /\ k + 1 \in 0 .. n
      <4> HIDE DEF g
      <4> QED
        BY <3>5 DEF IsIterated
    <3> HIDE DEF g
    <3> QED
      BY <3>3, <3>6, Zenon
  <2> HIDE DEF P
  <2>3. n \in P
    BY <2>1, <2>2, CountUp
  <2> QED
    BY <2>3 DEF P
<1> DEFINE F(n) == CHOOSE f : IsIterated(f, n, c, h) /\ f \in [0 .. n -> S]
           W == [n \in Nat |-> F(n)[n]]
<1>2. \A n \in Nat : IsIterated(F(n), n, c, h) /\ F(n) \in [0 .. n -> S]
  BY <1>1
<1> HIDE DEF F
<1>3. W \in [Nat -> S]
  BY <1>2
<1>4. ASSUME NEW n \in Nat PROVE W[n] = IF n = 0 THEN c ELSE h[W[n - 1]]
  <2>1. W[n] = IF n = 0 THEN c ELSE h[F(n)[n - 1]]
    BY <1>2 DEF IsIterated
  <2>2. ASSUME n # 0 PROVE F(n)[n - 1] = W[n - 1]
    <3>1. n - 1 \in Nat /\ n - 1 \in 0 .. n /\ n - 1 \in 0 .. n - 1
      BY <2>2
    <3>2. IsIterated(F(n), n, c, h) /\ IsIterated(F(n - 1), n - 1, c, h)
      BY <1>2, <3>1
    <3>3. F(n)[n - 1] = F(n - 1)[n - 1]
      BY <3>1, <3>2, IteratesAgree
    <3> QED
      BY <3>1, <3>3
  <2> QED
    BY <2>1, <2>2
<1>5. W = [n \in Nat |-> IF n = 0 THEN c ELSE h[W[n - 1]]]
  <2> HIDE DEF W
  <2> QED
    BY <1>3, <1>4
<1> QED
  BY <1>3, <1>5

\* Whoever follows `next' comes to an end, from everywhere: what holds at the ends, and of
\* whatever leads to where it holds, holds of all.
ComesToAnEnd(S, done, next) ==
    \A P \in SUBSET S : (\A s \in S : s \in done \/ next[s] \in P => s \in P) => P = S

\* The function that is defined by going on until it is done.
IsFollowed(V, S, done, next, found) ==
    V = [s \in S |-> IF s \in done THEN found[s] ELSE V[next[s]]]

\* It exists: the smallest relation that goes on so is a function.
LEMMA FollowExists ==
  ASSUME NEW S, NEW done \in SUBSET S, NEW next, \A s \in S \ done : next[s] \in S,
         ComesToAnEnd(S, done, next), NEW found
  PROVE  \E V : IsFollowed(V, S, done, next, found)
<1> DEFINE T == {found[s] : s \in done}
           Follows(G) == /\ \A s \in done : <<s, found[s]>> \in G
                         /\ \A s \in S \ done : \A x \in T :
                              <<next[s], x>> \in G => <<s, x>> \in G
           G == {p \in S \X T : \A H \in SUBSET (S \X T) : Follows(H) => p \in H}
<1>1. Follows(G)
  OBVIOUS
<1>2. ASSUME NEW s \in done PROVE \A x \in T : <<s, x>> \in G => x = found[s]
  <2> DEFINE H == {p \in S \X T : p[1] = s => p[2] = found[s]}
  <2>1. Follows(H)
    OBVIOUS
  <2>2. H \in SUBSET (S \X T)
    OBVIOUS
  <2>3. G \subseteq H
    <3> HIDE DEF H, Follows
    <3> QED
      BY <2>1, <2>2
  <2> QED
    BY <2>3
<1>3. ASSUME NEW s \in S \ done, NEW x \in T, <<s, x>> \in G PROVE <<next[s], x>> \in G
  <2> DEFINE H == G \ {<<s, x>>}
  <2>1. SUFFICES ASSUME <<next[s], x>> \notin G PROVE FALSE
    OBVIOUS
  <2>2. Follows(H)
    <3>1. \A r \in done : <<r, found[r]>> \in H
      BY <1>1
    <3>2. ASSUME NEW r \in S \ done, NEW y \in T, <<next[r], y>> \in H PROVE <<r, y>> \in H
      <4>1. <<r, y>> \in G
        BY <1>1, <3>2
      <4>2. <<r, y>> # <<s, x>>
        BY <2>1, <3>2
      <4> QED
        BY <4>1, <4>2
    <3> QED
      BY <3>1, <3>2
  <2>3. H \in SUBSET (S \X T)
    OBVIOUS
  <2>4. G \subseteq H
    <3> HIDE DEF H, Follows
    <3> QED
      BY <2>2, <2>3
  <2> QED
    BY <1>3, <2>4
<1> DEFINE P == {s \in S : \E x \in T : \A y \in T : <<s, y>> \in G <=> y = x}
<1>4. P = S
  <2>1. ASSUME NEW s \in done PROVE s \in P
    BY <1>1, <1>2
  <2>2. ASSUME NEW s \in S \ done, next[s] \in P PROVE s \in P
    <3>1. PICK x \in T : \A y \in T : <<next[s], y>> \in G <=> y = x
      BY <2>2
    <3>2. \A y \in T : <<s, y>> \in G <=> y = x
      BY <1>1, <1>3, <3>1
    <3> QED
      BY <3>2
  <2>3. P \in SUBSET S /\ \A s \in S : s \in done \/ next[s] \in P => s \in P
    BY <2>1, <2>2
  <2> HIDE DEF P
  <2> QED
    BY <2>3 DEF ComesToAnEnd
<1> DEFINE e(s) == CHOOSE x \in T : <<s, x>> \in G
           V == [s \in S |-> e(s)]
<1>5. ASSUME NEW s \in S, NEW x \in T, <<s, x>> \in G PROVE V[s] = x
  BY <1>4, <1>5
<1>6. ASSUME NEW s \in done PROVE V[s] = found[s]
  BY <1>1, <1>5
<1>7. ASSUME NEW s \in S \ done PROVE V[s] = V[next[s]]
  <2>1. next[s] \in P
    <3> HIDE DEF P
    <3> QED
      BY <1>4, <1>7
  <2>2. PICK x \in T : \A y \in T : <<next[s], y>> \in G <=> y = x
    <3> HIDE DEF G, T
    <3> QED
      BY <2>1
  <2>3. <<next[s], x>> \in G /\ <<s, x>> \in G
    BY <1>1, <2>2
  <2> QED
    BY <1>5, <1>7, <2>3
<1>8. V = [s \in S |-> IF s \in done THEN found[s] ELSE V[next[s]]]
  <2>1. DOMAIN V = S /\ V = [s \in S |-> V[s]]
    <3> HIDE DEF e, G, T, P
    <3> QED
      OBVIOUS
  <2> HIDE DEF V, e, G, T, P
  <2>2. \A s \in S : V[s] = IF s \in done THEN found[s] ELSE V[next[s]]
    BY <1>6, <1>7
  <2> QED
    BY <2>1, <2>2
<1> HIDE DEF V
<1> QED
  BY <1>8 DEF IsFollowed

-----------------------------------------------------------------------------
(* Sequences that are put together *)

LEMMA FlattenAppend ==
  ASSUME NEW V, NEW ss \in Seq(Seq(V)), NEW s \in Seq(V)
  PROVE  /\ Append(ss, s) \in Seq(Seq(V))
         /\ FlattenSeq(Append(ss, s)) = FlattenSeq(ss) \o s
<1> DEFINE n == Len(ss)
           tt == Append(ss, s)
<1>1. /\ tt \in Seq(Seq(V)) /\ n \in Nat /\ Len(tt) = n + 1 /\ tt[n + 1] = s
      /\ \A i \in 1 .. n : tt[i] = ss[i]
  BY LenProperties, AppendProperties
<1> HIDE DEF tt
<1>2. PICK g : IsFlat(g, tt, V)
  <2>1. Len(tt) # 0
    BY <1>1
  <2> QED
    BY <1>1, <2>1, FlattenValue
<1>3. /\ FlattenSeq(tt) = g[n + 1]
      /\ \A i \in 1 .. n + 1 : g[i] = IF i = 1 THEN tt[i] ELSE g[i - 1] \o tt[i]
  BY <1>1, <1>2 DEF IsFlat
<1>4. CASE n = 0
  <2>1. ss = <<>> /\ FlattenSeq(ss) = ss
    BY <1>4, EmptySeq DEF FlattenSeq
  <2>2. FlattenSeq(tt) = s
    BY <1>1, <1>3, <1>4
  <2>3. <<>> \o s = s
    OBVIOUS
  <2> QED
    BY <1>1, <2>1, <2>2, <2>3 DEF tt
<1>5. CASE n # 0
  <2>1. PICK f : IsFlat(f, ss, V)
    BY <1>5, FlattenValue
  <2>2. FlattenSeq(ss) = f[n] /\ \A i \in 1 .. n : f[i] = IF i = 1 THEN ss[i] ELSE f[i - 1] \o ss[i]
    BY <2>1 DEF IsFlat
  <2> DEFINE Q == {m \in 1 .. n : g[m] = f[m]} \cup {0}
  <2>3. \A m \in 0 .. n - 1 : m \in Q => m + 1 \in Q
    <3> SUFFICES ASSUME NEW m \in 0 .. n - 1, m \in Q PROVE m + 1 \in Q
      OBVIOUS
    <3>1. m + 1 \in 1 .. n /\ m + 1 \in 1 .. n + 1 /\ (m + 1) - 1 = m /\ (m + 1 = 1 <=> m = 0)
      <4>1. n \in Nat
        BY <1>1
      <4> HIDE DEF n, Q
      <4> QED
        BY <4>1
    <3>2. g[m + 1] = IF m = 0 THEN tt[m + 1] ELSE g[m] \o tt[m + 1]
      BY <1>3, <3>1
    <3>3. f[m + 1] = IF m = 0 THEN ss[m + 1] ELSE f[m] \o ss[m + 1]
      BY <2>2, <3>1
    <3>4. tt[m + 1] = ss[m + 1] /\ (m # 0 => g[m] = f[m])
      BY <1>1, <3>1
    <3> QED
      BY <3>1, <3>2, <3>3, <3>4
  <2>4. n \in Q
    <3>1. 0 \in Q
      OBVIOUS
    <3> HIDE DEF Q
    <3> QED
      BY <1>1, <2>3, <3>1, CountUp
  <2>5. g[n] = f[n]
    BY <1>5, <2>4
  <2>6. n + 1 \in 1 .. n + 1 /\ n + 1 # 1 /\ (n + 1) - 1 = n
    BY <1>1, <1>5
  <2>7. FlattenSeq(tt) = g[n] \o tt[n + 1]
    BY <1>3, <2>6
  <2> QED
    BY <1>1, <2>2, <2>5, <2>7 DEF tt
<1> QED
  BY <1>4, <1>5

LEMMA ConcatDisjoint ==
  ASSUME NEW V, NEW s \in Seq(V), NEW t \in Seq(V)
  PROVE  /\ Range(s \o t) = Range(s) \cup Range(t)
         /\ IsInjective(s) /\ IsInjective(t) /\ Range(s) \cap Range(t) = {} =>
              IsInjective(s \o t)
<1> DEFINE m == Len(s)
           n == Len(t)
           u == s \o t
<1>1. /\ m \in Nat /\ n \in Nat /\ DOMAIN s = 1 .. m /\ DOMAIN t = 1 .. n /\ DOMAIN u = 1 .. m + n
      /\ \A j \in 1 .. m + n : u[j] = IF j <= m THEN s[j] ELSE t[j - m]
  BY LenProperties, ConcatProperties
<1> HIDE DEF m, n, u
<1>2. \A j \in 1 .. m + n : j <= m => j \in 1 .. m /\ u[j] = s[j] /\ u[j] \in Range(s)
  <2> SUFFICES ASSUME NEW j \in 1 .. m + n, j <= m
               PROVE  j \in 1 .. m /\ u[j] = s[j] /\ u[j] \in Range(s)
    OBVIOUS
  <2>1. j \in 1 .. m /\ u[j] = s[j]
    BY <1>1
  <2> QED
    BY <1>1, <2>1 DEF Range
<1>3. \A j \in 1 .. m + n : j > m => j - m \in 1 .. n /\ u[j] = t[j - m] /\ u[j] \in Range(t)
  <2> SUFFICES ASSUME NEW j \in 1 .. m + n, j > m
               PROVE  j - m \in 1 .. n /\ u[j] = t[j - m] /\ u[j] \in Range(t)
    OBVIOUS
  <2>1. j - m \in 1 .. n /\ u[j] = t[j - m]
    BY <1>1
  <2> QED
    BY <1>1, <2>1 DEF Range
<1>4. Range(u) \subseteq Range(s) \cup Range(t)
  <2> SUFFICES ASSUME NEW j \in 1 .. m + n PROVE u[j] \in Range(s) \cup Range(t)
    BY <1>1 DEF Range
  <2>1. j <= m \/ j > m
    BY <1>1
  <2> QED
    BY <1>2, <1>3, <2>1
<1>5. ASSUME NEW x \in Range(s) PROVE x \in Range(u)
  <2>1. PICK j \in 1 .. m : s[j] = x
    BY <1>1 DEF Range
  <2>2. j \in 1 .. m + n /\ u[j] = x
    BY <1>1, <2>1
  <2> QED
    BY <1>1, <2>2 DEF Range
<1>6. ASSUME NEW x \in Range(t) PROVE x \in Range(u)
  <2>1. PICK j \in 1 .. n : t[j] = x
    BY <1>1 DEF Range
  <2>2. m + j \in 1 .. m + n /\ ~(m + j <= m) /\ (m + j) - m = j
    BY <1>1
  <2>3. u[m + j] = x
    BY <1>1, <2>1, <2>2
  <2> QED
    BY <1>1, <2>2, <2>3 DEF Range
<1>7. ASSUME IsInjective(s), IsInjective(t), Range(s) \cap Range(t) = {},
             NEW a \in 1 .. m + n, NEW b \in 1 .. m + n, u[a] = u[b]
      PROVE  a = b
  <2>1. CASE a <= m /\ b <= m
    BY <1>1, <1>2, <1>7, <2>1 DEF IsInjective
  <2>2. CASE a > m /\ b > m
    <3>1. a - m = b - m
      BY <1>1, <1>3, <1>7, <2>2 DEF IsInjective
    <3> QED
      BY <1>1, <3>1
  <2>3. CASE (a <= m /\ b > m) \/ (a > m /\ b <= m)
    BY <1>2, <1>3, <1>7, <2>3
  <2>4. (a <= m \/ a > m) /\ (b <= m \/ b > m)
    BY <1>1
  <2> QED
    BY <2>1, <2>2, <2>3, <2>4
<1>8. IsInjective(s) /\ IsInjective(t) /\ Range(s) \cap Range(t) = {} => IsInjective(u)
  BY <1>1, <1>7 DEF IsInjective
<1> QED
  BY <1>4, <1>5, <1>6, <1>8 DEF u
=============================================================================
