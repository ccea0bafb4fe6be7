---------------------------- MODULE FiniteFolds -------------------------------
(***************************************************************************)
(* Folds over finite sets, as the community modules define them: a CHOOSE  *)
(* of a function over all subsets that satisfies a recursion.  That there  *)
(* is such a function, that it is the only one and what its values are is  *)
(* proved here from the well-foundedness of the subsets of a finite set    *)
(* (FiniteSetTheorems), without an induction rule over operators.          *)
(***************************************************************************)
EXTENDS Integers, FiniteSets, FiniteSetTheorems, TLAPS

\* Induction over the subsets of a finite set: what holds of a subset whenever
\* it holds of all smaller ones holds of every subset.
LEMMA SubsetInduction ==
  ASSUME NEW S, IsFiniteSet(S), NEW G,
         \A T \in SUBSET S : (\A U \in SUBSET T : U # T => U \in G) => T \in G
  PROVE  SUBSET S \subseteq G
<1>. DEFINE Bad == (SUBSET S) \ G
<1>. SUFFICES ASSUME Bad # {} PROVE FALSE
  OBVIOUS
<1>1. IsWellFoundedOn(StrictSubsetOrdering(S), FiniteSubsetsOf(S))
  BY FS_StrictSubsetOrderingWellFounded
<1>2. FiniteSubsetsOf(S) = SUBSET S
  BY FS_FiniteSubsetsOfFinite
<1>3. PICK T \in Bad : \A U \in Bad : <<U, T>> \notin StrictSubsetOrdering(S)
  <2>. HIDE DEF Bad
  <2>1. Bad \subseteq SUBSET S
    BY DEF Bad
  <2>. QED BY <1>1, <1>2, <2>1, WFMin
<1>4. \A U \in SUBSET T : U # T => U \in G
  <2>. SUFFICES ASSUME NEW U \in SUBSET T, U # T, U \notin G PROVE FALSE
    OBVIOUS
  <2>1. U \in Bad
    BY <1>3
  <2>2. <<U, T>> \in StrictSubsetOrdering(S)
    BY <1>3 DEF StrictSubsetOrdering
  <2>. QED BY <2>1, <2>2, <1>3
<1>. QED BY <1>3, <1>4

Picks(pick, S) == \A T \in SUBSET S : T # {} => pick[T] \in T

Folds(g, S, base, pick, step) ==
  g = [T \in SUBSET S |-> IF T = {} THEN base ELSE step[<<pick[T], g[T \ {pick[T]}]>>]]

\* A fold over values of V stays in V.
LEMMA FoldType ==
  ASSUME NEW S, IsFiniteSet(S), NEW V, NEW base \in V,
         NEW pick, \A T \in SUBSET S : T # {} => pick[T] \in T,
         NEW step \in [S \X V -> V],
         NEW g, Folds(g, S, base, pick, step)
  PROVE  g \in [SUBSET S -> V]
<1>. DEFINE G == {T \in SUBSET S : g[T] \in V}
<1>1. \A T \in SUBSET S : g[T] = IF T = {} THEN base ELSE step[<<pick[T], g[T \ {pick[T]}]>>]
  BY DEF Folds
<1>2. ASSUME NEW T \in SUBSET S, \A U \in SUBSET T : U # T => U \in G
      PROVE T \in G
  <2>1. CASE T = {}
    BY <2>1, <1>1
  <2>2. CASE T # {}
    <3>1. pick[T] \in T /\ pick[T] \in S
      BY <2>2
    <3>2. T \ {pick[T]} \in G
      BY <3>1, <1>2
    <3>3. step[<<pick[T], g[T \ {pick[T]}]>>] \in V
      BY <3>1, <3>2
    <3>. QED BY <3>3, <1>1, <2>2
  <2>. QED BY <2>1, <2>2
<1>3. SUBSET S \subseteq G
  <2>. HIDE DEF G
  <2>. QED BY <1>2, SubsetInduction
<1>. QED BY <1>3 DEF Folds

\* Folds over two sets agree on the subsets the two have in common.
LEMMA FoldUnique ==
  ASSUME NEW S, IsFiniteSet(S), NEW base, NEW step,
         NEW pick, \A T \in SUBSET S : T # {} => pick[T] \in T,
         NEW A \in SUBSET S, NEW g, Folds(g, A, base, pick, step),
         NEW B \in SUBSET S, NEW h, Folds(h, B, base, pick, step),
         NEW C \in SUBSET A, C \in SUBSET B
  PROVE  g[C] = h[C]
<1>. DEFINE G == {T \in SUBSET S : T \in SUBSET A /\ T \in SUBSET B => g[T] = h[T]}
<1>1. \A T \in SUBSET A : g[T] = IF T = {} THEN base ELSE step[<<pick[T], g[T \ {pick[T]}]>>]
  BY DEF Folds
<1>2. \A T \in SUBSET B : h[T] = IF T = {} THEN base ELSE step[<<pick[T], h[T \ {pick[T]}]>>]
  BY DEF Folds
<1>3. ASSUME NEW T \in SUBSET S, \A U \in SUBSET T : U # T => U \in G
      PROVE T \in G
  <2>. SUFFICES ASSUME T \in SUBSET A, T \in SUBSET B PROVE g[T] = h[T]
    OBVIOUS
  <2>1. CASE T = {}
    BY <2>1, <1>1, <1>2
  <2>2. CASE T # {}
    <3>1. pick[T] \in T
      BY <2>2
    <3>2. T \ {pick[T]} \in G
      BY <3>1, <1>3
    <3>3. g[T \ {pick[T]}] = h[T \ {pick[T]}]
      BY <3>2
    <3>4. g[T] = step[<<pick[T], g[T \ {pick[T]}]>>]
      BY <1>1, <2>2
    <3>5. h[T] = step[<<pick[T], h[T \ {pick[T]}]>>]
      BY <1>2, <2>2
    <3>. QED BY <3>3, <3>4, <3>5
  <2>. QED BY <2>1, <2>2
<1>4. SUBSET S \subseteq G
  <2>. HIDE DEF G
  <2>. QED BY <1>3, SubsetInduction
<1>. QED BY <1>4

\* Over a finite set there is a fold: the recursion is well founded.
LEMMA FoldExists ==
  ASSUME NEW S, IsFiniteSet(S), NEW base, NEW step,
         NEW pick, \A T \in SUBSET S : T # {} => pick[T] \in T
  PROVE  \E g : Folds(g, S, base, pick, step)
<1>. DEFINE G == {T \in SUBSET S : \E g : Folds(g, T, base, pick, step)}
<1>1. ASSUME NEW T \in SUBSET S, \A U \in SUBSET T : U # T => U \in G
      PROVE T \in G
  <2>. DEFINE F(U) == CHOOSE g : Folds(g, U, base, pick, step)
              h == [U \in SUBSET T |->
                      IF U = {} THEN base
                      ELSE IF U = T THEN step[<<pick[T], F(T \ {pick[T]})[T \ {pick[T]}]>>]
                      ELSE F(U)[U]]
  <2>1. ASSUME NEW U \in SUBSET T, U # T
        PROVE  Folds(F(U), U, base, pick, step)
    <3>1. U \in G
      BY <2>1, <1>1
    <3>. QED BY <3>1
  <2>2. ASSUME NEW U \in SUBSET T, U # {}
        PROVE  h[U] = step[<<pick[U], h[U \ {pick[U]}]>>]
    <3>1. pick[U] \in U
      BY <2>2
    <3>. DEFINE R == U \ {pick[U]}
    <3>2. R \in SUBSET T /\ R # T /\ R \in SUBSET U
      BY <3>1
    <3>3. h[R] = F(R)[R]
      <4>1. CASE R = {}
        <5>1. Folds(F(R), R, base, pick, step)
          BY <3>2, <2>1
        <5>2. F(R)[{}] = base
          <6>. HIDE DEF F, R
          <6>1. {} \in SUBSET R
            OBVIOUS
          <6>. QED BY <5>1, <6>1 DEF Folds
        <5>. QED BY <5>2, <4>1
      <4>2. CASE R # {}
        BY <4>2, <3>2
      <4>. QED BY <4>1, <4>2
    <3>4. CASE U = T
      <4>1. h[U] = step[<<pick[U], F(R)[R]>>]
        BY <3>4, <2>2
      <4>. QED BY <4>1, <3>3
    <3>5. CASE U # T
      <4>1. Folds(F(U), U, base, pick, step) /\ Folds(F(R), R, base, pick, step)
        BY <3>2, <3>5, <2>1
      <4>2. F(U)[R] = F(R)[R]
        <5>. HIDE DEF F, R
        <5>1. U \in SUBSET S /\ R \in SUBSET S /\ R \in SUBSET U /\ R \in SUBSET R
          BY <3>2
        <5>. QED BY <4>1, <5>1, FoldUnique
      <4>3. F(U)[U] = step[<<pick[U], F(U)[R]>>]
        <5>. HIDE DEF F
        <5>1. U \in SUBSET U
          OBVIOUS
        <5>. QED BY <4>1, <5>1, <2>2 DEF Folds
      <4>4. h[U] = F(U)[U]
        BY <3>5, <2>2
      <4>. QED BY <4>2, <4>3, <4>4, <3>3
    <3>. QED BY <3>4, <3>5
  <2>3. h = [U \in SUBSET T |-> IF U = {} THEN base ELSE step[<<pick[U], h[U \ {pick[U]}]>>]]
    <3>1. \A U \in SUBSET T : h[U] = IF U = {} THEN base ELSE step[<<pick[U], h[U \ {pick[U]}]>>]
      <4>1. {} \in SUBSET T /\ h[{}] = base
        OBVIOUS
      <4>. HIDE DEF h
      <4>. QED BY <2>2, <4>1
    <3>2. h = [U \in SUBSET T |-> h[U]]
      OBVIOUS
    <3>. HIDE DEF h
    <3>. QED BY <3>1, <3>2
  <2>4. Folds(h, T, base, pick, step)
    <3>. HIDE DEF h
    <3>. QED BY <2>3 DEF Folds
  <2>. HIDE DEF h
  <2>. QED BY <2>4
<1>2. SUBSET S \subseteq G
  <2>. HIDE DEF G
  <2>. QED BY <1>1, SubsetInduction
<1>3. S \in G
  BY <1>2
<1>. QED BY <1>3

\* Over a finite set there is a fold, and its values are of V.
LEMMA FoldDefined ==
  ASSUME NEW S, IsFiniteSet(S), NEW V, NEW base \in V,
         NEW pick, Picks(pick, S), NEW step \in [S \X V -> V]
  PROVE  \E g \in [SUBSET S -> V] : Folds(g, S, base, pick, step)
  BY FoldExists, FoldType DEF Picks

\* What holds of {} and survives each element that is picked holds of every
\* subset.
LEMMA FoldTyped ==
  ASSUME NEW S, IsFiniteSet(S), NEW V, NEW g, NEW pick, Picks(pick, S),
         g[{}] \in V,
         \A T \in SUBSET S : T # {} /\ g[T \ {pick[T]}] \in V => g[T] \in V
  PROVE  \A T \in SUBSET S : g[T] \in V
<1>. DEFINE G == {T \in SUBSET S : g[T] \in V}
<1>1. ASSUME NEW T \in SUBSET S, \A U \in SUBSET T : U # T => U \in G
      PROVE T \in G
  <2>1. CASE T # {}
    <3>1. pick[T] \in T /\ T \ {pick[T]} \in SUBSET T
      BY <2>1 DEF Picks
    <3>2. T \ {pick[T]} \in G
      BY <3>1, <1>1
    <3>. QED BY <3>2, <2>1
  <2>. QED BY <2>1
<1>2. SUBSET S \subseteq G
  <2>. HIDE DEF G
  <2>. QED BY <1>1, SubsetInduction
<1>. QED BY <1>2
=============================================================================
