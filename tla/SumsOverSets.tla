---------------------------- MODULE SumsOverSets ----------------------------
(***************************************************************************)
(* Sums over finite sets: what SumFunctionOnSet does to the ledgers of a   *)
(* replay.  The library's induction theorems take an operator; here an     *)
(* induction is over the set of the subsets that have been dealt with,     *)
(* which first-order provers can be given.                                 *)
(***************************************************************************)
EXTENDS FiniteSetsExt, FiniteSetTheorems, TLAPS

\* The element that the fold takes first.
Some(s) == CHOOSE x \in s : TRUE

\* g is the recursive function that the fold of f over S is defined by.
IsFold(g, f, S) ==
  g = [s \in SUBSET S |-> IF s = {} THEN 0 ELSE f[Some(s)] + g[s \ {Some(s)}]]

-----------------------------------------------------------------------------
\* Strong induction over the subsets of a finite set: what holds of a set as soon
\* as it holds of all its proper subsets holds of the whole set.
LEMMA SubsetInduction ==
  ASSUME NEW S, IsFiniteSet(S), NEW G,
         \A T \in SUBSET S : (\A U \in SUBSET T : U # T => U \in G) => T \in G
  PROVE  S \in G
<1> DEFINE R == StrictSubsetOrdering(S)
           Bad == {T \in SUBSET S : T \notin G}
<1>1. IsWellFoundedOn(R, SUBSET S)
  BY FS_StrictSubsetOrderingWellFounded, FS_FiniteSubsetsOfFinite, Zenon
<1>2. SUFFICES ASSUME S \notin G PROVE FALSE
  OBVIOUS
<1>3. Bad \subseteq SUBSET S /\ Bad # {}
  BY <1>2
<1>4. \E T \in Bad : \A U \in Bad : ~(<<U, T>> \in R)
  <2> HIDE DEF R, Bad
  <2> QED BY ONLY <1>1, <1>3, WFMin
<1>5. PICK T \in Bad : \A U \in Bad : ~(<<U, T>> \in R)
  BY <1>4
<1>6. \A U \in SUBSET T : U # T => U \in G
  <2> TAKE U \in SUBSET T
  <2> HAVE U # T
  <2>1. U \in SUBSET S
    OBVIOUS
  <2>2. <<U, T>> \in R
    BY <2>1 DEF StrictSubsetOrdering
  <2> QED
    BY <1>5, <2>1, <2>2
<1> QED
  BY <1>5, <1>6

\* Two folds of the same function agree wherever both are defined.
LEMMA FoldsAgree ==
  ASSUME NEW f, NEW S, IsFiniteSet(S), NEW T, S \subseteq T, NEW g, NEW h,
         IsFold(g, f, S), IsFold(h, f, T)
  PROVE  g[S] = h[S]
<1> DEFINE G == {s \in SUBSET S : g[s] = h[s]}
<1>1. ASSUME NEW s \in SUBSET S, \A u \in SUBSET s : u # s => u \in G
      PROVE  s \in G
  <2>1. CASE s = {}
    BY <2>1 DEF IsFold
  <2>2. CASE s # {}
    <3>1. Some(s) \in s
      BY <2>2 DEF Some
    <3>2. s \ {Some(s)} \in G
      BY <1>1, <3>1
    <3>3. g[s] = f[Some(s)] + g[s \ {Some(s)}]
      BY <2>2 DEF IsFold
    <3>4. h[s] = f[Some(s)] + h[s \ {Some(s)}]
      BY <2>2 DEF IsFold
    <3> QED
      BY <3>2, <3>3, <3>4
  <2> QED
    BY <2>1, <2>2
<1>2. S \in G
  <2> HIDE DEF G
  <2> QED BY <1>1, SubsetInduction
<1> QED
  BY <1>2

\* Every function has its fold.
LEMMA FoldExists ==
  ASSUME NEW f, NEW S, IsFiniteSet(S)
  PROVE  \E g : IsFold(g, f, S)
<1> DEFINE G == {T \in SUBSET S : \E g : IsFold(g, f, T)}
           Of(T) == CHOOSE g : IsFold(g, f, T)
<1>1. ASSUME NEW T \in SUBSET S, \A U \in SUBSET T : U # T => U \in G
      PROVE  T \in G
  <2> DEFINE g == [s \in SUBSET T |-> IF s = {} THEN 0
                     ELSE f[Some(s)] + Of(s \ {Some(s)})[s \ {Some(s)}]]
  <2>1. \A U \in SUBSET T : U # T => IsFold(Of(U), f, U)
    BY <1>1
  <2>2. ASSUME NEW s \in SUBSET T, s # T PROVE g[s] = Of(s)[s]
    <3>1. IsFold(Of(s), f, s)
      BY <2>1, <2>2
    <3>2. CASE s = {}
      BY <3>1, <3>2 DEF IsFold
    <3>3. CASE s # {}
      <4> DEFINE r == s \ {Some(s)}
      <4>1. Some(s) \in s
        BY <3>3 DEF Some
      <4>2. r \subseteq s /\ r \in SUBSET T /\ r # T
        BY <4>1
      <4>3. IsFold(Of(r), f, r)
        BY <2>1, <4>2
      <4>4. IsFiniteSet(r)
        BY <4>2, FS_Subset
      <4>5. Of(r)[r] = Of(s)[r]
        <5> HIDE DEF Of, r
        <5> QED BY <3>1, <4>2, <4>3, <4>4, FoldsAgree
      <4>6. Of(s)[s] = f[Some(s)] + Of(s)[r]
        <5> HIDE DEF Of
        <5> QED BY <3>1, <3>3 DEF IsFold
      <4>7. g[s] = f[Some(s)] + Of(r)[r]
        <5> HIDE DEF Of
        <5> QED BY <3>3
      <4> QED
        <5> HIDE DEF Of, r, g
        <5> QED BY <4>5, <4>6, <4>7
    <3> QED
      BY <3>2, <3>3
  <2>3. IsFold(g, f, T)
    <3>1. ASSUME NEW s \in SUBSET T, s # {}
          PROVE  g[s \ {Some(s)}] = Of(s \ {Some(s)})[s \ {Some(s)}]
      <4> DEFINE r == s \ {Some(s)}
      <4>1. r \in SUBSET T /\ r # T
        BY <3>1 DEF Some
      <4> HIDE DEF g, Of, r
      <4> QED
        BY <4>1, <2>2 DEF r
    <3>2. \A s \in SUBSET T : g[s] = IF s = {} THEN 0
                     ELSE f[Some(s)] + g[s \ {Some(s)}]
      <4> TAKE s \in SUBSET T
      <4>1. CASE s = {}
        <5> HIDE DEF Of
        <5> QED BY <4>1
      <4>2. CASE s # {}
        <5>1. g[s] = f[Some(s)] + Of(s \ {Some(s)})[s \ {Some(s)}]
          <6> HIDE DEF Of
          <6> QED BY <4>2
        <5> HIDE DEF g, Of
        <5> QED BY <3>1, <4>2, <5>1
      <4> QED
        BY <4>1, <4>2
    <3>3. g = [s \in SUBSET T |-> g[s]]
      <4> HIDE DEF Of
      <4> QED OBVIOUS
    <3> HIDE DEF g
    <3>4. g = [s \in SUBSET T |-> IF s = {} THEN 0 ELSE f[Some(s)] + g[s \ {Some(s)}]]
      BY <3>2, <3>3
    <3> QED
      BY <3>4 DEF IsFold
  <2> HIDE DEF g
  <2> QED
    BY <2>3
<1>2. S \in G
  <2> HIDE DEF G
  <2> QED BY <1>1, SubsetInduction
<1> QED
  BY <1>2

\* What the recursive function of the fold says of the whole set.
LEMMA SumIsFold ==
  ASSUME NEW f, NEW S, IsFiniteSet(S)
  PROVE  \E g : IsFold(g, f, S) /\ SumFunctionOnSet(f, S) = g[S]
<1>1. SumFunctionOnSet(f, S) = (CHOOSE g : IsFold(g, f, S))[S]
  BY DEF SumFunctionOnSet, FoldFunctionOnSet, MapThenFoldSet, IsFold, Some
<1> QED
  BY <1>1, FoldExists

-----------------------------------------------------------------------------
LEMMA SumEmpty == ASSUME NEW f PROVE SumFunctionOnSet(f, {}) = 0
<1>1. PICK g : IsFold(g, f, {}) /\ SumFunctionOnSet(f, {}) = g[{}]
  BY SumIsFold, FS_EmptySet
<1> QED
  BY <1>1 DEF IsFold

\* The fold takes one element first, whatever the set.
LEMMA SumOfSome ==
  ASSUME NEW f, NEW S, IsFiniteSet(S), S # {}
  PROVE  SumFunctionOnSet(f, S) = f[Some(S)] + SumFunctionOnSet(f, S \ {Some(S)})
<1> DEFINE R == S \ {Some(S)}
<1>1. R \subseteq S /\ IsFiniteSet(R)
  BY FS_Subset
<1>2. PICK g : IsFold(g, f, S) /\ SumFunctionOnSet(f, S) = g[S]
  BY SumIsFold
<1>3. PICK h : IsFold(h, f, R) /\ SumFunctionOnSet(f, R) = h[R]
  BY <1>1, SumIsFold
<1>4. h[R] = g[R]
  <2> HIDE DEF R
  <2> QED BY <1>1, <1>2, <1>3, FoldsAgree
<1>5. g[S] = f[Some(S)] + g[R]
  BY <1>2 DEF IsFold
<1> QED
  BY <1>2, <1>3, <1>4, <1>5

\* A sum of integers is an integer.
LEMMA SumInt ==
  ASSUME NEW f, NEW S, IsFiniteSet(S), \A x \in S : f[x] \in Int
  PROVE  SumFunctionOnSet(f, S) \in Int
<1> DEFINE G == {T \in SUBSET S : SumFunctionOnSet(f, T) \in Int}
<1>1. ASSUME NEW T \in SUBSET S, \A U \in SUBSET T : U # T => U \in G
      PROVE  T \in G
  <2>1. CASE T = {}
    BY <2>1, SumEmpty
  <2>2. CASE T # {}
    <3>1. Some(T) \in T
      BY <2>2 DEF Some
    <3>2. SumFunctionOnSet(f, T \ {Some(T)}) \in Int
      BY <1>1, <3>1
    <3>3. IsFiniteSet(T)
      BY FS_Subset
    <3> QED
      BY <2>2, <3>1, <3>2, <3>3, SumOfSome
  <2> QED
    BY <2>1, <2>2
<1>2. S \in G
  <2> HIDE DEF G
  <2> QED BY <1>1, SubsetInduction
<1> QED
  BY <1>2

\* A sum of natural numbers is a natural number.
LEMMA SumNat ==
  ASSUME NEW f, NEW S, IsFiniteSet(S), \A x \in S : f[x] \in Nat
  PROVE  SumFunctionOnSet(f, S) \in Nat
<1> DEFINE G == {T \in SUBSET S : SumFunctionOnSet(f, T) \in Nat}
<1>1. ASSUME NEW T \in SUBSET S, \A U \in SUBSET T : U # T => U \in G
      PROVE  T \in G
  <2>1. CASE T = {}
    BY <2>1, SumEmpty
  <2>2. CASE T # {}
    <3>1. Some(T) \in T
      BY <2>2 DEF Some
    <3>2. SumFunctionOnSet(f, T \ {Some(T)}) \in Nat
      BY <1>1, <3>1
    <3>3. IsFiniteSet(T)
      BY FS_Subset
    <3> QED
      BY <2>2, <3>1, <3>2, <3>3, SumOfSome
  <2> QED
    BY <2>1, <2>2
<1>2. S \in G
  <2> HIDE DEF G
  <2> QED BY <1>1, SubsetInduction
<1> QED
  BY <1>2

\* Any element may be taken first.
LEMMA SumRemove ==
  ASSUME NEW f, NEW S, IsFiniteSet(S), \A y \in S : f[y] \in Int, NEW x \in S
  PROVE  SumFunctionOnSet(f, S) = f[x] + SumFunctionOnSet(f, S \ {x})
<1> DEFINE G == {T \in SUBSET S :
                   \A z \in T : SumFunctionOnSet(f, T) = f[z] + SumFunctionOnSet(f, T \ {z})}
<1>1. ASSUME NEW T \in SUBSET S, \A U \in SUBSET T : U # T => U \in G
      PROVE  T \in G
  <2> SUFFICES ASSUME NEW z \in T
               PROVE  SumFunctionOnSet(f, T) = f[z] + SumFunctionOnSet(f, T \ {z})
    OBVIOUS
  <2> DEFINE c == Some(T)
  <2>1. c \in T
    BY DEF Some
  <2>2. \A U \in SUBSET T : IsFiniteSet(U) /\ SumFunctionOnSet(f, U) \in Int
    BY FS_Subset, SumInt
  <2>3. SumFunctionOnSet(f, T) = f[c] + SumFunctionOnSet(f, T \ {c})
    BY <2>2, SumOfSome
  <2>4. CASE z = c
    BY <2>3, <2>4
  <2>5. CASE z # c
    <3> HIDE DEF c
    <3>1. T \ {c} \in G /\ T \ {z} \in G
      BY <1>1, <2>1
    <3>2. SumFunctionOnSet(f, T \ {c}) = f[z] + SumFunctionOnSet(f, (T \ {c}) \ {z})
      BY <2>5, <3>1
    <3>3. SumFunctionOnSet(f, T \ {z}) = f[c] + SumFunctionOnSet(f, (T \ {z}) \ {c})
      BY <2>1, <2>5, <3>1
    <3>4. (T \ {z}) \ {c} = (T \ {c}) \ {z}
      OBVIOUS
    <3>5. /\ f[c] \in Int /\ f[z] \in Int
          /\ SumFunctionOnSet(f, (T \ {c}) \ {z}) \in Int
      BY <2>1, <2>2
    <3>6. SumFunctionOnSet(f, T \ {z}) = f[c] + SumFunctionOnSet(f, (T \ {c}) \ {z})
      BY <3>3, <3>4
    <3>7. ASSUME NEW p \in Int, NEW q \in Int, NEW r \in Int
          PROVE  p + (q + r) = q + (p + r)
      OBVIOUS
    <3>8. SumFunctionOnSet(f, T) = f[c] + (f[z] + SumFunctionOnSet(f, (T \ {c}) \ {z}))
      BY ONLY <2>3, <3>2
    <3> QED
      BY ONLY <3>5, <3>6, <3>7, <3>8
  <2> QED
    BY <2>4, <2>5
<1>2. S \in G
  <2> HIDE DEF G
  <2> QED BY <1>1, SubsetInduction
<1> QED
  BY <1>2

\* One element more adds its term.
LEMMA SumAdd ==
  ASSUME NEW f, NEW S, IsFiniteSet(S), NEW x, x \notin S,
         \A y \in S \cup {x} : f[y] \in Int
  PROVE  SumFunctionOnSet(f, S \cup {x}) = SumFunctionOnSet(f, S) + f[x]
<1>1. IsFiniteSet(S \cup {x}) /\ (S \cup {x}) \ {x} = S
  BY FS_AddElement
<1>2. SumFunctionOnSet(f, S \cup {x}) = f[x] + SumFunctionOnSet(f, S)
  BY <1>1, SumRemove
<1> QED
  BY <1>2, SumInt

\* Only the terms of the set matter.
LEMMA SumSame ==
  ASSUME NEW f, NEW g, NEW S, IsFiniteSet(S), \A x \in S : f[x] = g[x]
  PROVE  SumFunctionOnSet(f, S) = SumFunctionOnSet(g, S)
<1> DEFINE G == {T \in SUBSET S : SumFunctionOnSet(f, T) = SumFunctionOnSet(g, T)}
<1>1. ASSUME NEW T \in SUBSET S, \A U \in SUBSET T : U # T => U \in G
      PROVE  T \in G
  <2>1. CASE T = {}
    BY <2>1, SumEmpty
  <2>2. CASE T # {}
    <3>1. Some(T) \in T
      BY <2>2 DEF Some
    <3>2. SumFunctionOnSet(f, T \ {Some(T)}) = SumFunctionOnSet(g, T \ {Some(T)})
      BY <1>1, <3>1
    <3>3. IsFiniteSet(T)
      BY FS_Subset
    <3> QED
      BY <2>2, <3>1, <3>2, <3>3, SumOfSome
  <2> QED
    BY <2>1, <2>2
<1>2. S \in G
  <2> HIDE DEF G
  <2> QED BY <1>1, SubsetInduction
<1> QED
  BY <1>2

\* Nothing but zeroes adds up to zero.
LEMMA SumZero ==
  ASSUME NEW f, NEW S, IsFiniteSet(S), \A x \in S : f[x] = 0
  PROVE  SumFunctionOnSet(f, S) = 0
<1> DEFINE G == {T \in SUBSET S : SumFunctionOnSet(f, T) = 0}
<1>1. ASSUME NEW T \in SUBSET S, \A U \in SUBSET T : U # T => U \in G
      PROVE  T \in G
  <2>1. CASE T = {}
    BY <2>1, SumEmpty
  <2>2. CASE T # {}
    <3>1. Some(T) \in T
      BY <2>2 DEF Some
    <3>2. SumFunctionOnSet(f, T \ {Some(T)}) = 0
      BY <1>1, <3>1
    <3>3. IsFiniteSet(T)
      BY FS_Subset
    <3> QED
      BY <2>2, <3>1, <3>2, <3>3, SumOfSome
  <2> QED
    BY <2>1, <2>2
<1>2. S \in G
  <2> HIDE DEF G
  <2> QED BY <1>1, SubsetInduction
<1> QED
  BY <1>2

\* An entry of a ledger that grows by an amount makes the sum grow by it.
LEMMA SumBooked ==
  ASSUME NEW S, IsFiniteSet(S), NEW D, S \subseteq D, NEW f \in [D -> Int],
         NEW e \in S, NEW d \in Int
  PROVE  SumFunctionOnSet([f EXCEPT ![e] = @ + d], S) = SumFunctionOnSet(f, S) + d
<1> DEFINE g == [f EXCEPT ![e] = @ + d]
           R == S \ {e}
<1>1. IsFiniteSet(R) /\ (\A x \in R : f[x] = g[x])
  BY FS_Subset
<1>2. SumFunctionOnSet(f, R) = SumFunctionOnSet(g, R)
  <2> HIDE DEF g, R
  <2> QED BY <1>1, SumSame
<1>3. /\ \A x \in S : f[x] \in Int /\ g[x] \in Int
      /\ g[e] = f[e] + d
  OBVIOUS
<1>4. SumFunctionOnSet(f, S) = f[e] + SumFunctionOnSet(f, R)
  BY <1>3, SumRemove
<1>5. SumFunctionOnSet(g, S) = g[e] + SumFunctionOnSet(g, R)
  <2> HIDE DEF g
  <2> QED BY <1>3, SumRemove
<1>6. SumFunctionOnSet(f, R) \in Int
  BY <1>1, <1>3, SumInt
<1> HIDE DEF g, R
<1>7. SumFunctionOnSet(g, S) = SumFunctionOnSet(f, S) + d
  BY <1>2, <1>3, <1>4, <1>5, <1>6
<1> QED
  BY <1>7 DEF g

\* Some terms grow by those of c: so does the sum.
LEMMA SumGrows ==
  ASSUME NEW S, IsFiniteSet(S), NEW f, NEW g, NEW c, NEW C, C \subseteq S,
         \A x \in S : f[x] \in Int, \A x \in C : c[x] \in Int,
         \A x \in C : g[x] = f[x] + c[x], \A x \in S \ C : g[x] = f[x]
  PROVE  SumFunctionOnSet(g, S) = SumFunctionOnSet(f, S) + SumFunctionOnSet(c, C)
<1> DEFINE G == {T \in SUBSET S : SumFunctionOnSet(g, T)
                                    = SumFunctionOnSet(f, T) + SumFunctionOnSet(c, T \cap C)}
<1>1. ASSUME NEW T \in SUBSET S, \A U \in SUBSET T : U # T => U \in G
      PROVE  T \in G
  <2>1. CASE T = {}
    <3>1. T \cap C = {}
      BY <2>1
    <3> QED
      BY <2>1, <3>1, SumEmpty
  <2>2. CASE T # {}
    <3> DEFINE x == Some(T)
               U == T \ {x}
    <3>1. x \in T /\ x \in S
      BY <2>2 DEF Some
    <3>2. SumFunctionOnSet(g, U) = SumFunctionOnSet(f, U) + SumFunctionOnSet(c, U \cap C)
      BY <1>1, <3>1
    <3>3. IsFiniteSet(T) /\ IsFiniteSet(U) /\ IsFiniteSet(U \cap C) /\ IsFiniteSet(T \cap C)
      BY FS_Subset
    <3>4. /\ SumFunctionOnSet(g, T) = g[x] + SumFunctionOnSet(g, U)
          /\ SumFunctionOnSet(f, T) = f[x] + SumFunctionOnSet(f, U)
      BY <2>2, <3>3, SumOfSome
    <3>5. SumFunctionOnSet(f, U) \in Int /\ SumFunctionOnSet(c, U \cap C) \in Int /\ f[x] \in Int
      BY <3>1, <3>3, SumInt
    <3>6. CASE x \in C
      <4>1. (T \cap C) \ {x} = U \cap C
        OBVIOUS
      <4>2. SumFunctionOnSet(c, T \cap C) = c[x] + SumFunctionOnSet(c, (T \cap C) \ {x})
        <5> HIDE DEF x
        <5> QED BY <3>1, <3>3, <3>6, SumRemove
      <4>3. SumFunctionOnSet(c, T \cap C) = c[x] + SumFunctionOnSet(c, U \cap C)
        <5> HIDE DEF x, U
        <5> QED BY ONLY <4>1, <4>2, Zenon
      <4>4. g[x] = f[x] + c[x] /\ c[x] \in Int
        BY <3>6
      <4> HIDE DEF x, U, G
      <4>5. SumFunctionOnSet(g, T) = SumFunctionOnSet(f, T) + SumFunctionOnSet(c, T \cap C)
        BY ONLY <3>2, <3>4, <3>5, <4>3, <4>4
      <4> QED BY <4>5 DEF G
    <3>7. CASE x \notin C
      <4>1. T \cap C = U \cap C
        BY <3>1, <3>7
      <4>2. SumFunctionOnSet(c, T \cap C) = SumFunctionOnSet(c, U \cap C)
        <5> HIDE DEF U
        <5> QED BY ONLY <4>1, Zenon
      <4>3. g[x] = f[x]
        BY <3>1, <3>7
      <4> HIDE DEF x, U, G
      <4>4. SumFunctionOnSet(g, T) = SumFunctionOnSet(f, T) + SumFunctionOnSet(c, T \cap C)
        BY ONLY <3>2, <3>4, <3>5, <4>2, <4>3
      <4> QED BY <4>4 DEF G
    <3> QED
      BY <3>6, <3>7
  <2> QED
    BY <2>1, <2>2
<1>2. S \in G
  <2> HIDE DEF G
  <2> QED BY <1>1, SubsetInduction
<1>3. S \cap C = C
  OBVIOUS
<1> QED
  BY <1>2, <1>3

\* Fewer and smaller terms have a smaller sum.
LEMMA SumBelow ==
  ASSUME NEW T, IsFiniteSet(T), NEW S, S \subseteq T, NEW f, NEW g,
         \A x \in S : f[x] \in Int /\ f[x] <= g[x], \A x \in T : g[x] \in Nat
  PROVE  SumFunctionOnSet(f, S) <= SumFunctionOnSet(g, T)
<1> DEFINE G == {U \in SUBSET T : SumFunctionOnSet(f, U \cap S) <= SumFunctionOnSet(g, U)}
<1>1. ASSUME NEW U \in SUBSET T, \A V \in SUBSET U : V # U => V \in G
      PROVE  U \in G
  <2>1. CASE U = {}
    <3>1. U \cap S = {}
      BY <2>1
    <3> QED
      BY <2>1, <3>1, SumEmpty
  <2>2. CASE U # {}
    <3> DEFINE x == Some(U)
               V == U \ {x}
    <3>1. x \in U /\ x \in T
      BY <2>2 DEF Some
    <3>2. SumFunctionOnSet(f, V \cap S) <= SumFunctionOnSet(g, V)
      BY <1>1, <3>1
    <3>3. IsFiniteSet(U) /\ IsFiniteSet(V) /\ IsFiniteSet(V \cap S) /\ IsFiniteSet(U \cap S)
      BY FS_Subset
    <3>4. SumFunctionOnSet(g, U) = g[x] + SumFunctionOnSet(g, V)
      BY <2>2, <3>3, SumOfSome
    <3>5. SumFunctionOnSet(g, V) \in Int /\ SumFunctionOnSet(f, V \cap S) \in Int
      BY <3>1, <3>3, SumInt
    <3>6. g[x] \in Nat
      BY <3>1
    <3>7. CASE x \in S
      <4>1. (U \cap S) \ {x} = V \cap S
        OBVIOUS
      <4>2. SumFunctionOnSet(f, U \cap S) = f[x] + SumFunctionOnSet(f, (U \cap S) \ {x})
        <5> HIDE DEF x
        <5> QED BY <3>1, <3>3, <3>7, SumRemove
      <4>3. SumFunctionOnSet(f, U \cap S) = f[x] + SumFunctionOnSet(f, V \cap S)
        <5> HIDE DEF x, V
        <5> QED BY ONLY <4>1, <4>2, Zenon
      <4>4. f[x] \in Int /\ f[x] <= g[x]
        BY <3>7
      <4> HIDE DEF x, V, G
      <4>5. SumFunctionOnSet(f, U \cap S) <= SumFunctionOnSet(g, U)
        BY ONLY <3>2, <3>4, <3>5, <3>6, <4>3, <4>4
      <4> QED BY <4>5 DEF G
    <3>8. CASE x \notin S
      <4>1. U \cap S = V \cap S
        BY <3>1, <3>8
      <4>2. SumFunctionOnSet(f, U \cap S) = SumFunctionOnSet(f, V \cap S)
        <5> HIDE DEF V
        <5> QED BY ONLY <4>1, Zenon
      <4> HIDE DEF x, V, G
      <4>3. SumFunctionOnSet(f, U \cap S) <= SumFunctionOnSet(g, U)
        BY ONLY <3>2, <3>4, <3>5, <3>6, <4>2
      <4> QED BY <4>3 DEF G
    <3> QED
      BY <3>7, <3>8
  <2> QED
    BY <2>1, <2>2
<1>2. T \in G
  <2> HIDE DEF G
  <2> QED BY <1>1, SubsetInduction
<1>3. T \cap S = S
  OBVIOUS
<1> QED
  BY <1>2, <1>3

=============================================================================
