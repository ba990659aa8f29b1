------------------------- MODULE BuildSearchProofs -------------------------
(***************************************************************************)
(* The search keeps every build that can be bought, evaluates each prefix  *)
(* once, and scores a build by what the first prefixes of its keys came    *)
(* out as, whatever workers do.                                            *)
(***************************************************************************)
EXTENDS BuildSearchProperties, SumsOverSets, SequenceTheorems

-----------------------------------------------------------------------------
(* Finite sets of numbers *)

\* A finite set of integers has a least member.
LEMMA LeastInteger ==
  ASSUME NEW T, IsFiniteSet(T), T \subseteq Int, T # {}
  PROVE  \E x \in T : \A y \in T : x <= y
<1> DEFINE G == {U \in SUBSET T : U = {} \/ \E x \in U : \A y \in U : x <= y}
<1>1. ASSUME NEW U \in SUBSET T, \A V \in SUBSET U : V # U => V \in G
      PROVE  U \in G
  <2> SUFFICES ASSUME NEW u \in U PROVE \E x \in U : \A y \in U : x <= y
    OBVIOUS
  <2>1. U \ {u} \in G
    BY <1>1
  <2>2. CASE U \ {u} = {}
    <3>1. \A y \in U : y = u
      BY <2>2
    <3> QED
      BY <3>1
  <2>3. CASE U \ {u} # {}
    <3>1. PICK x \in U \ {u} : \A y \in U \ {u} : x <= y
      BY <2>1, <2>3
    <3> QED
      BY <3>1
  <2> QED
    BY <2>2, <2>3
<1> HIDE DEF G
<1>2. T \in G
  BY <1>1, SubsetInduction
<1> QED
  BY <1>2 DEF G

\* Induction up to n.
LEMMA UpTo ==
  ASSUME NEW n \in Nat, NEW K, 0 \in K, \A k \in 1..n : k - 1 \in K => k \in K
  PROVE  \A k \in 0..n : k \in K
<1> DEFINE Bad == (0..n) \ K
<1> SUFFICES ASSUME Bad # {} PROVE FALSE
  OBVIOUS
<1>1. Bad \subseteq Int /\ IsFiniteSet(Bad)
  <2>1. IsFiniteSet(0..n)
    BY FS_Interval
  <2>2. IsFiniteSet((0..n) \ K)
    BY <2>1, FS_Difference
  <2>3. (0..n) \ K \subseteq Int
    OBVIOUS
  <2> QED
    BY <2>2, <2>3
<1>2. PICK b \in Bad : \A k \in Bad : b <= k
  BY <1>1, LeastInteger
<1>3. b \in 1..n /\ b - 1 \in 0..n /\ b - 1 \notin Bad
  BY <1>2
<1> QED
  BY <1>2, <1>3

\* What a function takes a finite set to is finite.
LEMMA ImageFinite ==
  ASSUME NEW S, IsFiniteSet(S), NEW f
  PROVE  IsFiniteSet({f[x] : x \in S})
<1> DEFINE T == {f[x] : x \in S}
           g == [x \in S |-> f[x]]
<1>1. g \in Surjection(S, T)
  BY DEF Surjection
<1> QED
  BY <1>1, FS_Surjection

-----------------------------------------------------------------------------
(* The order of the search *)

LEMMA BeforeAsymmetric ==
  ASSUME NEW n \in Nat, NEW p \in [1..n -> Int], NEW q \in [1..n -> Int],
         Before(p, q), Before(q, p)
  PROVE  FALSE
<1>1. PICK k \in 1..n : p[k] < q[k] /\ \A j \in 1..k-1 : p[j] = q[j]
  BY DEF Before
<1>2. PICK m \in 1..n : q[m] < p[m] /\ \A j \in 1..m-1 : q[j] = p[j]
  BY DEF Before
<1>3. p[k] \in Int /\ q[k] \in Int /\ p[m] \in Int /\ q[m] \in Int
  BY <1>1, <1>2
<1>4. ~(k < m) /\ ~(m < k)
  BY <1>1, <1>2, <1>3
<1> QED
  BY <1>1, <1>2, <1>3, <1>4

\* A finite set of sequences of one length has a first one.
LEMMA LexLeast ==
  ASSUME NEW n \in Nat, NEW S, IsFiniteSet(S), S # {}, S \subseteq [1..n -> Int]
  PROVE  \E p \in S : \A q \in S : p = q \/ Before(p, q)
<1> DEFINE Leads(T, k) ==
             /\ T # {}
             /\ \A p, q \in T : \A j \in 1..k : p[j] = q[j]
             /\ \A p \in T : \A q \in S \ T : Before(p, q)
           K == {k \in 0..n : \E T \in SUBSET S : Leads(T, k)}
<1>1. 0 \in K
  <2>1. Leads(S, 0)
    OBVIOUS
  <2> QED
    BY <2>1
<1>2. ASSUME NEW k \in 1..n, k - 1 \in K
      PROVE  k \in K
  <2>1. PICK T \in SUBSET S : Leads(T, k - 1)
    BY <1>2
  <2> DEFINE at == [p \in T |-> p[k]]
             V == {at[p] : p \in T}
  <2>2. IsFiniteSet(V)
    <3>1. IsFiniteSet(T)
      BY FS_Subset
    <3> QED
      BY <3>1, ImageFinite
  <2>3. V \subseteq Int /\ V # {}
    <3>1. \A p \in T : p \in [1..n -> Int]
      OBVIOUS
    <3>2. \A p \in T : p[k] \in Int
      BY <3>1
    <3> QED
      BY <2>1, <3>2
  <2>4. PICK m \in V : \A v \in V : m <= v
    BY <2>2, <2>3, LeastInteger
  <2> DEFINE U == {p \in T : p[k] = m}
  <2>5. U # {} /\ U \in SUBSET S
    BY <2>4
  <2>6. \A p, q \in U : \A j \in 1..k : p[j] = q[j]
    BY <2>1
  <2>7. ASSUME NEW p \in U, NEW q \in S \ U
        PROVE  Before(p, q)
    <3>1. CASE q \notin T
      BY <2>1, <2>7, <3>1
    <3>2. CASE q \in T
      <4>1. p[k] = m /\ q[k] # m /\ m <= q[k] /\ q[k] \in Int /\ m \in Int
        BY <2>3, <2>4, <2>7, <3>2
      <4>2. \A j \in 1..k-1 : p[j] = q[j]
        BY <2>1, <2>7, <3>2
      <4>3. DOMAIN p = 1..n
        BY <2>7
      <4>4. p[k] < q[k] /\ k \in DOMAIN p
        BY <4>1, <4>3
      <4> HIDE DEF U, V, at, K
      <4> QED
        BY <4>2, <4>4, Zenon DEF Before
    <3> QED
      BY <3>1, <3>2
  <2> HIDE DEF U
  <2>8. Leads(U, k)
    BY <2>5, <2>6, <2>7
  <2>9. k \in 0..n
    OBVIOUS
  <2> HIDE DEF Leads
  <2> QED
    BY <2>5, <2>8, <2>9, ZenonT(30)
<1> HIDE DEF K
<1>3. n \in K
  BY SMTT(30), <1>1, <1>2, UpTo
<1>4. PICK T \in SUBSET S : Leads(T, n)
  BY <1>3 DEF K
<1>5. PICK p \in T : TRUE
  BY <1>4
<1>6. \A q \in T : p = q
  BY <1>4
<1> QED
  BY <1>4, <1>5, <1>6

\* A finite set of sequences of one length can be put in order.
LEMMA Sorted ==
  ASSUME NEW n \in Nat, NEW S, IsFiniteSet(S), S \subseteq [1..n -> Int]
  PROVE  \E s \in [1..Cardinality(S) -> S] :
           \A i, j \in DOMAIN s : i < j => Before(s[i], s[j])
<1> DEFINE Sorts(s, T) ==
             /\ s \in [1..Cardinality(T) -> T]
             /\ \A i, j \in 1..Cardinality(T) : i < j => Before(s[i], s[j])
           G == {T \in SUBSET S : \E s : Sorts(s, T)}
<1>1. ASSUME NEW T \in SUBSET S, \A U \in SUBSET T : U # T => U \in G
      PROVE  T \in G
  <2>1. CASE T = {}
    <3>1. Cardinality(T) = 0
      BY <2>1, FS_EmptySet
    <3>2. Sorts([i \in 1..0 |-> 0], T)
      BY <3>1
    <3> QED
      BY <3>2
  <2>2. CASE T # {}
    <3>1. IsFiniteSet(T) /\ Cardinality(T) \in Nat
      BY FS_Subset, FS_CardinalityType
    <3>2. PICK m \in T : \A q \in T : m = q \/ Before(m, q)
      BY <2>2, <3>1, LexLeast
    <3> DEFINE U == T \ {m}
               c == Cardinality(T)
    <3>3. IsFiniteSet(U) /\ Cardinality(U) = c - 1 /\ Cardinality(U) \in Nat
      BY <3>1, FS_RemoveElement, FS_CardinalityType
    <3>4. U \in G
      BY <1>1
    <3>5. PICK s : Sorts(s, U)
      BY <3>4
    <3> DEFINE t == [i \in 1..c |-> IF i = 1 THEN m ELSE s[i - 1]]
    <3>a. c \in Nat /\ Cardinality(U) = c - 1
      BY <3>1, <3>3
    <3>b. \A k \in 1..c - 1 : s[k] \in U
      BY <3>3, <3>5
    <3>c. \A i, j \in 1..c - 1 : i < j => Before(s[i], s[j])
      BY <3>3, <3>5
    <3> HIDE DEF c, U, G
    <3>6. \A i \in 1..c : i # 1 => i - 1 \in 1..c - 1 /\ s[i - 1] \in U
      BY <3>a, <3>b
    <3>7. t \in [1..c -> T]
      BY <3>6 DEF U
    <3>8. ASSUME NEW i \in 1..c, NEW j \in 1..c, i < j
          PROVE  Before(t[i], t[j])
      <4>1. j # 1 /\ t[j] = s[j - 1] /\ s[j - 1] \in U
        BY <3>6, <3>8
      <4>2. CASE i = 1
        BY <3>2, <4>1, <4>2 DEF U
      <4>3. CASE i # 1
        <5>1. i - 1 \in 1..c - 1 /\ j - 1 \in 1..c - 1 /\ i - 1 < j - 1
          BY <3>a, <3>6, <3>8, <4>1, <4>3
        <5>2. Before(s[i - 1], s[j - 1])
          BY <3>c, <5>1
        <5> QED
          BY <4>1, <4>3, <5>2
      <4> QED
        BY <4>2, <4>3
    <3>9. Sorts(t, T)
      BY <3>7, <3>8 DEF c
    <3> HIDE DEF Sorts
    <3> QED
      BY <3>9, Zenon DEF G
  <2> QED
    BY <2>1, <2>2
<1> HIDE DEF G
<1>2. S \in G
  BY <1>1, SubsetInduction
<1>3. PICK s : Sorts(s, S)
  BY <1>2 DEF G
<1>4. DOMAIN s = 1..Cardinality(S)
  BY <1>3
<1> QED
  BY <1>3, <1>4

-----------------------------------------------------------------------------
(* Paths *)

LEMMA CatalogTypes ==
  /\ Len(Catalog) \in Nat /\ Items \subseteq Nat /\ IsFiniteSet(Items)
  /\ \A i \in Items : Catalog[i] \in ItemDocument
<1>1. Len(Catalog) \in Nat /\ Catalog \in [1..Len(Catalog) -> ItemDocument]
  BY CatalogAssumption, LenProperties
<1>2. IsFiniteSet(1..Len(Catalog))
  BY <1>1, FS_Interval
<1> QED
  BY <1>1, <1>2 DEF Items

LEMMA PathTypes ==
  ASSUME NEW n \in Nat, NEW p \in [1..n -> Items]
  PROVE  /\ p \in Seq(Items) /\ p \in Seq(Int) /\ p \in [1..n -> Int]
         /\ Len(p) = n /\ DOMAIN p = 1..n
<1>1. p \in Seq(Items)
  BY SeqDef
<1>2. Len(p) = n
  BY <1>1, LenProperties
<1>3. Items \subseteq Int
  BY CatalogTypes
<1> QED
  BY <1>1, <1>2, <1>3, SeqMonotonic

LEMMA PathsOf == ASSUME NEW n \in 0..Cores, NEW p \in [1..n -> Items] PROVE p \in Paths
BY DEF Paths

LEMMA EmptyPath == [1..0 -> Items] = {<<>>}
<1>1. \A p \in [1..0 -> Items] : p = <<>>
  <2> SUFFICES ASSUME NEW p \in [1..0 -> Items] PROVE p = <<>>
    OBVIOUS
  <2>1. p \in Seq(Items) /\ Len(p) = 0
    BY PathTypes
  <2> QED
    BY <2>1, EmptySeq
<1>2. <<>> \in [1..0 -> Items]
  <2>1. <<>> \in Seq(Items) /\ Len(<<>>) = 0
    BY EmptySeq
  <2> QED
    BY <2>1, LenProperties
<1> QED
  BY <1>1, <1>2

LEMMA Prefix ==
  ASSUME NEW n \in Nat, NEW p \in [1..n -> Items], NEW c \in 0..n
  PROVE  /\ SubSeq(p, 1, c) \in [1..c -> Items]
         /\ \A i \in 1..c : SubSeq(p, 1, c)[i] = p[i]
<1>1. c \in Int /\ \A i \in 1..c : p[i] \in Items
  OBVIOUS
<1>2. /\ SubSeq(p, 1, c) \in Seq(Items)
      /\ Len(SubSeq(p, 1, c)) = IF 1 <= c THEN c - 1 + 1 ELSE 0
      /\ \A i \in 1..c-1+1 : SubSeq(p, 1, c)[i] = p[1+i-1]
  BY <1>1, SubSeqProperties
<1>3. Len(SubSeq(p, 1, c)) = c
  BY <1>2
<1>4. SubSeq(p, 1, c) \in [1..c -> Items]
  BY <1>2, <1>3, LenProperties
<1>5. ASSUME NEW i \in 1..c PROVE SubSeq(p, 1, c)[i] = p[i]
  <2>1. i \in 1..c-1+1 /\ 1+i-1 = i
    OBVIOUS
  <2> QED
    BY <1>2, <2>1
<1> QED
  BY <1>4, <1>5

LEMMA WholePrefix ==
  ASSUME NEW n \in Nat, NEW p \in [1..n -> Items]
  PROVE  SubSeq(p, 1, n) = p
BY PathTypes, SubSeqFull

\* The prefixes of paths that agree are the same.
LEMMA SamePrefix ==
  ASSUME NEW m \in Nat, NEW p \in [1..m -> Items], NEW n \in Nat, NEW q \in [1..n -> Items],
         NEW c \in 0..m, c <= n, \A i \in 1..c : p[i] = q[i]
  PROVE  SubSeq(p, 1, c) = SubSeq(q, 1, c)
<1>1. c \in 0..n
  OBVIOUS
<1>2. /\ SubSeq(p, 1, c) \in [1..c -> Items] /\ SubSeq(q, 1, c) \in [1..c -> Items]
      /\ \A i \in 1..c : SubSeq(p, 1, c)[i] = SubSeq(q, 1, c)[i]
  BY <1>1, Prefix
<1> QED
  BY <1>2

LEMMA PrefixOfPrefix ==
  ASSUME NEW n \in Nat, NEW p \in [1..n -> Items], NEW d \in 0..n, NEW c \in 0..d
  PROVE  SubSeq(SubSeq(p, 1, d), 1, c) = SubSeq(p, 1, c)
<1>1. d \in Nat /\ c \in 0..n /\ c <= n
  OBVIOUS
<1>2. SubSeq(p, 1, d) \in [1..d -> Items] /\ \A i \in 1..c : SubSeq(p, 1, d)[i] = p[i]
  BY Prefix
<1> QED
  BY <1>1, <1>2, SamePrefix

LEMMA Extended ==
  ASSUME NEW n \in Nat, NEW p \in [1..n -> Items], NEW i \in Items
  PROVE  /\ Append(p, i) \in [1..n+1 -> Items]
         /\ Append(p, i)[n+1] = i
         /\ \A c \in 1..n : Append(p, i)[c] = p[c]
         /\ SubSeq(Append(p, i), 1, n) = p
<1>1. p \in Seq(Items) /\ Len(p) = n
  BY PathTypes
<1>2. /\ Append(p, i) \in Seq(Items) /\ Len(Append(p, i)) = n + 1
      /\ Append(p, i)[n+1] = i /\ \A c \in 1..n : Append(p, i)[c] = p[c]
  BY <1>1, AppendProperties
<1>3. Append(p, i) \in [1..n+1 -> Items]
  BY <1>2, LenProperties
<1>4. SubSeq(Append(p, i), 1, n) = SubSeq(p, 1, n)
  <2>1. n + 1 \in Nat /\ n \in 0..n+1 /\ n <= n
    OBVIOUS
  <2> QED
    BY <1>2, <1>3, <2>1, SamePrefix
<1> QED
  BY <1>2, <1>3, <1>4, WholePrefix

\* A path is its longest proper prefix and its last item.
LEMMA Splits ==
  ASSUME NEW n \in Nat, NEW p \in [1..n+1 -> Items]
  PROVE  /\ SubSeq(p, 1, n) \in [1..n -> Items] /\ p[n+1] \in Items
         /\ p = Append(SubSeq(p, 1, n), p[n+1])
<1> DEFINE q == SubSeq(p, 1, n)
<1>1. q \in [1..n -> Items] /\ \A c \in 1..n : q[c] = p[c]
  BY Prefix
<1>2. p[n+1] \in Items
  OBVIOUS
<1> HIDE DEF q
<1>3. /\ Append(q, p[n+1]) \in [1..n+1 -> Items]
      /\ Append(q, p[n+1])[n+1] = p[n+1]
      /\ \A c \in 1..n : Append(q, p[n+1])[c] = q[c]
  BY <1>1, <1>2, Extended
<1>4. ASSUME NEW c \in 1..n+1 PROVE Append(q, p[n+1])[c] = p[c]
  <2>1. c = n + 1 \/ c \in 1..n
    OBVIOUS
  <2> QED
    BY <1>1, <1>3, <2>1
<1>5. Append(q, p[n+1]) = p
  BY <1>3, <1>4
<1> QED
  BY <1>1, <1>2, <1>5 DEF q

LEMMA PathsFinite == ASSUME NEW n \in Nat PROVE IsFiniteSet([1..n -> Items])
<1> DEFINE K == {k \in 0..n : IsFiniteSet([1..k -> Items])}
<1>1. 0 \in K
  <2>1. IsFiniteSet({<<>>})
    BY FS_Singleton
  <2>2. IsFiniteSet([1..0 -> Items])
    BY <2>1, EmptyPath
  <2> QED
    BY <2>2
<1>2. ASSUME NEW k \in 1..n, k - 1 \in K
      PROVE  k \in K
  <2> DEFINE m == k - 1
             g == [x \in [1..m -> Items] \X Items |-> Append(x[1], x[2])]
  <2>1. m \in Nat /\ m + 1 = k /\ IsFiniteSet([1..m -> Items])
    BY <1>2
  <2>2. IsFiniteSet([1..m -> Items] \X Items)
    BY <2>1, CatalogTypes, FS_Product
  <2> HIDE DEF m
  <2>3. g \in [[1..m -> Items] \X Items -> [1..k -> Items]]
    BY <2>1, Extended
  <2>4. ASSUME NEW p \in [1..k -> Items]
        PROVE  \E x \in [1..m -> Items] \X Items : g[x] = p
    <3>1. /\ SubSeq(p, 1, m) \in [1..m -> Items] /\ p[k] \in Items
          /\ p = Append(SubSeq(p, 1, m), p[k])
      BY <2>1, Splits
    <3>2. <<SubSeq(p, 1, m), p[k]>> \in [1..m -> Items] \X Items
      BY <3>1
    <3>3. g[<<SubSeq(p, 1, m), p[k]>>] = p
      BY <3>1, <3>2
    <3> QED
      BY <3>2, <3>3
  <2> HIDE DEF g
  <2>5. g \in Surjection([1..m -> Items] \X Items, [1..k -> Items])
    BY <2>3, <2>4 DEF Surjection
  <2>6. IsFiniteSet([1..k -> Items])
    BY <2>2, <2>5, FS_Surjection
  <2> QED
    BY <2>6
<1> HIDE DEF K
<1>3. n \in K
  BY <1>1, <1>2, UpTo
<1> QED
  BY <1>3 DEF K

\* First is the first.
LEMMA FirstOf ==
  ASSUME NEW n \in Nat, NEW S, S # {}, S \subseteq [1..n -> Items]
  PROVE  First(S) \in S /\ \A q \in S : First(S) = q \/ Before(First(S), q)
<1>1. IsFiniteSet(S)
  BY PathsFinite, FS_Subset
<1>2. S \subseteq [1..n -> Int]
  BY PathTypes
<1>3. \E p \in S : \A q \in S : p = q \/ Before(p, q)
  BY <1>1, <1>2, LexLeast
<1> QED
  BY <1>3 DEF First

LEMMA FirstIsUnique ==
  ASSUME NEW n \in Nat, NEW S, S \subseteq [1..n -> Items],
         NEW p \in S, \A q \in S : p = q \/ Before(p, q)
  PROVE  p = First(S)
<1>1. First(S) \in S /\ \A q \in S : First(S) = q \/ Before(First(S), q)
  BY FirstOf
<1>2. p \in [1..n -> Int] /\ First(S) \in [1..n -> Int]
  BY <1>1, PathTypes
<1> QED
  BY <1>1, <1>2, BeforeAsymmetric

-----------------------------------------------------------------------------
(* Legality *)

LEMMA GoldInNat ==
  ASSUME NEW n \in Nat, NEW p \in [1..n -> Items]
  PROVE  Gold(p) \in Nat
<1> DEFINE f == [c \in DOMAIN p |-> Catalog[p[c]].cost]
<1>1. DOMAIN p = 1..n /\ IsFiniteSet(1..n)
  BY FS_Interval
<1>2. \A c \in DOMAIN p : f[c] \in Nat
  BY CatalogTypes DEF ItemDocument
<1> HIDE DEF f
<1>3. SumFunctionOnSet(f, DOMAIN p) \in Nat
  BY <1>1, <1>2, SumNat
<1> QED
  BY <1>3 DEF Gold, f

\* The paths of n items that can be bought.
LegalPaths(n) ==
  {p \in [1..n -> Items] :
     /\ \A c, d \in 1..n : c # d => p[c] # p[d]
     /\ \A c \in 1..n : ~Catalog[p[c]].blocked
     /\ PathIsLegal(p)}

\* What can be bought could be bought up to each item.
LEMMA LegalPrefix ==
  ASSUME NEW n \in Nat, NEW p \in LegalPaths(n), NEW c \in 0..n
  PROVE  SubSeq(p, 1, c) \in LegalPaths(c)
<1> DEFINE q == SubSeq(p, 1, c)
<1>1. p \in [1..n -> Items] /\ PathIsLegal(p)
  BY DEF LegalPaths
<1>2. q \in [1..c -> Items] /\ \A i \in 1..c : q[i] = p[i]
  BY <1>1, Prefix
<1>3. DOMAIN p = 1..n /\ DOMAIN q = 1..c /\ \A i \in 1..c : i \in 1..n /\ i \in 0..c
  BY <1>1, <1>2
<1>4. \A i \in 1..c : SubSeq(q, 1, i) = SubSeq(p, 1, i)
  BY <1>1, <1>3, PrefixOfPrefix
<1> HIDE DEF q
<1>5. \A i \in DOMAIN q : Gold(SubSeq(q, 1, i)) <= budgets[i]
  BY <1>1, <1>3, <1>4 DEF PathIsLegal
<1>6. Compatible(q)
  BY <1>1, <1>2, <1>3 DEF PathIsLegal, Compatible
<1>7. PathIsLegal(q)
  BY <1>5, <1>6 DEF PathIsLegal
<1>8. \A i, j \in 1..c : i # j => q[i] # q[j]
  BY <1>2, <1>3 DEF LegalPaths
<1>9. \A i \in 1..c : ~Catalog[q[i]].blocked
  BY <1>2, <1>3 DEF LegalPaths
<1> QED
  BY <1>2, <1>7, <1>8, <1>9 DEF LegalPaths, q

LEMMA LegalEmpty == LegalPaths(0) = {<<>>}
<1>1. <<>> \in [1..0 -> Items] /\ DOMAIN <<>> = {}
  BY EmptyPath
<1>2. PathIsLegal(<<>>)
  BY <1>1 DEF PathIsLegal, Compatible
<1>3. <<>> \in LegalPaths(0)
  BY <1>1, <1>2 DEF LegalPaths
<1> QED
  BY <1>3, EmptyPath DEF LegalPaths

\* One core more: the filters of a core ask of an extension what is asked of a
\* whole path.
LEMMA LegalExtension ==
  ASSUME NEW n \in Nat, NEW p \in LegalPaths(n), NEW i \in Items,
         LET q == Append(p, i)
         IN  /\ ~Catalog[q[n+1]].blocked /\ \A c \in 1..n : q[c] # q[n+1]
             /\ Gold(q) <= budgets[n+1] /\ Compatible(q)
  PROVE  Append(p, i) \in LegalPaths(n+1)
<1> DEFINE q == Append(p, i)
<1>1. p \in [1..n -> Items] /\ PathIsLegal(p)
  BY DEF LegalPaths
<1>2. /\ q \in [1..n+1 -> Items] /\ SubSeq(q, 1, n) = p
      /\ \A c \in 1..n : q[c] = p[c]
  BY <1>1, Extended
<1>3. /\ ~Catalog[q[n+1]].blocked /\ \A c \in 1..n : q[c] # q[n+1]
      /\ Gold(q) <= budgets[n+1] /\ Compatible(q)
  OBVIOUS
<1> HIDE DEF q
<1>4. DOMAIN q = 1..n+1 /\ DOMAIN p = 1..n
  BY <1>1, <1>2
<1>5. ASSUME NEW c \in 1..n+1 PROVE Gold(SubSeq(q, 1, c)) <= budgets[c]
  <2>1. CASE c = n + 1
    <3>1. SubSeq(q, 1, c) = q
      BY <1>2, <2>1, WholePrefix
    <3> QED
      BY <1>3, <2>1, <3>1
  <2>2. CASE c # n + 1
    <3>1. c \in 1..n /\ c \in 0..n /\ n \in 0..n+1 /\ n + 1 \in Nat
      BY <2>2
    <3>2. SubSeq(q, 1, c) = SubSeq(p, 1, c)
      BY <1>2, <3>1, PrefixOfPrefix
    <3> QED
      BY <1>1, <1>4, <3>1, <3>2 DEF PathIsLegal
  <2> QED
    BY <2>1, <2>2
<1>6. PathIsLegal(q)
  BY <1>3, <1>4, <1>5 DEF PathIsLegal
<1>7. ASSUME NEW c \in 1..n+1, NEW d \in 1..n+1, c # d PROVE q[c] # q[d]
  <2>1. CASE c \in 1..n /\ d \in 1..n
    BY <1>2, <1>7, <2>1 DEF LegalPaths
  <2>2. CASE c = n + 1 \/ d = n + 1
    <3>1. (c = n + 1 /\ d \in 1..n) \/ (d = n + 1 /\ c \in 1..n)
      BY <1>7, <2>2
    <3> QED
      BY <1>3, <3>1
  <2> QED
    BY <2>1, <2>2
<1>8. ASSUME NEW c \in 1..n+1 PROVE ~Catalog[q[c]].blocked
  <2>1. CASE c \in 1..n
    BY <1>2, <2>1 DEF LegalPaths
  <2>2. CASE c = n + 1
    BY <1>3, <2>2
  <2> QED
    BY <2>1, <2>2
<1> QED
  BY <1>2, <1>6, <1>7, <1>8 DEF LegalPaths, q

\* The filters of a core let through exactly the paths that can be bought.
LEMMA ExpansionsAreLegal ==
  ASSUME core \in Nat \ {0}, DOMAIN states = LegalPaths(core - 1)
  PROVE  Expansions = LegalPaths(core)
<1> DEFINE n == core - 1
<1>1. n \in Nat /\ n + 1 = core /\ DOMAIN states = LegalPaths(n) /\ core - 1 = n
  OBVIOUS
<1> HIDE DEF n
<1>2. ASSUME NEW q \in Expansions PROVE q \in LegalPaths(core)
  <2>1. PICK p \in LegalPaths(n), i \in Items : q = Append(p, i)
    BY <1>1 DEF Expansions
  <2>2. /\ ~Catalog[q[n+1]].blocked /\ \A c \in 1..n : q[c] # q[n+1]
        /\ Gold(q) <= budgets[n+1] /\ Compatible(q)
    BY <1>1 DEF Expansions
  <2> QED
    BY <1>1, <2>1, <2>2, LegalExtension
<1>3. ASSUME NEW q \in LegalPaths(core) PROVE q \in Expansions
  <2>1. q \in [1..n+1 -> Items] /\ PathIsLegal(q) /\ DOMAIN q = 1..n+1
    BY <1>1 DEF LegalPaths
  <2>2. q[n+1] \in Items /\ q = Append(SubSeq(q, 1, n), q[n+1])
    BY <1>1, <2>1, Splits
  <2>3. SubSeq(q, 1, n) \in LegalPaths(n)
    <3>1. n \in 0..core /\ core \in Nat
      BY <1>1
    <3> QED
      BY <3>1, LegalPrefix
  <2>4. n + 1 \in 1..n+1 /\ SubSeq(q, 1, n + 1) = q
    BY <1>1, <2>1, WholePrefix
  <2>5. Gold(q) <= budgets[n+1] /\ Compatible(q)
    BY <2>1, <2>4 DEF PathIsLegal
  <2>6. ~Catalog[q[n+1]].blocked /\ \A c \in 1..n : q[c] # q[n+1]
    BY <1>1, <2>4 DEF LegalPaths
  <2>7. \E p \in DOMAIN states, i \in Items : q = Append(p, i)
    <3>1. SubSeq(q, 1, n) \in DOMAIN states
      BY <1>1, <2>3
    <3> QED
      BY <2>2, <3>1, Zenon
  <2>8. /\ ~Catalog[q[core]].blocked /\ \A c \in 1..core-1 : q[c] # q[core]
        /\ Gold(q) <= budgets[core] /\ Compatible(q)
    BY <1>1, <2>5, <2>6
  <2>9. q \in {Append(p, i) : p \in DOMAIN states, i \in Items}
    BY <2>7
  <2> QED
    BY <2>8, <2>9 DEF Expansions
<1> QED
  BY <1>2, <1>3

LEMMA OwnedSize ==
  ASSUME NEW n \in Nat, NEW p \in [1..n -> Items]
  PROVE  Cardinality(Owned(p)) = n <=> \A c, d \in 1..n : c # d => p[c] # p[d]
<1>1. DOMAIN p = 1..n /\ IsFiniteSet(1..n) /\ Cardinality(1..n) = n
  BY FS_Interval
<1>2. p \in Surjection(1..n, Owned(p))
  BY <1>1 DEF Surjection, Owned
<1>3. Cardinality(Owned(p)) = n <=> p \in Injection(1..n, Owned(p))
  BY <1>1, <1>2, FS_Surjection
<1>4. p \in [1..n -> Owned(p)]
  BY <1>2 DEF Surjection
<1> QED
  BY <1>1, <1>3, <1>4 DEF Injection, IsInjective

LEMMA LegalBuildsArePaths == Cores \in Nat => LegalBuilds = LegalPaths(Cores)
BY OwnedSize DEF LegalBuilds, LegalPaths

\* A key tells how many items were bought, and which.
LEMMA SameKey ==
  ASSUME NEW m \in Nat, NEW p \in LegalPaths(m), NEW n \in Nat, NEW q \in [1..n -> Items],
         Key(q) = Key(p)
  PROVE  /\ Owned(q) = Owned(p)
         /\ q \in LegalPaths(n) => n = m
<1>1. p \in [1..m -> Items] /\ DOMAIN p = 1..m /\ DOMAIN q = 1..n
  BY DEF LegalPaths
<1>2. /\ (Key(p).order = p /\ p # <<>>) \/ (Key(p).order = <<>> /\ Key(p).items = Owned(p))
      /\ (Key(q).order = q /\ q # <<>>) \/ (Key(q).order = <<>> /\ Key(q).items = Owned(q))
  BY <1>1, EmptySeq DEF Key
<1>3. Owned(q) = Owned(p)
  <2>1. CASE Key(p).order = <<>>
    BY <1>2, <2>1
  <2>2. CASE Key(p).order # <<>>
    <3>1. q = p
      BY <1>2, <2>2
    <3> QED
      BY <3>1
  <2> QED
    BY <2>1, <2>2
<1>4. ASSUME q \in LegalPaths(n) PROVE n = m
  BY <1>1, <1>3, <1>4, OwnedSize DEF LegalPaths
<1> QED
  BY <1>3, <1>4

-----------------------------------------------------------------------------
(* The path that is evaluated for a key *)

\* p is the first of the paths of n items with its key.
Stands(n, p) ==
  /\ p \in LegalPaths(n)
  /\ \A q \in LegalPaths(n) : Key(q) = Key(p) => p = q \/ Before(p, q)

LEMMA StandsOnce ==
  ASSUME NEW m \in Nat, NEW p, Stands(m, p), NEW n \in Nat, NEW q, Stands(n, q),
         Key(p) = Key(q)
  PROVE  p = q
<1>1. p \in LegalPaths(m) /\ q \in LegalPaths(n) /\ q \in [1..n -> Items]
  BY DEF Stands, LegalPaths
<1>2. m = n
  BY <1>1, SameKey
<1>3. (p = q \/ Before(p, q)) /\ (q = p \/ Before(q, p))
  BY <1>1, <1>2 DEF Stands
<1>4. p \in [1..n -> Int] /\ q \in [1..n -> Int]
  BY <1>1, <1>2, PathTypes DEF LegalPaths
<1> QED
  BY <1>3, <1>4, BeforeAsymmetric

LEMMA StandsForOthers ==
  ASSUME NEW n \in Nat, NEW p, Stands(n, p), NEW q \in LegalPaths(n), Key(p) = Key(q)
  PROVE  Representative(q) = p
<1> DEFINE S == {r \in [1..n -> Items] :
                   /\ Key(r) = Key(q)
                   /\ \A c \in 1..n : ~Catalog[r[c]].blocked
                   /\ PathIsLegal(r)}
           R == {r \in [1..Len(q) -> Items] :
                   /\ Key(r) = Key(q)
                   /\ \A c \in DOMAIN r : ~Catalog[r[c]].blocked
                   /\ PathIsLegal(r)}
<1>1. q \in [1..n -> Items] /\ Len(q) = n
  BY PathTypes DEF LegalPaths
<1>2. R = S
  <2>1. \A r \in [1..n -> Items] : DOMAIN r = 1..n
    OBVIOUS
  <2> QED
    BY <1>1, <2>1
<1>3. Representative(q) = First(S)
  BY <1>2 DEF Representative
<1>4. ASSUME NEW r \in S PROVE r \in LegalPaths(n)
  <2>1. Owned(r) = Owned(q)
    BY SameKey
  <2>2. Cardinality(Owned(r)) = n
    BY <1>1, <2>1, OwnedSize DEF LegalPaths
  <2>3. \A c, d \in 1..n : c # d => r[c] # r[d]
    BY <2>2, OwnedSize
  <2> QED
    BY <2>3 DEF LegalPaths
<1>5. p \in S /\ S \subseteq [1..n -> Items]
  BY DEF Stands, LegalPaths
<1>6. \A r \in S : p = r \/ Before(p, r)
  BY <1>4 DEF Stands
<1> HIDE DEF S
<1> QED
  BY <1>3, <1>5, <1>6, FirstIsUnique

-----------------------------------------------------------------------------
(* Scores *)

LEMMA StageTypes ==
  /\ Cores \in Nat \ {0} /\ Workers \in Nat \ {0}
  /\ \A c \in 1..Cores : /\ StageWeights[c] \in Nat
                         /\ Outcomes[c] \subseteq StageRecord /\ Outcomes[c] # {}
BY SearchAssumption

\* A sum of one term more.
LEMMA SumExtended ==
  ASSUME NEW n \in Nat, NEW f, NEW g, \A c \in 1..n : f[c] = g[c],
         \A c \in 1..n+1 : g[c] \in Int
  PROVE  SumFunctionOnSet(g, 1..n+1) = SumFunctionOnSet(f, 1..n) + g[n+1]
<1>1. 1..n+1 = 1..n \cup {n+1} /\ n + 1 \notin 1..n
  OBVIOUS
<1>2. IsFiniteSet(1..n)
  BY FS_Interval
<1>3. SumFunctionOnSet(f, 1..n) = SumFunctionOnSet(g, 1..n)
  BY ZenonT(30), <1>2, SumSame
<1>4. SumFunctionOnSet(g, 1..n \cup {n+1}) = SumFunctionOnSet(g, 1..n) + g[n+1]
  BY ZenonT(30), <1>1, <1>2, SumAdd
<1> QED
  BY <1>1, <1>3, <1>4

\* A score depends on no entry of the cache but those of the path's prefixes.
LEMMA ScoreStable ==
  ASSUME NEW n \in Nat, NEW p \in [1..n -> Items], NEW m, NEW m2,
         \A c \in 1..n : m[Key(SubSeq(p, 1, c))] = m2[Key(SubSeq(p, 1, c))]
  PROVE  ScoreOf(p, m) = ScoreOf(p, m2)
<1>1. DOMAIN p = 1..n
  OBVIOUS
<1>2. [c \in DOMAIN p |-> m[Key(SubSeq(p, 1, c))].damage * StageWeights[c]]
    = [c \in DOMAIN p |-> m2[Key(SubSeq(p, 1, c))].damage * StageWeights[c]]
  BY <1>1
<1>3. [c \in DOMAIN p |-> m[Key(SubSeq(p, 1, c))].durability * StageWeights[c]]
    = [c \in DOMAIN p |-> m2[Key(SubSeq(p, 1, c))].durability * StageWeights[c]]
  BY <1>1
<1>4. (\A c \in DOMAIN p : m[Key(SubSeq(p, 1, c))].ready)
    = (\A c \in DOMAIN p : m2[Key(SubSeq(p, 1, c))].ready)
  BY <1>1
<1> QED
  BY <1>2, <1>3, <1>4, Zenon DEF ScoreOf

\* The terms of a score.
Damages(p, m) == [c \in DOMAIN p |-> m[Key(SubSeq(p, 1, c))].damage * StageWeights[c]]
Durabilities(p, m) ==
  [c \in DOMAIN p |-> m[Key(SubSeq(p, 1, c))].durability * StageWeights[c]]
Golds(p) == [c \in DOMAIN p |-> Gold(SubSeq(p, 1, c)) * StageWeights[c]]

LEMMA ScoreTerms ==
  ASSUME NEW p, NEW m
  PROVE  ScoreOf(p, m) =
           [ damage |-> SumFunctionOnSet(Damages(p, m), DOMAIN p),
             durability |-> SumFunctionOnSet(Durabilities(p, m), DOMAIN p),
             gold |-> SumFunctionOnSet(Golds(p), DOMAIN p),
             total |-> Gold(p),
             ready |-> \A c \in DOMAIN p : m[Key(SubSeq(p, 1, c))].ready ]
BY Zenon DEF ScoreOf, Damages, Durabilities, Golds

LEMMA TermsInNat ==
  ASSUME NEW n \in 0..Cores, NEW p \in [1..n -> Items], NEW m,
         \A c \in 1..n : m[Key(SubSeq(p, 1, c))] \in StageRecord
  PROVE  \A c \in 1..n : /\ Damages(p, m)[c] \in Nat /\ Durabilities(p, m)[c] \in Nat
                         /\ Golds(p)[c] \in Nat
<1> SUFFICES ASSUME NEW c \in 1..n
             PROVE  /\ Damages(p, m)[c] \in Nat /\ Durabilities(p, m)[c] \in Nat
                    /\ Golds(p)[c] \in Nat
  OBVIOUS
<1>1. DOMAIN p = 1..n /\ StageWeights[c] \in Nat
  BY StageTypes
<1>2. Gold(SubSeq(p, 1, c)) \in Nat
  <2>1. n \in Nat /\ c \in 0..n /\ c \in Nat
    BY StageTypes
  <2> QED
    BY <2>1, Prefix, GoldInNat
<1>3. m[Key(SubSeq(p, 1, c))].damage \in Nat /\ m[Key(SubSeq(p, 1, c))].durability \in Nat
  BY DEF StageRecord
<1>4. \A x, y \in Nat : x * y \in Nat
  OBVIOUS
<1> QED
  BY <1>1, <1>2, <1>3, <1>4 DEF Damages, Durabilities, Golds

LEMMA ScoreInMetrics ==
  ASSUME NEW n \in 0..Cores, NEW p \in [1..n -> Items], NEW m,
         \A c \in 1..n : m[Key(SubSeq(p, 1, c))] \in StageRecord
  PROVE  ScoreOf(p, m) \in Metrics
<1>1. DOMAIN p = 1..n /\ n \in Nat /\ IsFiniteSet(1..n)
  BY StageTypes, FS_Interval
<1>2. /\ SumFunctionOnSet(Damages(p, m), 1..n) \in Nat
      /\ SumFunctionOnSet(Durabilities(p, m), 1..n) \in Nat
      /\ SumFunctionOnSet(Golds(p), 1..n) \in Nat
  BY <1>1, TermsInNat, SumNat
<1>3. Gold(p) \in Nat
  BY <1>1, GoldInNat
<1> QED
  BY <1>1, <1>2, <1>3, ScoreTerms DEF Metrics

\* Scoring a path whole is accumulating its stages.
LEMMA ScoreExtended ==
  ASSUME NEW n \in Nat, n + 1 <= Cores, NEW p \in [1..n+1 -> Items], NEW m,
         \A c \in 1..n+1 : m[Key(SubSeq(p, 1, c))] \in StageRecord
  PROVE  ScoreOf(p, m) = Accumulated(ScoreOf(SubSeq(p, 1, n), m), m[Key(p)], n+1, Gold(p))
<1> DEFINE q == SubSeq(p, 1, n)
<1>1. q \in [1..n -> Items] /\ SubSeq(p, 1, n+1) = p
  BY Prefix, WholePrefix
<1>2. \A c \in 1..n : SubSeq(q, 1, c) = SubSeq(p, 1, c)
  <2> SUFFICES ASSUME NEW c \in 1..n PROVE SubSeq(q, 1, c) = SubSeq(p, 1, c)
    OBVIOUS
  <2>1. n + 1 \in Nat /\ n \in 0..n+1 /\ c \in 0..n
    OBVIOUS
  <2> QED
    BY <2>1, PrefixOfPrefix
<1> HIDE DEF q
<1>3. DOMAIN p = 1..n+1 /\ DOMAIN q = 1..n /\ \A c \in 1..n : c \in 1..n+1
  BY <1>1
<1>4. n + 1 \in 0..Cores /\ n + 1 \in 1..n+1
  BY StageTypes
<1>5. \A c \in 1..n : /\ Damages(q, m)[c] = Damages(p, m)[c]
                      /\ Durabilities(q, m)[c] = Durabilities(p, m)[c]
                      /\ Golds(q)[c] = Golds(p)[c]
  <2>1. \A c \in 1..n : Damages(q, m)[c] = Damages(p, m)[c]
    BY <1>2, <1>3 DEF Damages
  <2>2. \A c \in 1..n : Durabilities(q, m)[c] = Durabilities(p, m)[c]
    BY <1>2, <1>3 DEF Durabilities
  <2>3. \A c \in 1..n : Golds(q)[c] = Golds(p)[c]
    BY <1>2, <1>3 DEF Golds
  <2> QED
    BY <2>1, <2>2, <2>3
<1>6. \A c \in 1..n+1 : /\ Damages(p, m)[c] \in Int /\ Durabilities(p, m)[c] \in Int
                        /\ Golds(p)[c] \in Int
  BY SMTT(30), <1>4, TermsInNat
<1>7. /\ SumFunctionOnSet(Damages(p, m), 1..n+1)
           = SumFunctionOnSet(Damages(q, m), 1..n) + Damages(p, m)[n+1]
      /\ SumFunctionOnSet(Durabilities(p, m), 1..n+1)
           = SumFunctionOnSet(Durabilities(q, m), 1..n) + Durabilities(p, m)[n+1]
      /\ SumFunctionOnSet(Golds(p), 1..n+1)
           = SumFunctionOnSet(Golds(q), 1..n) + Golds(p)[n+1]
  BY <1>5, <1>6, SumExtended
<1>8. /\ Damages(p, m)[n+1] = m[Key(p)].damage * StageWeights[n+1]
      /\ Durabilities(p, m)[n+1] = m[Key(p)].durability * StageWeights[n+1]
      /\ Golds(p)[n+1] = Gold(p) * StageWeights[n+1]
  BY <1>1, <1>3, <1>4 DEF Damages, Durabilities, Golds
<1>9. (\A c \in DOMAIN p : m[Key(SubSeq(p, 1, c))].ready)
    = ((\A c \in DOMAIN q : m[Key(SubSeq(q, 1, c))].ready) /\ m[Key(p)].ready)
  <2>1. \A c \in 1..n+1 : c \in 1..n \/ c = n + 1
    OBVIOUS
  <2>2. (\A c \in 1..n+1 : m[Key(SubSeq(p, 1, c))].ready)
      <=> (\A c \in 1..n : m[Key(SubSeq(p, 1, c))].ready) /\ m[Key(SubSeq(p, 1, n+1))].ready
    BY <1>3, <1>4, <2>1
  <2> QED
    BY <1>1, <1>2, <1>3, <2>2
<1>10. /\ ScoreOf(q, m).damage = SumFunctionOnSet(Damages(q, m), 1..n)
       /\ ScoreOf(q, m).durability = SumFunctionOnSet(Durabilities(q, m), 1..n)
       /\ ScoreOf(q, m).gold = SumFunctionOnSet(Golds(q), 1..n)
       /\ ScoreOf(q, m).ready = \A c \in DOMAIN q : m[Key(SubSeq(q, 1, c))].ready
  BY <1>3, ScoreTerms
<1>11. ScoreOf(p, m) =
         [ damage |-> SumFunctionOnSet(Damages(p, m), 1..n+1),
           durability |-> SumFunctionOnSet(Durabilities(p, m), 1..n+1),
           gold |-> SumFunctionOnSet(Golds(p), 1..n+1),
           total |-> Gold(p),
           ready |-> \A c \in DOMAIN p : m[Key(SubSeq(p, 1, c))].ready ]
  BY <1>3, ScoreTerms
<1> QED
  BY <1>7, <1>8, <1>9, <1>10, <1>11, Zenon DEF Accumulated, q

LEMMA ScoreEmpty == ASSUME NEW m PROVE ScoreOf(<<>>, m) = NoMetrics
<1>1. DOMAIN <<>> = {}
  BY EmptyPath
<1>2. Gold(<<>>) = 0
  BY <1>1, SumEmpty DEF Gold
<1> QED
  BY <1>1, <1>2, SumEmpty, ScoreTerms DEF NoMetrics

\* A score from a cache that holds what the first prefixes came out as.
LEMMA ScoreIsReference ==
  ASSUME NEW p \in [1..Cores -> Items], NEW m,
         \A c \in 1..Cores : m[Key(SubSeq(p, 1, c))] = outcome[Representative(SubSeq(p, 1, c))]
  PROVE  ScoreOf(p, m) = ReferenceScore(p)
<1>1. DOMAIN p = 1..Cores
  OBVIOUS
<1> DEFINE at(c) == outcome[Representative(SubSeq(p, 1, c))]
<1>2. Damages(p, m) = [c \in 1..Cores |-> at(c).damage * StageWeights[c]]
  BY <1>1 DEF Damages
<1>3. Durabilities(p, m) = [c \in 1..Cores |-> at(c).durability * StageWeights[c]]
  BY <1>1 DEF Durabilities
<1>4. Golds(p) = [c \in 1..Cores |-> Gold(SubSeq(p, 1, c)) * StageWeights[c]]
  BY <1>1 DEF Golds
<1>5. (\A c \in DOMAIN p : m[Key(SubSeq(p, 1, c))].ready) = (\A c \in 1..Cores : at(c).ready)
  BY <1>1
<1>6. ScoreOf(p, m) =
        [ damage |-> SumFunctionOnSet(Damages(p, m), 1..Cores),
          durability |-> SumFunctionOnSet(Durabilities(p, m), 1..Cores),
          gold |-> SumFunctionOnSet(Golds(p), 1..Cores),
          total |-> Gold(p),
          ready |-> \A c \in DOMAIN p : m[Key(SubSeq(p, 1, c))].ready ]
  BY <1>1, ScoreTerms
<1> QED
  BY <1>2, <1>3, <1>4, <1>5, <1>6, Zenon DEF ReferenceScore

-----------------------------------------------------------------------------
(* Choices *)

BranchNames == {"DEFAULT", "OFFENSE", "DEFENSE"}

\* The metrics that a branch ranks by first.
Lead(b, s) ==
  CASE b = "DEFAULT" -> <<-s.damage, -s.durability>>
    [] b = "OFFENSE" -> <<-s.damage>>
    [] b = "DEFENSE" -> <<-s.durability>>

LeadLength(b) == IF b = "DEFAULT" THEN 2 ELSE 1

LEMMA RankTypes ==
  ASSUME NEW b \in BranchNames, NEW n \in Nat, NEW p \in [1..n -> Items],
         NEW s \in Metrics
  PROVE  /\ Rank(b, p, s) \in [1..LeadLength(b) + 2 + n -> Int]
         /\ \A i \in 1..n : Rank(b, p, s)[LeadLength(b) + 2 + i] = p[i]
<1> DEFINE a == Lead(b, s)
           g == <<s.gold, s.total>>
           l == LeadLength(b)
<1>1. a \in Seq(Int) /\ Len(a) = l
  <2>1. -s.damage \in Int /\ -s.durability \in Int
    BY DEF Metrics
  <2>2. CASE b = "DEFAULT"
    BY <2>1, <2>2 DEF Lead, LeadLength
  <2>3. CASE b = "OFFENSE"
    BY <2>1, <2>3 DEF Lead, LeadLength
  <2>4. CASE b = "DEFENSE"
    BY <2>1, <2>4 DEF Lead, LeadLength
  <2> QED
    BY <2>2, <2>3, <2>4 DEF BranchNames
<1>2. g \in Seq(Int) /\ Len(g) = 2
  BY DEF Metrics
<1>3. p \in Seq(Int) /\ Len(p) = n
  BY PathTypes
<1>4. l \in Nat
  BY DEF LeadLength
<1>5. Rank(b, p, s) = (a \o g) \o p
  BY DEF Rank, Lead
<1> HIDE DEF a, g, l
<1> DEFINE h == a \o g
<1>6. h \in Seq(Int) /\ Len(h) = l + 2
  <2>1. h \in Seq(Int) /\ Len(h) = Len(a) + Len(g)
    BY <1>1, <1>2, ConcatProperties, Zenon
  <2> QED
    BY <1>1, <1>2, <2>1
<1> HIDE DEF h
<1> DEFINE k == h \o p
<1>7. /\ k \in Seq(Int) /\ Len(k) = l + 2 + n
      /\ \A i \in 1..l+2+n : ~(i <= l + 2) => k[i] = p[i - (l + 2)]
  <2>1. /\ k \in Seq(Int) /\ Len(k) = Len(h) + Len(p)
        /\ \A i \in 1..Len(h)+Len(p) : k[i] = IF i <= Len(h) THEN h[i] ELSE p[i - Len(h)]
    BY <1>3, <1>6, ConcatProperties, Zenon
  <2> HIDE DEF k
  <2> QED
    BY <1>3, <1>6, <2>1
<1> HIDE DEF k
<1>8. ASSUME NEW i \in 1..n PROVE k[l + 2 + i] = p[i]
  <2>1. PICK j \in 1..l+2+n : j = l + 2 + i /\ ~(j <= l + 2) /\ j - (l + 2) = i
    BY <1>4
  <2>2. k[j] = p[j - (l + 2)]
    BY <1>7, <2>1, Zenon
  <2>3. k[j] = p[i]
    BY <2>1, <2>2, Zenon
  <2> QED
    BY <2>1, <2>3, Zenon
<1>9. k \in [1..l + 2 + n -> Int]
  BY <1>7, LenProperties
<1>10. k = Rank(b, p, s)
  BY <1>5 DEF h, k
<1> QED
  BY <1>8, <1>9, <1>10 DEF l

\* What is chosen from some paths is one of them, and ranks first.
LEMMA ChoiceOf ==
  ASSUME NEW b \in BranchNames, NEW n \in Nat, NEW S, S # {}, S \subseteq [1..n -> Items],
         NEW score, \A p \in S : score[p] \in Metrics
  PROVE  /\ Choice(b, S, score) \in S
         /\ \A q \in S : \/ Choice(b, S, score) = q
                         \/ Before(Rank(b, Choice(b, S, score), score[Choice(b, S, score)]),
                                   Rank(b, q, score[q]))
<1> DEFINE r == [p \in S |-> Rank(b, p, score[p])]
           T == {r[p] : p \in S}
           l == LeadLength(b) + 2
<1>1. IsFiniteSet(S)
  BY PathsFinite, FS_Subset
<1>2. \A p \in S : r[p] \in [1..l + n -> Int]
  BY RankTypes
<1>3. \A p, q \in S : r[p] = r[q] => p = q
  <2> SUFFICES ASSUME NEW p \in S, NEW q \in S, r[p] = r[q] PROVE p = q
    OBVIOUS
  <2>1. \A i \in 1..n : r[p][l + i] = p[i] /\ r[q][l + i] = q[i]
    BY RankTypes
  <2>2. \A i \in 1..n : p[i] = q[i]
    BY <2>1
  <2> QED
    BY <2>2
<1>4. l + n \in Nat
  BY DEF LeadLength
<1>5. IsFiniteSet(T)
  BY <1>1, ImageFinite
<1> HIDE DEF l
<1>6. T # {} /\ T \subseteq [1..l + n -> Int]
  BY <1>2
<1>7. \E x \in T : \A y \in T : x = y \/ Before(x, y)
  BY <1>4, <1>5, <1>6, LexLeast
<1>8. \E p \in S : \A q \in S : r[p] = r[q] \/ Before(r[p], r[q])
  <2>1. PICK x \in T : \A y \in T : x = y \/ Before(x, y)
    BY <1>7
  <2>2. PICK p \in S : x = r[p]
    BY <2>1
  <2>3. \A q \in S : r[q] \in T
    OBVIOUS
  <2> HIDE DEF T, r
  <2> QED
    BY <2>1, <2>2, <2>3
<1>9. \E p \in S : \A q \in S :
        p = q \/ Before(Rank(b, p, score[p]), Rank(b, q, score[q]))
  <2>1. \A p \in S : r[p] = Rank(b, p, score[p])
    OBVIOUS
  <2> HIDE DEF T, r
  <2> QED
    BY <1>3, <1>8, <2>1
<1> HIDE DEF T, r
<1> QED
  BY <1>9, Zenon DEF Choice

\* The gate of the ablation lets through what the branch could have chosen.
LEMMA GateIsPool ==
  ASSUME NEW b \in BranchNames, NEW p \in DOMAIN states
  PROVE  Passes(b, states[p]) <=> p \in PoolOf(b)
<1>1. p \in ChassisStates <=> states[p].ready
  BY DEF ChassisStates
<1>2. ChassisStates # {} => ChassisPool = ChassisStates
  BY DEF ChassisPool
<1>3. ChassisStates = {} => ChassisPool = DOMAIN states
  BY DEF ChassisPool
<1>4. p \in DamageGated <=> p \in ChassisPool /\ Feasible(states[p])
  BY DEF DamageGated
<1>5. CASE b = "DEFAULT"
  BY <1>1, <1>2, <1>3, <1>5 DEF Passes, PoolOf
<1>6. CASE b = "OFFENSE"
  BY <1>6 DEF Passes, PoolOf
<1>7. CASE b = "DEFENSE"
  <2>1. Passes(b, states[p]) <=> DefenseGate(states[p])
    BY <1>7 DEF Passes
  <2>2. PoolOf(b) = IF DamageGated # {} THEN DamageGated ELSE ChassisPool
    BY <1>7 DEF PoolOf
  <2> QED
    BY <1>1, <1>2, <1>3, <1>4, <2>1, <2>2 DEF DefenseGate
<1> QED
  BY <1>5, <1>6, <1>7 DEF BranchNames

\* What does not pass the gate fails a condition that can be named.
LEMMA ReasonGiven ==
  ASSUME NEW b \in BranchNames, NEW s, ~Passes(b, s)
  PROVE  Reasons(b, s) # {}
<1>1. CASE b = "DEFAULT"
  BY <1>1 DEF Passes, Reasons
<1>2. CASE b = "OFFENSE"
  BY <1>2 DEF Passes
<1>3. CASE b = "DEFENSE"
  <2>1. ~DefenseGate(s)
    BY <1>3 DEF Passes
  <2> QED
    BY <1>3, <2>1 DEF DefenseGate, Reasons
<1> QED
  BY <1>1, <1>2, <1>3 DEF BranchNames

LEMMA PoolNotEmpty ==
  ASSUME NEW b \in BranchNames, DOMAIN states # {}
  PROVE  PoolOf(b) # {} /\ PoolOf(b) \subseteq DOMAIN states
<1>1. ChassisPool # {} /\ ChassisPool \subseteq DOMAIN states
  BY DEF ChassisPool, ChassisStates
<1>2. DamageGated \subseteq ChassisPool
  BY DEF DamageGated
<1>3. CASE b = "DEFAULT"
  BY <1>1, <1>3 DEF PoolOf
<1>4. CASE b = "OFFENSE"
  BY <1>4 DEF PoolOf
<1>5. CASE b = "DEFENSE"
  BY <1>1, <1>2, <1>5 DEF PoolOf
<1> QED
  BY <1>3, <1>4, <1>5 DEF BranchNames

-----------------------------------------------------------------------------
(* The inductive invariant, in parts *)

Framed ==
  /\ pc \in Phases /\ core \in 1..Cores /\ budgets \in Budgets
  /\ pool \in {"none", "live", "broken"} /\ reviewed \in 0..3 * Cores

\* Only a path that stands for its key is evaluated, and the cache holds, for a key,
\* what that path came out as.
Memoized ==
  /\ outcome = [p \in DOMAIN outcome |-> outcome[p]]
  /\ cache = [k \in DOMAIN cache |-> cache[k]]
  /\ \A p \in DOMAIN outcome : \E n \in 1..Cores : Stands(n, p) /\ outcome[p] \in Outcomes[n]
  /\ \A k \in DOMAIN cache : \E p \in DOMAIN outcome : Key(p) = k /\ cache[k] = outcome[p]

Concluding == pc \in {"branch", "ablate", "returned"}

\* The cores that the kept states have.
Depth == IF Concluding THEN core ELSE core - 1

\* Every path that can be bought is kept, with its score, and every shallower one is
\* in the cache.
Kept ==
  /\ Concluding => core = Cores /\ DOMAIN states # {}
  /\ DOMAIN states = LegalPaths(Depth)
  /\ \A n \in 1..Depth : \A p \in LegalPaths(n) : Key(p) \in DOMAIN cache
  /\ \A p \in DOMAIN states : states[p] = ScoreOf(p, cache)

\* The same of the core that is being expanded, as far as the search has come.
Expanding ==
  /\ legal \subseteq Paths /\ DOMAIN expanded \subseteq Paths
  /\ \A p \in DOMAIN expanded : expanded[p] \in Metrics
  /\ pc \in {"prefill", "collect", "sequential"} =>
       /\ legal = LegalPaths(core) /\ DOMAIN expanded \subseteq legal
       /\ \A p \in DOMAIN expanded : Key(p) \in DOMAIN cache /\ expanded[p] = ScoreOf(p, cache)

\* What the pool is asked for stands for its key, and not all of it has come back.
Collecting ==
  /\ tasks \in Seq(Paths) /\ stored \in 0..Len(tasks)
  /\ pc = "collect" => /\ stored < Len(tasks)
                       /\ \A i \in 1..Len(tasks) : Stands(core, tasks[i])

\* The engine has been asked once about the key of every outcome.  Outcomes that the
\* cache does not have are those of the tasks that are done and not stored.
Counting ==
  /\ evaluations = [k \in {Key(p) : p \in DOMAIN outcome} |-> 1]
  /\ finished \subseteq 1..Len(tasks)
  /\ pc \notin {"collect", "raised"} => \A p \in DOMAIN outcome : Key(p) \in DOMAIN cache
  /\ pc = "collect" =>
       /\ \A i, j \in 1..Len(tasks) : tasks[i] = tasks[j] => i = j
       /\ \A i \in 1..Len(tasks) : i \in finished <=> tasks[i] \in DOMAIN outcome
       /\ 1..stored \subseteq finished
       /\ \A p \in DOMAIN outcome :
            \/ Key(p) \in DOMAIN cache
            \/ \E i \in finished : i > stored /\ tasks[i] = p

\* The choice of every branch is first in its pool.
Choosing ==
  /\ pc \in {"ablate", "returned"} =>
       /\ chosen \in [1..3 -> Paths]
       /\ \A i \in 1..3 :
            /\ chosen[i] \in PoolOf(Branches[i])
            /\ \A q \in PoolOf(Branches[i]) :
                 \/ chosen[i] = q
                 \/ Before(Rank(Branches[i], chosen[i], states[chosen[i]]),
                           Rank(Branches[i], q, states[q]))
  /\ pc \notin {"ablate", "returned"} => chosen = <<>> /\ runnersUp = {}

\* A finding of the review.
IsFinding(f) ==
  /\ f.slot \in 1..Cores /\ f.kind \in {"RUNNER_UP", "EXCLUDED"}
  /\ f.path \in DOMAIN states /\ f.score = states[f.path]
  /\ \E i \in 1..3 :
       /\ f.branch = Branches[i]
       /\ f.kind = "RUNNER_UP" =>
            /\ f.path \in PoolOf(Branches[i])
            /\ Before(Rank(Branches[i], chosen[i], states[chosen[i]]),
                      Rank(Branches[i], f.path, f.score))
       /\ f.kind = "EXCLUDED" => f.path \notin PoolOf(Branches[i]) /\ f.reasons # {}

Reviewing == \A f \in runnersUp : IsFinding(f)

IInv ==
  /\ Framed /\ Memoized /\ Kept /\ Expanding /\ Collecting /\ Counting /\ Choosing
  /\ Reviewing

\* The cache loses and changes nothing.
Grows == \A k \in DOMAIN cache : k \in DOMAIN cache' /\ cache'[k] = cache[k]

LEMMA Primes ==
  ASSUME budgets' = budgets
  PROVE  /\ \A n : LegalPaths(n)' = LegalPaths(n)
         /\ \A n, p : Stands(n, p)' <=> Stands(n, p)
         /\ \A p : ScoreOf(p, cache)' = ScoreOf(p, cache')
         /\ \A p : Key(p)' = Key(p)
<1>1. \A n : LegalPaths(n)' = LegalPaths(n)
  BY DEF LegalPaths, PathIsLegal
<1>2. \A n, p : Stands(n, p)' <=> Stands(n, p)
  BY <1>1 DEF Stands
<1>3. \A p : ScoreOf(p, cache)' = ScoreOf(p, cache')
  BY DEF ScoreOf
<1> QED
  BY <1>1, <1>2, <1>3

LEMMA DivisionByCores ==
  ASSUME NEW r \in Nat, r < 3 * Cores
  PROVE  /\ (r \div Cores) + 1 \in 1..3 /\ (r % Cores) + 1 \in 1..Cores
         /\ r + 1 \in 0..3 * Cores
<1> DEFINE C == Cores
<1>1. C \in Nat \ {0} /\ r < 3 * C
  BY StageTypes
<1> HIDE DEF C
<1>2. (r \div C) \in Nat /\ (r % C) \in 0..C-1
  BY <1>1
<1>3. r \div C < 3
  BY <1>1
<1> QED
  BY <1>1, <1>2, <1>3 DEF C

LEMMA InitialInvariant == Init => IInv
<1> SUFFICES ASSUME Init PROVE IInv
  OBVIOUS
<1> USE DEF Init
<1>1. DOMAIN <<>> = {} /\ <<>> = [p \in {} |-> 0]
  BY EmptyPath
<1>2. Framed
  BY StageTypes DEF Framed, Phases
<1>3. Memoized
  BY <1>1 DEF Memoized
<1>4. ~Concluding /\ Depth = 0
  BY DEF Concluding, Depth
<1>5. Kept
  <2>1. DOMAIN states = {<<>>}
    OBVIOUS
  <2>2. \A p \in DOMAIN states : states[p] = ScoreOf(p, cache)
    BY <2>1, ScoreEmpty
  <2> QED
    BY <1>4, <2>1, <2>2, LegalEmpty DEF Kept
<1>6. Expanding
  BY <1>1 DEF Expanding
<1>7. Collecting
  BY EmptySeq DEF Collecting
<1>8. Choosing /\ Reviewing
  BY DEF Choosing, Reviewing
<1>9. Counting
  BY <1>1 DEF Counting
<1> QED
  BY <1>2, <1>3, <1>5, <1>6, <1>7, <1>8, <1>9 DEF IInv

-----------------------------------------------------------------------------
(* What a step does to the outcomes and the cache *)

LEMMA OutcomeAdded ==
  ASSUME Memoized, budgets' = budgets, NEW n \in 1..Cores, NEW p, Stands(n, p),
         NEW r \in Outcomes[n], p \in DOMAIN outcome => r = outcome[p],
         outcome' = Put(outcome, p, r)
  PROVE  /\ outcome' = [q \in DOMAIN outcome' |-> outcome'[q]]
         /\ DOMAIN outcome' = DOMAIN outcome \cup {p} /\ outcome'[p] = r
         /\ \A q \in DOMAIN outcome : outcome'[q] = outcome[q]
         /\ \A q \in DOMAIN outcome' :
              \E m \in 1..Cores : Stands(m, q)' /\ outcome'[q] \in Outcomes[m]
<1>1. outcome' = [q \in {p} \cup DOMAIN outcome |-> IF q \in {p} THEN r ELSE outcome[q]]
  BY DEF Put, Over
<1>2. /\ DOMAIN outcome' = DOMAIN outcome \cup {p} /\ outcome'[p] = r
      /\ \A q \in DOMAIN outcome : outcome'[q] = outcome[q]
      /\ outcome' = [q \in DOMAIN outcome' |-> outcome'[q]]
  BY <1>1
<1>3. ASSUME NEW q \in DOMAIN outcome'
      PROVE  \E m \in 1..Cores : Stands(m, q)' /\ outcome'[q] \in Outcomes[m]
  <2>1. CASE q = p
    <3>1. Stands(n, p)'
      BY Primes
    <3> QED
      BY <1>2, <2>1, <3>1
  <2>2. CASE q # p
    <3>1. q \in DOMAIN outcome /\ outcome'[q] = outcome[q]
      BY <1>2, <2>2
    <3>2. PICK m \in 1..Cores : Stands(m, q) /\ outcome[q] \in Outcomes[m]
      BY <3>1 DEF Memoized
    <3>3. Stands(m, q)'
      BY <3>2, Primes
    <3> QED
      BY <3>1, <3>2, <3>3
  <2> QED
    BY <2>1, <2>2
<1> QED
  BY <1>2, <1>3

LEMMA EntryAdded ==
  ASSUME Memoized,
         \A q \in DOMAIN outcome : q \in DOMAIN outcome' /\ outcome'[q] = outcome[q],
         NEW p, p \in DOMAIN outcome',
         Key(p) \in DOMAIN cache => cache[Key(p)] = outcome'[p],
         cache' = Put(cache, Key(p), outcome'[p])
  PROVE  /\ cache' = [k \in DOMAIN cache' |-> cache'[k]]
         /\ DOMAIN cache' = DOMAIN cache \cup {Key(p)} /\ cache'[Key(p)] = outcome'[p]
         /\ \A k \in DOMAIN cache' :
              \E q \in DOMAIN outcome' : Key(q) = k /\ cache'[k] = outcome'[q]
         /\ Grows
<1> DEFINE kp == Key(p)
           r == outcome'[p]
<1>1. cache' = Put(cache, kp, r)
  OBVIOUS
<1>2. kp \in DOMAIN cache => cache[kp] = r
  OBVIOUS
<1> HIDE DEF kp, r
<1>3. cache' = [k \in {kp} \cup DOMAIN cache |-> IF k \in {kp} THEN r ELSE cache[k]]
  BY <1>1 DEF Put, Over
<1>4. /\ DOMAIN cache' = DOMAIN cache \cup {kp} /\ cache'[kp] = r
      /\ \A k \in DOMAIN cache : cache'[k] = cache[k]
      /\ cache' = [k \in DOMAIN cache' |-> cache'[k]]
  BY <1>2, <1>3
<1>5. ASSUME NEW k \in DOMAIN cache'
      PROVE  \E q \in DOMAIN outcome' : Key(q) = k /\ cache'[k] = outcome'[q]
  <2>1. CASE k = kp
    BY <1>4, <2>1 DEF kp, r
  <2>2. CASE k # kp
    <3>1. k \in DOMAIN cache /\ cache'[k] = cache[k]
      BY <1>4, <2>2
    <3>2. PICK q \in DOMAIN outcome : Key(q) = k /\ cache[k] = outcome[q]
      BY <3>1 DEF Memoized
    <3> QED
      BY <3>1, <3>2
  <2> QED
    BY <2>1, <2>2
<1> QED
  BY <1>4, <1>5 DEF Grows, kp, r

LEMMA MemoUnchanged ==
  ASSUME Memoized, budgets' = budgets, UNCHANGED memo
  PROVE  Memoized' /\ Grows
<1>1. cache' = cache /\ outcome' = outcome
  BY DEF memo
<1>2. \A p \in DOMAIN outcome : \E n \in 1..Cores : Stands(n, p)' /\ outcome[p] \in Outcomes[n]
  BY Primes DEF Memoized
<1> QED
  BY <1>1, <1>2 DEF Memoized, Grows

\* Whatever else has its key, the path whose turn it is to be evaluated stands for it.
LEMMA SequentialTurn ==
  ASSUME IInv, pc = "sequential", DOMAIN expanded # legal,
         NEW p, p = First(legal \ DOMAIN expanded)
  PROVE  /\ p \in LegalPaths(core) /\ p \notin DOMAIN expanded
         /\ Key(p) \notin DOMAIN cache => Stands(core, p)
<1> DEFINE S == legal \ DOMAIN expanded
<1>1. /\ legal = LegalPaths(core) /\ DOMAIN expanded \subseteq legal
      /\ \A q \in DOMAIN expanded : Key(q) \in DOMAIN cache
      /\ core \in Nat
  BY StageTypes DEF IInv, Framed, Expanding
<1>2. S # {} /\ S \subseteq [1..core -> Items]
  BY <1>1 DEF LegalPaths
<1>3. p \in S /\ \A q \in S : p = q \/ Before(p, q)
  BY <1>1, <1>2, FirstOf
<1>4. ASSUME Key(p) \notin DOMAIN cache PROVE Stands(core, p)
  <2>1. ASSUME NEW q \in LegalPaths(core), Key(q) = Key(p) PROVE q \in S
    BY <1>1, <1>4, <2>1
  <2> QED
    BY <1>1, <1>3, <2>1 DEF Stands
<1> QED
  BY <1>1, <1>3, <1>4

LEMMA PendingStands ==
  ASSUME IInv, pc = "prefill", NEW p \in Pending
  PROVE  Stands(core, p)
<1>1. legal = LegalPaths(core)
  BY DEF IInv, Expanding
<1>2. /\ p \in LegalPaths(core) /\ Key(p) \notin DOMAIN cache
      /\ \A q \in LegalPaths(core) :
           Key(q) \notin DOMAIN cache /\ Key(q) = Key(p) => p = q \/ Before(p, q)
  BY <1>1 DEF Pending, FirstOfKeys
<1> QED
  BY <1>2 DEF Stands

\* A build that differs from a chosen one in one slot, and can be bought, is one
\* that the search has scored.
LEMMA AlternativesScored ==
  ASSUME IInv, pc = "ablate", reviewed < 3 * Cores
  PROVE  /\ Alternatives \subseteq DOMAIN states
         /\ \A q \in Alternatives : q # Chosen
         /\ Unscored = {}
<1>1. core = Cores /\ Depth = Cores /\ DOMAIN states = LegalPaths(Cores) /\ Cores \in Nat
      /\ DOMAIN states # {}
  BY StageTypes DEF IInv, Kept, Concluding, Depth
<1> DEFINE b == (reviewed \div Cores) + 1
<1>2. b \in 1..3 /\ Slot \in 1..Cores /\ Chosen = chosen[b]
  BY DivisionByCores DEF IInv, Framed, Slot, Chosen
<1> HIDE DEF b
<1>3. Chosen \in LegalPaths(Cores)
  <2>1. chosen[b] \in PoolOf(Branches[b])
    BY <1>2 DEF IInv, Choosing
  <2>2. Branches[b] \in BranchNames
    BY <1>2 DEF Branches, BranchNames
  <2> QED
    BY <1>1, <1>2, <2>1, <2>2, PoolNotEmpty
<1>4. ASSUME NEW q \in Alternatives
      PROVE  q \in LegalPaths(Cores) /\ q # Chosen
  <2>1. PICK i \in Items \ Owned(Chosen) : q = [Chosen EXCEPT ![Slot] = i]
    BY DEF Alternatives
  <2>2. ~Catalog[q[Slot]].blocked /\ PathIsLegal(q)
    BY DEF Alternatives
  <2>3. Chosen \in [1..Cores -> Items]
    BY <1>3 DEF LegalPaths
  <2>4. /\ q \in [1..Cores -> Items] /\ q[Slot] = i
        /\ \A c \in 1..Cores : c # Slot => q[c] = Chosen[c]
    BY <1>2, <2>1, <2>3
  <2>5. \A c \in 1..Cores : Chosen[c] # i
    BY <2>1, <2>3 DEF Owned
  <2>6. \A c, d \in 1..Cores : c # d => q[c] # q[d]
    BY <1>3, <2>4, <2>5 DEF LegalPaths
  <2>7. \A c \in 1..Cores : ~Catalog[q[c]].blocked
    BY <1>3, <2>2, <2>4 DEF LegalPaths
  <2>8. q # Chosen
    BY <1>2, <2>4, <2>5
  <2> QED
    BY <2>2, <2>4, <2>6, <2>7, <2>8 DEF LegalPaths
<1>5. ASSUME NEW q \in Alternatives, NEW p \in Prefixes(q)
      PROVE  Key(p) \in DOMAIN cache
  <2>1. q \in LegalPaths(Cores) /\ DOMAIN q = 1..Cores
    BY <1>4 DEF LegalPaths
  <2>2. PICK c \in 1..Cores : p = SubSeq(q, 1, c)
    BY <2>1 DEF Prefixes
  <2>3. p \in LegalPaths(c)
    <3>1. c \in 0..Cores
      BY <2>2
    <3> QED
      BY <1>1, <2>1, <2>2, <3>1, LegalPrefix
  <2> QED
    BY <1>1, <2>3 DEF IInv, Kept
<1>6. Unscored = {}
  BY <1>5 DEF Unscored, FirstOfKeys
<1> QED
  BY <1>1, <1>4, <1>6

\* So the review of a slot evaluates nothing.
LEMMA ReviewReadsOnly ==
  ASSUME IInv, ReviewSlot
  PROVE  UNCHANGED memo
<1>1. Unscored = {}
  BY AlternativesScored DEF ReviewSlot
<1>2. PICK found \in [Unscored -> UNION Range(Outcomes)] :
        /\ outcome' = Over(outcome, found)
        /\ cache' = Over(cache, [k \in {Key(p) : p \in Unscored} |->
                                 found[CHOOSE p \in Unscored : Key(p) = k]])
        /\ evaluations' = Over(evaluations, [k \in {Key(p) : p \in Unscored} |->
                                 Asked(k) + Cardinality({p \in Unscored : Key(p) = k})])
  BY Zenon DEF ReviewSlot
<1>3. {Key(p) : p \in Unscored} = {} /\ DOMAIN found = {}
  BY <1>1
<1>4. outcome' = [x \in DOMAIN outcome |-> outcome[x]]
  BY <1>2, <1>3 DEF Over
<1>5. cache' = [x \in DOMAIN cache |-> cache[x]]
  BY <1>2, <1>3 DEF Over
<1>6. evaluations' = [k \in DOMAIN evaluations |-> evaluations[k]]
  BY <1>2, <1>3 DEF Over
<1>7. evaluations = [k \in DOMAIN evaluations |-> evaluations[k]]
  BY DEF IInv, Counting
<1>8. evaluations' = evaluations
  BY ONLY <1>6, <1>7, Zenon
<1> QED
  BY <1>4, <1>5, <1>8 DEF IInv, Memoized, memo

\* A step evaluates only what stands for its key, and the cache only grows.
LEMMA MemoStep ==
  ASSUME IInv, [Next]_vars
  PROVE  budgets' = budgets /\ Memoized' /\ Grows
<1>1. Memoized /\ core \in 1..Cores /\ core \in Nat
  BY StageTypes DEF IInv, Framed
<1>2. budgets' = budgets
  BY DEF Next, vars, stage, OpenPool, Expand, Prefill, WorkerFinishes, WorkerDies, StoreResult,
         PoolBreaks, Sequential, NoCandidates, NextCore, SelectBranches, ReviewSlot, Conclude,
         Ended
<1>3. CASE UNCHANGED memo
  BY <1>1, <1>2, <1>3, MemoUnchanged
<1>4. ASSUME NEW i \in DOMAIN tasks, WorkerFinishes(i)
      PROVE  Memoized' /\ Grows
  <2> DEFINE p == tasks[i]
  <2>1. PICK r \in Outcomes[core] : Evaluate(p, r)
    BY <1>4 DEF WorkerFinishes
  <2>2. cache' = cache /\ outcome' = Put(outcome, p, r)
    BY <1>4, <2>1 DEF WorkerFinishes, Evaluate
  <2>3. Stands(core, p) /\ (p \in DOMAIN outcome => r = outcome[p])
    <3>1. DOMAIN tasks = 1..Len(tasks)
      BY LenProperties DEF IInv, Collecting
    <3> QED
      BY <1>4, <2>1, <3>1 DEF WorkerFinishes, IInv, Collecting, Evaluate
  <2> HIDE DEF p
  <2>4. /\ outcome' = [q \in DOMAIN outcome' |-> outcome'[q]]
        /\ DOMAIN outcome' = DOMAIN outcome \cup {p}
        /\ \A q \in DOMAIN outcome : outcome'[q] = outcome[q]
        /\ \A q \in DOMAIN outcome' :
             \E m \in 1..Cores : Stands(m, q)' /\ outcome'[q] \in Outcomes[m]
    BY <1>1, <1>2, <2>2, <2>3, OutcomeAdded
  <2>5. \A k \in DOMAIN cache : \E q \in DOMAIN outcome' : Key(q) = k /\ cache[k] = outcome'[q]
    BY <1>1, <2>4 DEF Memoized
  <2> QED
    BY <1>1, <2>2, <2>4, <2>5 DEF Memoized, Grows
<1>5. ASSUME StoreResult PROVE Memoized' /\ Grows
  <2> DEFINE p == tasks[stored + 1]
  <2>0. stored + 1 \in 1..Len(tasks)
    BY <1>5, LenProperties DEF StoreResult, IInv, Collecting
  <2>1. p \in DOMAIN outcome /\ outcome' = outcome /\ cache' = Put(cache, Key(p), outcome'[p])
    BY <1>5, <2>0 DEF StoreResult, IInv, Counting
  <2>2. Stands(core, p)
    BY <1>5, <2>0 DEF StoreResult, IInv, Collecting
  <2> HIDE DEF p
  <2>3. ASSUME Key(p) \in DOMAIN cache PROVE cache[Key(p)] = outcome'[p]
    <3>1. PICK q \in DOMAIN outcome : Key(q) = Key(p) /\ cache[Key(p)] = outcome[q]
      BY <1>1, <2>3 DEF Memoized
    <3>2. PICK m \in 1..Cores : Stands(m, q)
      BY <1>1, <3>1 DEF Memoized
    <3>3. m \in Nat
      BY StageTypes
    <3>4. q = p
      BY <1>1, <2>2, <3>1, <3>2, <3>3, StandsOnce
    <3> QED
      BY <2>1, <3>1, <3>4
  <2>4. /\ cache' = [k \in DOMAIN cache' |-> cache'[k]]
        /\ \A k \in DOMAIN cache' :
             \E q \in DOMAIN outcome' : Key(q) = k /\ cache'[k] = outcome'[q]
        /\ Grows
    BY <1>1, <2>1, <2>3, EntryAdded
  <2>5. \A q \in DOMAIN outcome' :
          \E m \in 1..Cores : Stands(m, q)' /\ outcome'[q] \in Outcomes[m]
    BY <1>1, <1>2, <2>1, Primes DEF Memoized
  <2> QED
    BY <1>1, <2>1, <2>4, <2>5 DEF Memoized
<1>6. ASSUME Sequential PROVE Memoized' /\ Grows
  <2> DEFINE p == First(legal \ DOMAIN expanded)
  <2>1. PICK r \in Outcomes[core] : RecordOf(p, r)
    BY <1>6 DEF Sequential
  <2>2. Key(p) \notin DOMAIN cache => Stands(core, p)
    BY <1>6, SequentialTurn DEF Sequential
  <2> HIDE DEF p
  <2>3. CASE Key(p) \in DOMAIN cache
    BY <1>3, <2>1, <2>3 DEF RecordOf
  <2>4. CASE Key(p) \notin DOMAIN cache
    <3>1. /\ p \in DOMAIN outcome => r = outcome[p]
          /\ outcome' = Put(outcome, p, r) /\ cache' = Put(cache, Key(p), r)
      BY <2>1, <2>4 DEF RecordOf, Evaluate
    <3>2. /\ outcome' = [q \in DOMAIN outcome' |-> outcome'[q]]
          /\ DOMAIN outcome' = DOMAIN outcome \cup {p} /\ outcome'[p] = r
          /\ \A q \in DOMAIN outcome : outcome'[q] = outcome[q]
          /\ \A q \in DOMAIN outcome' :
               \E m \in 1..Cores : Stands(m, q)' /\ outcome'[q] \in Outcomes[m]
      BY <1>1, <1>2, <2>2, <2>4, <3>1, OutcomeAdded
    <3>3. cache' = Put(cache, Key(p), outcome'[p])
      BY <3>1, <3>2
    <3>4. /\ cache' = [k \in DOMAIN cache' |-> cache'[k]]
          /\ \A k \in DOMAIN cache' :
               \E q \in DOMAIN outcome' : Key(q) = k /\ cache'[k] = outcome'[q]
          /\ Grows
      BY <1>1, <2>4, <3>2, <3>3, EntryAdded
    <3> QED
      BY <3>2, <3>4 DEF Memoized
  <2> QED
    BY <2>3, <2>4
<1>7. ASSUME ReviewSlot PROVE UNCHANGED memo
  BY <1>7, ReviewReadsOnly
<1>8. CASE OpenPool \/ Expand \/ Prefill \/ WorkerDies \/ PoolBreaks \/ NoCandidates \/ NextCore
           \/ SelectBranches \/ Conclude \/ Ended \/ UNCHANGED vars
  BY <1>3, <1>8 DEF OpenPool, Expand, Prefill, WorkerDies, PoolBreaks, NoCandidates, NextCore,
                    SelectBranches, Conclude, Ended, vars
<1> QED
  BY <1>2, <1>3, <1>4, <1>5, <1>6, <1>7, <1>8 DEF Next

\* The score of a path whose prefixes are in the cache stays what it is.
LEMMA ScoreKept ==
  ASSUME Grows, NEW n \in Nat, NEW p \in [1..n -> Items],
         \A c \in 1..n : Key(SubSeq(p, 1, c)) \in DOMAIN cache
  PROVE  ScoreOf(p, cache') = ScoreOf(p, cache)
<1>1. \A c \in 1..n : cache[Key(SubSeq(p, 1, c))] = cache'[Key(SubSeq(p, 1, c))]
  BY DEF Grows
<1> QED
  BY <1>1, ScoreStable

\* What a cache holds are stages, when it holds only what was evaluated.
LEMMA EntriesAreStages ==
  ASSUME NEW m, NEW o, \A p \in DOMAIN o : \E n \in 1..Cores : o[p] \in Outcomes[n],
         \A k \in DOMAIN m : \E p \in DOMAIN o : m[k] = o[p]
  PROVE  \A k \in DOMAIN m : m[k] \in StageRecord /\ m[k] \in UNION Range(Outcomes)
<1> SUFFICES ASSUME NEW k \in DOMAIN m
             PROVE  m[k] \in StageRecord /\ m[k] \in UNION Range(Outcomes)
  OBVIOUS
<1>1. PICK p \in DOMAIN o : m[k] = o[p]
  OBVIOUS
<1>2. PICK n \in 1..Cores : o[p] \in Outcomes[n]
  OBVIOUS
<1>3. DOMAIN Outcomes = 1..Cores
  BY SearchAssumption
<1> QED
  BY <1>1, <1>2, <1>3, StageTypes DEF Range

LEMMA PrefixesKnown ==
  ASSUME IInv, NEW n \in Nat, NEW p \in LegalPaths(n), NEW c \in 1..n, c <= Depth
  PROVE  Key(SubSeq(p, 1, c)) \in DOMAIN cache
<1>1. c \in 0..n /\ Depth \in Nat
  BY StageTypes DEF IInv, Framed, Depth
<1>2. SubSeq(p, 1, c) \in LegalPaths(c) /\ c \in 1..Depth
  BY <1>1, LegalPrefix
<1> QED
  BY <1>2 DEF IInv, Kept

-----------------------------------------------------------------------------
(* The other parts, step by step *)

LEMMA FramedStep == ASSUME IInv, [Next]_vars PROVE Framed'
<1> USE DEF Framed, Phases
<1>1. Framed /\ core \in Nat /\ Cores \in Nat
  BY StageTypes DEF IInv
<1>2. CASE UNCHANGED vars
  BY <1>1, <1>2 DEF vars, stage, parallel, result
<1>3. CASE OpenPool \/ Expand \/ Prefill \/ WorkerDies \/ StoreResult \/ PoolBreaks \/ NoCandidates
  BY <1>1, <1>3 DEF OpenPool, Expand, Prefill, WorkerDies, StoreResult, PoolBreaks, NoCandidates,
                    stage, parallel, result
<1>4. CASE (\E i \in DOMAIN tasks : WorkerFinishes(i)) \/ Sequential
  BY <1>1, <1>4 DEF WorkerFinishes, Sequential, stage, parallel, result
<1>5. CASE NextCore
  BY <1>1, <1>5 DEF NextCore, MoreCores, result
<1>6. CASE SelectBranches \/ Conclude \/ Ended
  BY <1>1, <1>6 DEF SelectBranches, Conclude, Ended, vars, stage, parallel, result
<1>7. CASE ReviewSlot
  <2>1. reviewed' \in 0..3 * Cores
    BY <1>1, <1>7, DivisionByCores DEF ReviewSlot
  <2> QED
    BY <1>1, <1>7, <2>1 DEF ReviewSlot, stage, parallel
<1> QED
  BY <1>2, <1>3, <1>4, <1>5, <1>6, <1>7 DEF Next

LEMMA KeptSame ==
  ASSUME IInv, Grows, UNCHANGED <<budgets, core, states>>, Concluding' <=> Concluding
  PROVE  Kept'
<1>1. Kept /\ Depth \in Nat /\ Depth' = Depth
  BY StageTypes DEF IInv, Framed, Depth
<1>2. ASSUME NEW p \in DOMAIN states PROVE states[p] = ScoreOf(p, cache')
  <2>1. p \in LegalPaths(Depth) /\ p \in [1..Depth -> Items] /\ states[p] = ScoreOf(p, cache)
    BY <1>1 DEF Kept, LegalPaths
  <2>2. \A c \in 1..Depth : Key(SubSeq(p, 1, c)) \in DOMAIN cache
    BY <1>1, <2>1, PrefixesKnown
  <2> QED
    BY <1>1, <2>1, <2>2, ScoreKept
<1>3. \A n \in 1..Depth : \A p \in LegalPaths(n) : Key(p) \in DOMAIN cache'
  BY <1>1 DEF Kept, Grows
<1>4. /\ \A n : LegalPaths(n)' = LegalPaths(n)
      /\ \A p : ScoreOf(p, cache)' = ScoreOf(p, cache')
  BY Primes
<1>5. DOMAIN states' = LegalPaths(Depth)'
  BY <1>1, <1>4 DEF Kept
<1>6. \A n \in 1..Depth' : \A p \in LegalPaths(n)' : Key(p) \in DOMAIN cache'
  BY <1>1, <1>3, <1>4
<1> QED
  BY <1>1, <1>2, <1>4, <1>5, <1>6 DEF Kept

LEMMA KeptStep == ASSUME IInv, [Next]_vars PROVE Kept'
<1>1. budgets' = budgets /\ Memoized' /\ Grows
  BY MemoStep
<1>2. CASE UNCHANGED <<core, states>> /\ (Concluding' <=> Concluding)
  BY <1>1, <1>2, KeptSame
<1>3. CASE NextCore
  <2>1. /\ pc = "sequential" /\ legal # {} /\ DOMAIN expanded = legal /\ states' = expanded
        /\ cache' = cache
    BY <1>3 DEF NextCore, memo
  <2>2. /\ legal = LegalPaths(core) /\ core \in Nat /\ core <= Cores /\ Cores \in Nat
        /\ \A p \in legal : Key(p) \in DOMAIN cache /\ expanded[p] = ScoreOf(p, cache)
        /\ Depth = core - 1
    BY <2>1, StageTypes DEF IInv, Framed, Expanding, Concluding, Depth
  <2>3. Depth' = core /\ (Concluding' => core' = Cores)
    BY <1>3, <2>2 DEF NextCore, MoreCores, Concluding, Depth
  <2>4. \A n \in 1..core : \A p \in LegalPaths(n) : Key(p) \in DOMAIN cache
    <3> SUFFICES ASSUME NEW n \in 1..core, NEW p \in LegalPaths(n)
                 PROVE  Key(p) \in DOMAIN cache
      OBVIOUS
    <3>1. CASE n = core
      BY <2>2, <3>1
    <3>2. CASE n # core
      <4>1. n \in 1..Depth
        BY <2>2, <3>2
      <4> QED
        BY <4>1 DEF IInv, Kept
    <3> QED
      BY <3>1, <3>2
  <2>5. /\ \A n : LegalPaths(n)' = LegalPaths(n)
        /\ \A p : ScoreOf(p, cache)' = ScoreOf(p, cache')
    BY <1>1, Primes
  <2>6. DOMAIN states' = LegalPaths(Depth)'
    BY <2>1, <2>2, <2>3, <2>5
  <2>7. \A n \in 1..Depth' : \A p \in LegalPaths(n)' : Key(p) \in DOMAIN cache'
    BY <2>1, <2>3, <2>4, <2>5
  <2>8. \A p \in DOMAIN states' : states'[p] = ScoreOf(p, cache)'
    BY <2>1, <2>2, <2>5
  <2>9. Concluding' => core' = Cores /\ DOMAIN states' # {}
    BY <2>1, <2>3
  <2> QED
    BY <2>6, <2>7, <2>8, <2>9 DEF Kept
<1> USE DEF Concluding
<1>4. CASE UNCHANGED vars
  BY <1>2, <1>4 DEF vars, stage
<1>5. CASE OpenPool \/ Expand \/ Prefill \/ WorkerDies \/ StoreResult \/ PoolBreaks \/ NoCandidates
  BY <1>2, <1>5 DEF OpenPool, Expand, Prefill, WorkerDies, StoreResult, PoolBreaks, NoCandidates,
                    stage
<1>6. CASE (\E i \in DOMAIN tasks : WorkerFinishes(i)) \/ Sequential
  BY <1>2, <1>6 DEF WorkerFinishes, Sequential, stage
<1>7. CASE SelectBranches \/ ReviewSlot \/ Conclude \/ Ended
  BY <1>2, <1>7 DEF SelectBranches, ReviewSlot, Conclude, Ended, vars, stage
<1> QED
  BY <1>3, <1>4, <1>5, <1>6, <1>7 DEF Next

LEMMA ExpandingSame ==
  ASSUME IInv, Grows, UNCHANGED <<budgets, core, legal, expanded>>,
         pc' \in {"prefill", "collect", "sequential"} => pc \in {"prefill", "collect", "sequential"}
  PROVE  Expanding'
<1>1. Expanding /\ core \in Nat /\ core <= Cores
  BY StageTypes DEF IInv, Framed
<1>2. /\ \A n : LegalPaths(n)' = LegalPaths(n)
      /\ \A p : ScoreOf(p, cache)' = ScoreOf(p, cache')
  BY Primes
<1>3. ASSUME pc' \in {"prefill", "collect", "sequential"}
      PROVE  /\ legal' = LegalPaths(core)' /\ DOMAIN expanded' \subseteq legal'
             /\ \A p \in DOMAIN expanded' :
                  Key(p) \in DOMAIN cache' /\ expanded'[p] = ScoreOf(p, cache)'
  <2>1. /\ legal = LegalPaths(core) /\ DOMAIN expanded \subseteq legal
        /\ \A p \in DOMAIN expanded : Key(p) \in DOMAIN cache /\ expanded[p] = ScoreOf(p, cache)
        /\ Depth = core - 1
    BY <1>1, <1>3 DEF Expanding, Concluding, Depth
  <2>2. ASSUME NEW p \in DOMAIN expanded
        PROVE  Key(p) \in DOMAIN cache' /\ expanded[p] = ScoreOf(p, cache')
    <3>1. p \in LegalPaths(core) /\ p \in [1..core -> Items] /\ SubSeq(p, 1, core) = p
      BY <1>1, <2>1, WholePrefix DEF LegalPaths
    <3>2. \A c \in 1..core : Key(SubSeq(p, 1, c)) \in DOMAIN cache
      <4> SUFFICES ASSUME NEW c \in 1..core PROVE Key(SubSeq(p, 1, c)) \in DOMAIN cache
        OBVIOUS
      <4>1. CASE c = core
        BY <2>1, <3>1, <4>1
      <4>2. CASE c # core
        <5>1. c <= Depth
          BY <1>1, <2>1, <4>2
        <5> QED
          BY <1>1, <3>1, <5>1, PrefixesKnown
      <4> QED
        BY <4>1, <4>2
    <3>3. ScoreOf(p, cache') = ScoreOf(p, cache)
      BY <1>1, <3>1, <3>2, ScoreKept
    <3> QED
      BY <2>1, <3>3 DEF Grows
  <2> QED
    BY <1>2, <2>1, <2>2
<1> QED
  BY <1>1, <1>3 DEF Expanding

LEMMA LegalInPaths == ASSUME NEW n \in 0..Cores PROVE LegalPaths(n) \subseteq Paths
BY PathsOf DEF LegalPaths

\* The turn of a path: what is put for it is its score.
LEMMA TurnScored ==
  ASSUME IInv, [Next]_vars, Sequential
  PROVE  Expanding'
<1> DEFINE p == First(legal \ DOMAIN expanded)
<1>1. budgets' = budgets /\ Memoized' /\ Grows
  BY MemoStep
<1>2. /\ pc = "sequential" /\ pc' = "sequential" /\ core' = core /\ legal' = legal
      /\ core \in Nat \ {0} /\ core <= Cores /\ Cores \in Nat
      /\ legal = LegalPaths(core) /\ DOMAIN expanded \subseteq legal
      /\ \A q \in DOMAIN expanded : Key(q) \in DOMAIN cache /\ expanded[q] = ScoreOf(q, cache)
      /\ DOMAIN states = LegalPaths(core - 1) /\ Depth = core - 1
  BY StageTypes DEF Sequential, IInv, Framed, Expanding, Kept, Concluding, Depth
<1>3. PICK r \in Outcomes[core] :
        /\ RecordOf(p, r)
        /\ expanded' = Put(expanded, p,
                           Accumulated(states[SubSeq(p, 1, core - 1)], r, core, Gold(p)))
  BY DEF Sequential
<1>4. p \in LegalPaths(core) /\ p \notin DOMAIN expanded
  BY <1>2, SequentialTurn DEF Sequential
<1> HIDE DEF p
<1>5. Key(p) \in DOMAIN cache' /\ cache'[Key(p)] = r
  <2>1. CASE Key(p) \in DOMAIN cache
    BY <1>3, <2>1 DEF RecordOf, memo
  <2>2. CASE Key(p) \notin DOMAIN cache
    BY <1>3, <2>2 DEF RecordOf, Put, Over
  <2> QED
    BY <2>1, <2>2
<1> DEFINE n == core - 1
<1>6. /\ n \in Nat /\ n + 1 = core /\ n + 1 <= Cores /\ Depth = n /\ n \in 0..n+1
      /\ DOMAIN states = LegalPaths(n)
  BY <1>2
<1> HIDE DEF n
<1>7. p \in [1..n+1 -> Items] /\ SubSeq(p, 1, n+1) = p /\ p \in LegalPaths(n+1)
  <2>1. p \in LegalPaths(n+1)
    BY <1>4, <1>6
  <2>2. p \in [1..n+1 -> Items] /\ n + 1 \in Nat
    BY <1>6, <2>1 DEF LegalPaths
  <2> QED
    BY <2>1, <2>2, WholePrefix
<1>8. \A c \in 1..n+1 : Key(SubSeq(p, 1, c)) \in DOMAIN cache'
  <2> SUFFICES ASSUME NEW c \in 1..n+1 PROVE Key(SubSeq(p, 1, c)) \in DOMAIN cache'
    OBVIOUS
  <2>1. CASE c = n + 1
    BY <1>5, <1>7, <2>1
  <2>2. CASE c # n + 1
    <3>1. c <= Depth
      BY <1>6, <2>2
    <3>2. Key(SubSeq(p, 1, c)) \in DOMAIN cache
      BY <1>6, <1>7, <3>1, PrefixesKnown
    <3> QED
      BY <1>1, <3>2 DEF Grows
  <2> QED
    BY <2>1, <2>2
<1>9. \A k \in DOMAIN cache' : cache'[k] \in StageRecord
  <2>1. /\ \A q \in DOMAIN outcome' : \E m \in 1..Cores : outcome'[q] \in Outcomes[m]
        /\ \A k \in DOMAIN cache' : \E q \in DOMAIN outcome' : cache'[k] = outcome'[q]
    BY <1>1 DEF Memoized
  <2> QED
    BY <2>1, EntriesAreStages
<1>10. \A c \in 1..n+1 : cache'[Key(SubSeq(p, 1, c))] \in StageRecord
  BY <1>8, <1>9
<1>11. states[SubSeq(p, 1, n)] = ScoreOf(SubSeq(p, 1, n), cache')
  <2> DEFINE q == SubSeq(p, 1, n)
  <2>1. q \in LegalPaths(n) /\ q \in [1..n -> Items]
    <3>1. n + 1 \in Nat
      BY <1>6
    <3>2. q \in LegalPaths(n)
      BY <1>6, <1>7, <3>1, LegalPrefix
    <3> QED
      BY <3>2 DEF LegalPaths
  <2> HIDE DEF q
  <2>2. states[q] = ScoreOf(q, cache)
    BY <1>6, <2>1 DEF IInv, Kept
  <2>3. \A c \in 1..n : Key(SubSeq(q, 1, c)) \in DOMAIN cache
    BY <1>6, <2>1, PrefixesKnown
  <2>4. ScoreOf(q, cache') = ScoreOf(q, cache)
    BY <1>1, <1>6, <2>1, <2>3, ScoreKept
  <2> QED
    BY <2>2, <2>4 DEF q
<1>12. ScoreOf(p, cache') =
         Accumulated(ScoreOf(SubSeq(p, 1, n), cache'), cache'[Key(p)], n+1, Gold(p))
  BY <1>6, <1>7, <1>10, ScoreExtended
<1>13. expanded' = Put(expanded, p, ScoreOf(p, cache'))
  BY <1>3, <1>5, <1>6, <1>11, <1>12 DEF n
<1>14. /\ DOMAIN expanded' = DOMAIN expanded \cup {p} /\ expanded'[p] = ScoreOf(p, cache')
       /\ \A q \in DOMAIN expanded : expanded'[q] = expanded[q]
  BY <1>4, <1>13 DEF Put, Over
<1>15. ScoreOf(p, cache') \in Metrics
  <2>1. n + 1 \in 0..Cores
    BY <1>6, <1>2
  <2> QED
    BY <1>7, <1>10, <2>1, ScoreInMetrics
<1>16. ASSUME NEW q \in DOMAIN expanded
       PROVE  Key(q) \in DOMAIN cache' /\ expanded'[q] = ScoreOf(q, cache')
  <2>1. q \in LegalPaths(core) /\ q \in [1..core -> Items] /\ SubSeq(q, 1, core) = q
    BY <1>2, WholePrefix DEF LegalPaths
  <2>2. \A c \in 1..core : Key(SubSeq(q, 1, c)) \in DOMAIN cache
    <3> SUFFICES ASSUME NEW c \in 1..core PROVE Key(SubSeq(q, 1, c)) \in DOMAIN cache
      OBVIOUS
    <3>1. CASE c = core
      BY <1>2, <2>1, <3>1
    <3>2. CASE c # core
      <4>1. c <= Depth
        BY <1>2, <3>2
      <4> QED
        BY <1>2, <2>1, <4>1, PrefixesKnown
    <3> QED
      BY <3>1, <3>2
  <2>3. ScoreOf(q, cache') = ScoreOf(q, cache)
    BY <1>1, <1>2, <2>1, <2>2, ScoreKept
  <2> QED
    BY <1>1, <1>2, <1>14, <2>3 DEF Grows
<1>17. /\ \A m : LegalPaths(m)' = LegalPaths(m)
       /\ \A q : ScoreOf(q, cache)' = ScoreOf(q, cache')
  BY <1>1, Primes
<1>18. \A q \in DOMAIN expanded' : Key(q) \in DOMAIN cache' /\ expanded'[q] = ScoreOf(q, cache)'
  BY <1>5, <1>14, <1>16, <1>17
<1>19. DOMAIN expanded' \subseteq legal' /\ legal' = LegalPaths(core)'
  BY <1>2, <1>4, <1>14, <1>17
<1>20. \A q \in DOMAIN expanded' : expanded'[q] \in Metrics
  BY <1>14, <1>15 DEF IInv, Expanding
<1>21. legal' \subseteq Paths /\ DOMAIN expanded' \subseteq Paths
  BY <1>2, <1>19 DEF IInv, Expanding
<1> QED
  BY <1>18, <1>19, <1>20, <1>21 DEF Expanding

LEMMA ExpandingStep == ASSUME IInv, [Next]_vars PROVE Expanding'
<1>1. budgets' = budgets /\ Memoized' /\ Grows
  BY MemoStep
<1>2. CASE /\ UNCHANGED <<core, legal, expanded>>
           /\ pc' \in {"prefill", "collect", "sequential"} =>
                pc \in {"prefill", "collect", "sequential"}
  BY <1>1, <1>2, ExpandingSame
<1>3. CASE Expand
  <2>1. /\ core' = core /\ core \in Nat \ {0} /\ core \in 0..Cores
        /\ DOMAIN states = LegalPaths(core - 1)
        /\ legal' = Expansions /\ expanded' = <<>>
    BY <1>3, StageTypes DEF Expand, IInv, Framed, Kept, Concluding, Depth
  <2>2. legal' = LegalPaths(core) /\ legal' \subseteq Paths
    BY <2>1, ExpansionsAreLegal, LegalInPaths
  <2>3. LegalPaths(core)' = LegalPaths(core)
    BY <1>1, <2>1 DEF LegalPaths, PathIsLegal
  <2>4. DOMAIN expanded' = {}
    BY <2>1, EmptyPath
  <2> QED
    BY <2>2, <2>3, <2>4 DEF Expanding
<1>4. CASE Sequential
  BY <1>4, TurnScored
<1>5. CASE NextCore
  <2>1. /\ legal' = legal /\ expanded' = expanded
        /\ pc' \notin {"prefill", "collect", "sequential"}
    BY <1>5 DEF NextCore
  <2> QED
    BY <2>1 DEF IInv, Expanding
<1>6. CASE UNCHANGED vars
  BY <1>2, <1>6 DEF vars, stage
<1>7. CASE OpenPool \/ Prefill \/ WorkerDies \/ StoreResult \/ PoolBreaks \/ NoCandidates
  BY <1>2, <1>7 DEF OpenPool, Prefill, WorkerDies, StoreResult, PoolBreaks, NoCandidates, stage
<1>8. CASE \E i \in DOMAIN tasks : WorkerFinishes(i)
  BY <1>2, <1>8 DEF WorkerFinishes, stage
<1>9. CASE SelectBranches \/ ReviewSlot \/ Conclude \/ Ended
  BY <1>2, <1>9 DEF SelectBranches, ReviewSlot, Conclude, Ended, vars, stage
<1> QED
  BY <1>3, <1>4, <1>5, <1>6, <1>7, <1>8, <1>9 DEF Next

LEMMA CollectingStep == ASSUME IInv, [Next]_vars PROVE Collecting'
<1>1. budgets' = budgets
  BY MemoStep
<1>2. Collecting /\ core \in Nat
  BY StageTypes DEF IInv, Framed
<1>3. CASE /\ UNCHANGED <<core, tasks, stored>> /\ (pc' = "collect" => pc = "collect")
  <2>1. pc' = "collect" => \A i \in 1..Len(tasks) : Stands(core, tasks[i])'
    BY <1>1, <1>2, <1>3, Primes DEF Collecting, Stands, LegalPaths, PathIsLegal
  <2> QED
    BY <1>2, <1>3, <2>1 DEF Collecting
<1>4. CASE Prefill
  <2>1. CASE pc' = "sequential"
    BY <1>2, <1>4, <2>1 DEF Prefill, Collecting
  <2>2. CASE pc' = "collect"
    <3>1. /\ pc = "prefill" /\ tasks' = InOrder(Pending) /\ stored' = 0 /\ core' = core
          /\ ~(Cardinality(Pending) < 2 * Workers)
      BY <1>4, <2>2 DEF Prefill, stage
    <3>2. \A p \in Pending : Stands(core, p)
      BY <3>1, PendingStands
    <3>3. Pending \subseteq [1..core -> Items] /\ Pending \subseteq [1..core -> Int]
      BY <1>2, <3>2, PathTypes DEF Stands, LegalPaths
    <3>4. IsFiniteSet(Pending) /\ Cardinality(Pending) \in Nat
      <4>1. IsFiniteSet(Pending)
        BY <1>2, <3>3, PathsFinite, FS_Subset
      <4> QED
        BY <4>1, FS_CardinalityType
    <3>5. \E s \in [1..Cardinality(Pending) -> Pending] :
            \A i, j \in DOMAIN s : i < j => Before(s[i], s[j])
      BY <1>2, <3>3, <3>4, Sorted
    <3>6. tasks' \in [1..Cardinality(Pending) -> Pending]
      BY <3>1, <3>5 DEF InOrder
    <3>7. core \in 0..Cores
      BY StageTypes DEF IInv, Framed
    <3>8. Pending \subseteq Paths
      BY <3>3, <3>7, PathsOf
    <3>9. tasks' \in Seq(Pending) /\ tasks' \in Seq(Paths) /\ Len(tasks') = Cardinality(Pending)
      <4>1. tasks' \in Seq(Pending)
        BY <3>4, <3>6, SeqDef
      <4>2. tasks' \in Seq(Paths)
        BY <3>8, <4>1, SeqMonotonic
      <4>3. DOMAIN tasks' = 1..Len(tasks') /\ Len(tasks') \in Nat
        BY <4>1, LenProperties
      <4>4. DOMAIN tasks' = 1..Cardinality(Pending)
        BY <3>6
      <4>5. Len(tasks') = Cardinality(Pending)
        BY <3>4, <4>3, <4>4
      <4> QED
        BY <4>1, <4>2, <4>5
    <3>10. 0 < Len(tasks')
      BY <3>1, <3>4, <3>9, StageTypes
    <3>11. \A i \in 1..Len(tasks') : Stands(core, tasks'[i])
      BY <3>2, <3>6, <3>9
    <3>12. \A i \in 1..Len(tasks') : Stands(core, tasks[i])'
      BY <1>1, <3>1, <3>11 DEF Stands, LegalPaths, PathIsLegal
    <3> QED
      BY <3>1, <3>9, <3>10, <3>12 DEF Collecting
  <2> QED
    BY <1>4, <2>1, <2>2 DEF Prefill
<1>5. CASE StoreResult
  <2>1. /\ pc = "collect" /\ stored' = stored + 1 /\ UNCHANGED <<core, tasks>>
        /\ pc' = "collect" => stored + 1 # Len(tasks)
    BY <1>5 DEF StoreResult, stage
  <2>2. Len(tasks) \in Nat /\ stored < Len(tasks) /\ stored \in Nat
    BY <1>2, <2>1, LenProperties DEF Collecting
  <2>3. \A i \in 1..Len(tasks) : Stands(core, tasks[i])'
    <3>1. \A i \in 1..Len(tasks) : Stands(core, tasks[i])
      BY <1>2, <2>1 DEF Collecting
    <3> QED
      BY <1>1, <2>1, <3>1, Primes DEF Stands, LegalPaths, PathIsLegal
  <2> QED
    BY <1>2, <2>1, <2>2, <2>3 DEF Collecting
<1>6. CASE NextCore
  BY <1>2, <1>6 DEF NextCore, Collecting
<1>7. CASE UNCHANGED vars
  BY <1>3, <1>7 DEF vars, stage, parallel
<1>8. CASE OpenPool \/ Expand \/ WorkerDies \/ PoolBreaks \/ NoCandidates
  BY <1>3, <1>8 DEF OpenPool, Expand, WorkerDies, PoolBreaks, NoCandidates, stage, parallel
<1>9. CASE (\E i \in DOMAIN tasks : WorkerFinishes(i)) \/ Sequential
  BY <1>3, <1>9 DEF WorkerFinishes, Sequential, stage, parallel
<1>10. CASE SelectBranches \/ ReviewSlot \/ Conclude \/ Ended
  BY <1>3, <1>10 DEF SelectBranches, ReviewSlot, Conclude, Ended, vars, stage, parallel
<1> QED
  BY <1>4, <1>5, <1>6, <1>7, <1>8, <1>9, <1>10 DEF Next

\* An evaluation of a path whose key has no outcome yet is the first of that key.
LEMMA CountedOnce ==
  ASSUME evaluations = [k \in {Key(p) : p \in DOMAIN outcome} |-> 1],
         NEW p, Key(p) \notin {Key(q) : q \in DOMAIN outcome},
         DOMAIN outcome' = DOMAIN outcome \cup {p},
         evaluations' = Put(evaluations, Key(p), Asked(Key(p)) + 1)
  PROVE  evaluations' = [k \in {Key(q) : q \in DOMAIN outcome'} |-> 1]
<1> DEFINE kp == Key(p)
           K == {Key(q) : q \in DOMAIN outcome}
<1>1. {Key(q) : q \in DOMAIN outcome'} = K \cup {kp}
  OBVIOUS
<1>2. evaluations = [k \in K |-> 1] /\ kp \notin K /\ evaluations' = Put(evaluations, kp, Asked(kp) + 1)
  OBVIOUS
<1> HIDE DEF kp, K
<1>3. Asked(kp) = 0
  BY <1>2 DEF Asked
<1>4. evaluations' = [k \in {kp} \cup DOMAIN evaluations |-> IF k \in {kp} THEN 1 ELSE evaluations[k]]
  BY <1>2, <1>3 DEF Put, Over
<1>5. evaluations' = [k \in K \cup {kp} |-> 1]
  BY <1>2, <1>4
<1> QED
  BY ONLY <1>1, <1>5, Zenon

\* Before an outcome is asked for there is none of its key.
LEMMA NewKey ==
  ASSUME Memoized, NEW n \in Nat, NEW p, Stands(n, p), p \notin DOMAIN outcome
  PROVE  Key(p) \notin {Key(q) : q \in DOMAIN outcome}
<1> SUFFICES ASSUME NEW q \in DOMAIN outcome, Key(p) = Key(q) PROVE FALSE
  OBVIOUS
<1>1. PICK m \in 1..Cores : Stands(m, q)
  BY DEF Memoized
<1>2. m \in Nat
  BY StageTypes
<1>3. p = q
  BY <1>1, <1>2, StandsOnce
<1> QED
  BY <1>3

\* Sorted, the tasks are all different, and nothing is known of them.
LEMMA TasksAreNew ==
  ASSUME IInv, Prefill, pc' = "collect"
  PROVE  /\ \A i, j \in 1..Len(tasks') : tasks'[i] = tasks'[j] => i = j
         /\ \A i \in 1..Len(tasks') : tasks'[i] \notin DOMAIN outcome
<1>1. /\ pc = "prefill" /\ tasks' = InOrder(Pending) /\ core \in Nat
  BY StageTypes DEF Prefill, IInv, Framed
<1>2. Pending \subseteq [1..core -> Int] /\ IsFiniteSet(Pending) /\ Cardinality(Pending) \in Nat
  <2>1. \A p \in Pending : Stands(core, p)
    BY <1>1, PendingStands
  <2>2. Pending \subseteq [1..core -> Items] /\ Pending \subseteq [1..core -> Int]
    BY <1>1, <2>1, PathTypes DEF Stands, LegalPaths
  <2>3. IsFiniteSet(Pending)
    BY <1>1, <2>2, PathsFinite, FS_Subset
  <2> QED
    BY <2>2, <2>3, FS_CardinalityType
<1> DEFINE n == Cardinality(Pending)
           Ordered(s) == \A i, j \in DOMAIN s : i < j => Before(s[i], s[j])
<1>3. \E s \in [1..n -> Pending] : Ordered(s)
  BY <1>1, <1>2, Sorted
<1>4. tasks' \in [1..n -> Pending] /\ Ordered(tasks')
  BY <1>1, <1>3 DEF InOrder
<1>5. Len(tasks') = n /\ n \in Nat
  <2>1. tasks' \in Seq(Pending)
    BY <1>2, <1>4, SeqDef
  <2> QED
    BY <1>2, <1>4, <2>1, LenProperties
<1> HIDE DEF n
<1>6. ASSUME NEW i \in 1..n, NEW j \in 1..n, i < j PROVE tasks'[i] # tasks'[j]
  <2>1. Before(tasks'[i], tasks'[j])
    BY <1>4, <1>6
  <2>2. \A t \in [1..core -> Int] : ~Before(t, t)
    BY DEF Before
  <2>3. tasks'[i] \in [1..core -> Int]
    BY <1>2, <1>4
  <2> QED
    BY <2>1, <2>2, <2>3
<1>7. \A i, j \in 1..n : tasks'[i] = tasks'[j] => i = j
  <2> SUFFICES ASSUME NEW i \in 1..n, NEW j \in 1..n, i # j PROVE tasks'[i] # tasks'[j]
    OBVIOUS
  <2>1. i < j \/ j < i
    BY <1>5
  <2> QED
    BY <1>6, <2>1
<1>8. \A p \in Pending : Key(p) \notin DOMAIN cache
  BY DEF Pending, FirstOfKeys
<1>9. \A p \in DOMAIN outcome : Key(p) \in DOMAIN cache
  BY <1>1 DEF IInv, Counting
<1> QED
  BY <1>4, <1>5, <1>7, <1>8, <1>9

\* Nothing is evaluated that has been evaluated before.
LEMMA CountingStep == ASSUME IInv, [Next]_vars PROVE Counting'
<1>1. Counting /\ Memoized /\ Collecting /\ core \in Nat
  BY StageTypes DEF IInv, Framed
<1>2. CASE UNCHANGED <<memo, tasks, finished, stored>> /\ pc \notin {"collect", "raised"}
           /\ pc' # "collect"
  BY <1>1, <1>2 DEF Counting, memo, Key, Owned
<1>3. CASE /\ UNCHANGED <<memo, tasks, finished, stored>>
           /\ pc' = pc \/ pc' = "raised"
  BY <1>1, <1>3 DEF Counting, memo, Key, Owned
<1>4. CASE Prefill
  <2>1. CASE pc' = "sequential"
    <3>1. UNCHANGED <<memo, tasks, finished, stored>> /\ pc = "prefill"
      BY <1>4, <2>1 DEF Prefill
    <3> QED
      BY <1>2, <2>1, <3>1
  <2>2. CASE pc' = "collect"
    <3>1. /\ UNCHANGED <<cache, outcome, evaluations>> /\ finished' = {} /\ stored' = 0
          /\ pc = "prefill"
      BY <1>4, <2>2 DEF Prefill, memo
    <3>2. /\ \A i, j \in 1..Len(tasks') : tasks'[i] = tasks'[j] => i = j
          /\ \A i \in 1..Len(tasks') : tasks'[i] \notin DOMAIN outcome
      BY <1>4, <2>2, TasksAreNew
    <3>3. /\ evaluations = [k \in {Key(p) : p \in DOMAIN outcome} |-> 1]
          /\ \A p \in DOMAIN outcome : Key(p) \in DOMAIN cache
      BY <1>1, <3>1 DEF Counting
    <3>4. 1..0 = {}
      OBVIOUS
    <3> QED
      BY <2>2, <3>1, <3>2, <3>3, <3>4 DEF Counting, Key, Owned
  <2> QED
    BY <1>4, <2>1, <2>2 DEF Prefill
<1>5. ASSUME NEW i \in DOMAIN tasks, WorkerFinishes(i) PROVE Counting'
  <2> DEFINE p == tasks[i]
  <2>1. /\ pc = "collect" /\ pc' = "collect" /\ i \notin finished /\ finished' = finished \cup {i}
        /\ UNCHANGED <<cache, tasks, stored>>
    BY <1>5 DEF WorkerFinishes
  <2>2. i \in 1..Len(tasks) /\ stored < Len(tasks) /\ Stands(core, p)
    BY <1>1, <2>1, LenProperties DEF Collecting
  <2>3. PICK r \in Outcomes[core] : Evaluate(p, r)
    BY <1>5 DEF WorkerFinishes
  <2>4. /\ outcome' = Put(outcome, p, r)
        /\ evaluations' = Put(evaluations, Key(p), Asked(Key(p)) + 1)
    BY <2>3 DEF Evaluate
  <2>5. DOMAIN outcome' = DOMAIN outcome \cup {p}
    BY <2>4 DEF Put, Over
  <2>6. p \notin DOMAIN outcome
    BY <1>1, <2>1, <2>2 DEF Counting
  <2>7. Key(p) \notin {Key(q) : q \in DOMAIN outcome}
    <3> HIDE DEF p
    <3> QED BY <1>1, <2>2, <2>6, NewKey
  <2>8. evaluations' = [k \in {Key(q) : q \in DOMAIN outcome'} |-> 1]
    <3> HIDE DEF p
    <3> QED BY <1>1, <2>4, <2>5, <2>7, CountedOnce DEF Counting
  <2>9. \A j \in 1..Len(tasks) : j \in finished' <=> tasks[j] \in DOMAIN outcome'
    BY <1>1, <2>1, <2>2, <2>5 DEF Counting
  <2>10. i > stored
    BY <1>1, <2>1, <2>2 DEF Counting, Collecting
  <2>11. \A q \in DOMAIN outcome' : \/ Key(q) \in DOMAIN cache
                                   \/ \E j \in finished' : j > stored /\ tasks[j] = q
    BY <1>1, <2>1, <2>5, <2>10 DEF Counting
  <2>12. finished' \subseteq 1..Len(tasks) /\ 1..stored \subseteq finished'
    BY <1>1, <2>1, <2>2 DEF Counting
  <2>13. \A a, b \in 1..Len(tasks) : tasks[a] = tasks[b] => a = b
    BY <1>1, <2>1 DEF Counting
  <2> HIDE DEF p
  <2> QED
    BY <2>1, <2>8, <2>9, <2>11, <2>12, <2>13 DEF Counting, Key, Owned
<1>6. CASE StoreResult
  <2> DEFINE p == tasks[stored + 1]
  <2>1. /\ pc = "collect" /\ stored + 1 \in finished /\ stored' = stored + 1
        /\ UNCHANGED <<outcome, evaluations, tasks, finished>>
        /\ pc' = IF stored + 1 = Len(tasks) THEN "sequential" ELSE "collect"
    BY <1>6 DEF StoreResult
  <2>2. stored \in Nat /\ Len(tasks) \in Nat /\ finished \subseteq 1..Len(tasks)
    BY <1>1, LenProperties DEF Collecting, Counting
  <2>3. DOMAIN cache' = DOMAIN cache \cup {Key(p)}
    <3> DEFINE kp == Key(p)
    <3>1. cache' = Put(cache, kp, outcome[p])
      BY <1>6 DEF StoreResult
    <3> HIDE DEF kp, p
    <3> QED BY <3>1 DEF Put, Over, kp
  <2>4. ASSUME NEW q \in DOMAIN outcome
        PROVE  Key(q) \in DOMAIN cache' \/ \E j \in finished : j > stored + 1 /\ tasks[j] = q
    <3>1. CASE Key(q) \in DOMAIN cache
      BY <2>3, <3>1
    <3>2. CASE Key(q) \notin DOMAIN cache
      <4>1. PICK j \in finished : j > stored /\ tasks[j] = q
        BY <1>1, <2>1, <3>2 DEF Counting
      <4>2. j = stored + 1 \/ j > stored + 1
        BY <2>2, <4>1
      <4>3. CASE j = stored + 1
        BY <2>3, <4>1, <4>3
      <4> QED
        BY <4>1, <4>2, <4>3
    <3> QED
      BY <3>1, <3>2
  <2>5. pc' # "collect" => \A q \in DOMAIN outcome : Key(q) \in DOMAIN cache'
    BY <2>1, <2>2, <2>4
  <2>6. 1..stored' \subseteq finished
    BY <1>1, <2>1, <2>2 DEF Counting
  <2>7. /\ evaluations = [k \in {Key(q) : q \in DOMAIN outcome} |-> 1]
        /\ \A a, b \in 1..Len(tasks) : tasks[a] = tasks[b] => a = b
        /\ \A a \in 1..Len(tasks) : a \in finished <=> tasks[a] \in DOMAIN outcome
    BY <1>1, <2>1 DEF Counting
  <2> HIDE DEF p
  <2> QED
    BY <2>1, <2>2, <2>4, <2>5, <2>6, <2>7 DEF Counting, Key, Owned
<1>7. CASE Sequential
  <2> DEFINE p == First(legal \ DOMAIN expanded)
  <2>1. /\ pc = "sequential" /\ pc' = "sequential" /\ DOMAIN expanded # legal
        /\ UNCHANGED <<tasks, finished, stored>>
    BY <1>7 DEF Sequential, parallel
  <2>2. PICK r \in Outcomes[core] : RecordOf(p, r)
    BY <1>7 DEF Sequential
  <2>3. Key(p) \notin DOMAIN cache => Stands(core, p)
    BY <2>1, SequentialTurn
  <2>4. \A q \in DOMAIN outcome : Key(q) \in DOMAIN cache
    BY <1>1, <2>1 DEF Counting
  <2> HIDE DEF p
  <2>5. CASE Key(p) \in DOMAIN cache
    <3>1. UNCHANGED <<memo, tasks, finished, stored>>
      BY <2>1, <2>2, <2>5 DEF RecordOf
    <3> QED
      BY <1>2, <2>1, <3>1
  <2>6. CASE Key(p) \notin DOMAIN cache
    <3> DEFINE kp == Key(p)
    <3>1. /\ outcome' = Put(outcome, p, r) /\ cache' = Put(cache, kp, r)
          /\ evaluations' = Put(evaluations, Key(p), Asked(Key(p)) + 1)
      BY <2>2, <2>6 DEF RecordOf, Evaluate
    <3>2. DOMAIN outcome' = DOMAIN outcome \cup {p}
      BY <3>1 DEF Put, Over
    <3>3. DOMAIN cache' = DOMAIN cache \cup {kp}
      <4> HIDE DEF kp
      <4> QED BY <3>1 DEF Put, Over
    <3>4. Key(p) \notin {Key(q) : q \in DOMAIN outcome}
      BY <2>4, <2>6
    <3>5. evaluations' = [k \in {Key(q) : q \in DOMAIN outcome'} |-> 1]
      BY <1>1, <3>1, <3>2, <3>4, CountedOnce DEF Counting
    <3>6. \A q \in DOMAIN outcome' : Key(q) \in DOMAIN cache'
      BY <2>4, <3>2, <3>3
    <3>7. finished \subseteq 1..Len(tasks)
      BY <1>1 DEF Counting
    <3> HIDE DEF kp
    <3> QED
      BY <2>1, <3>5, <3>6, <3>7 DEF Counting, Key, Owned
  <2> QED
    BY <2>5, <2>6
<1>8. CASE ReviewSlot
  <2>1. UNCHANGED memo
    BY <1>8, ReviewReadsOnly
  <2> QED
    BY <1>3, <1>8, <2>1 DEF ReviewSlot, parallel
<1>9. CASE OpenPool \/ Expand \/ NextCore \/ SelectBranches \/ Conclude
  BY <1>2, <1>9 DEF OpenPool, Expand, NextCore, SelectBranches, Conclude, parallel
<1>10. CASE WorkerDies \/ PoolBreaks \/ NoCandidates \/ Ended \/ UNCHANGED vars
  BY <1>3, <1>10 DEF WorkerDies, PoolBreaks, NoCandidates, Ended, vars, parallel
<1> QED
  BY <1>4, <1>5, <1>6, <1>7, <1>8, <1>9, <1>10 DEF Next

LEMMA StatesScored ==
  ASSUME IInv
  PROVE  \A p \in DOMAIN states : p \in Paths /\ states[p] \in Metrics
<1> SUFFICES ASSUME NEW p \in DOMAIN states PROVE p \in Paths /\ states[p] \in Metrics
  OBVIOUS
<1>1. Depth \in 0..Cores /\ Depth \in Nat
  BY StageTypes DEF IInv, Framed, Depth
<1>2. p \in LegalPaths(Depth) /\ p \in [1..Depth -> Items] /\ states[p] = ScoreOf(p, cache)
  BY DEF IInv, Kept, LegalPaths
<1>3. \A c \in 1..Depth : Key(SubSeq(p, 1, c)) \in DOMAIN cache
  BY <1>1, <1>2, PrefixesKnown
<1>4. \A k \in DOMAIN cache : cache[k] \in StageRecord
  <2>1. /\ \A q \in DOMAIN outcome : \E m \in 1..Cores : outcome[q] \in Outcomes[m]
        /\ \A k \in DOMAIN cache : \E q \in DOMAIN outcome : cache[k] = outcome[q]
    BY DEF IInv, Memoized
  <2> QED
    BY <2>1, EntriesAreStages
<1> QED
  BY <1>1, <1>2, <1>3, <1>4, ScoreInMetrics, PathsOf

LEMMA BranchNamed == \A i \in 1..3 : Branches[i] \in BranchNames
BY DEF Branches, BranchNames

LEMMA PoolSame ==
  ASSUME states' = states
  PROVE  \A b : PoolOf(b)' = PoolOf(b)
<1>1. ChassisPool' = ChassisPool
  BY DEF ChassisPool, ChassisStates
<1>2. BestDamage' = BestDamage
  BY DEF BestDamage
<1>3. DamageGated' = DamageGated
  BY <1>1, <1>2 DEF DamageGated, Feasible
<1> QED
  BY <1>1, <1>3 DEF PoolOf

LEMMA ChoosingStep == ASSUME IInv, [Next]_vars PROVE Choosing'
<1>1. Choosing
  BY DEF IInv
<1>2. CASE UNCHANGED <<chosen, states>> /\ pc \in {"ablate", "returned"}
           /\ pc' \in {"ablate", "returned"}
  BY <1>1, <1>2, PoolSame DEF Choosing
<1>3. CASE /\ UNCHANGED <<chosen, runnersUp>>
           /\ pc \notin {"ablate", "returned"} /\ pc' \notin {"ablate", "returned"}
  BY <1>1, <1>3 DEF Choosing
<1>4. CASE SelectBranches
  <2>1. /\ pc = "branch" /\ pc' = "ablate" /\ states' = states
        /\ chosen' = [i \in 1..3 |-> Choice(Branches[i], PoolOf(Branches[i]), states)]
    BY <1>4 DEF SelectBranches, stage
  <2>2. DOMAIN states = LegalPaths(Cores) /\ DOMAIN states # {} /\ Cores \in Nat
    BY <2>1, StageTypes DEF IInv, Kept, Concluding, Depth
  <2>3. ASSUME NEW i \in 1..3
        PROVE  /\ chosen'[i] \in Paths /\ chosen'[i] \in PoolOf(Branches[i])
               /\ \A q \in PoolOf(Branches[i]) :
                    \/ chosen'[i] = q
                    \/ Before(Rank(Branches[i], chosen'[i], states[chosen'[i]]),
                              Rank(Branches[i], q, states[q]))
    <3> DEFINE b == Branches[i]
               S == PoolOf(b)
    <3>1. b \in BranchNames
      BY BranchNamed
    <3>2. S # {} /\ S \subseteq DOMAIN states
      BY <2>2, <3>1, PoolNotEmpty
    <3>3. S \subseteq [1..Cores -> Items] /\ S \subseteq Paths /\ \A p \in S : states[p] \in Metrics
      BY <2>2, <3>2, StatesScored DEF LegalPaths
    <3>4. chosen'[i] = Choice(b, S, states)
      BY <2>1
    <3> HIDE DEF b, S
    <3>5. /\ Choice(b, S, states) \in S
          /\ \A q \in S : \/ Choice(b, S, states) = q
                          \/ Before(Rank(b, Choice(b, S, states), states[Choice(b, S, states)]),
                                    Rank(b, q, states[q]))
      BY <2>2, <3>1, <3>2, <3>3, ChoiceOf
    <3> QED
      BY <3>3, <3>4, <3>5 DEF b, S
  <2>4. chosen' \in [1..3 -> Paths]
    BY <2>1, <2>3
  <2> QED
    BY <2>1, <2>3, <2>4, PoolSame DEF Choosing
<1>5. CASE UNCHANGED vars
  BY <1>1, <1>5, PoolSame DEF vars, result, stage, Choosing
<1>6. CASE OpenPool \/ Expand \/ Prefill \/ WorkerDies \/ StoreResult \/ PoolBreaks \/ NoCandidates
  BY <1>3, <1>6 DEF OpenPool, Expand, Prefill, WorkerDies, StoreResult, PoolBreaks, NoCandidates,
                    result
<1>7. CASE (\E i \in DOMAIN tasks : WorkerFinishes(i)) \/ Sequential \/ NextCore
  BY <1>3, <1>7 DEF WorkerFinishes, Sequential, NextCore, result
<1>8. CASE ReviewSlot \/ Conclude
  BY <1>2, <1>8 DEF ReviewSlot, Conclude, result, stage
<1>9. CASE Ended
  BY <1>5, <1>9 DEF Ended
<1> QED
  BY <1>4, <1>5, <1>6, <1>7, <1>8, <1>9 DEF Next

\* What the review of a slot finds competed with the branch's choice.
LEMMA ReviewFinds ==
  ASSUME IInv, ReviewSlot, NEW f \in runnersUp', f \notin runnersUp
  PROVE  IsFinding(f)
<1> DEFINE score == [q \in Alternatives |-> ScoreOf(q, cache')]
           passing == {q \in Alternatives : Passes(Branch, score[q])}
           Found(kind, q, why) ==
             [ branch |-> Branch, slot |-> Slot, kind |-> kind, path |-> q,
               score |-> score[q], reasons |-> why ]
           q1 == Choice(Branch, passing, score)
           q2 == Choice(Branch, Alternatives, score)
           i == (reviewed \div Cores) + 1
<1>1. /\ Alternatives # {}
      /\ \/ passing # {} /\ f = Found("RUNNER_UP", q1, {})
         \/ passing = {} /\ f = Found("EXCLUDED", q2, Reasons(Branch, score[q2]))
  BY DEF ReviewSlot
<1>2. pc = "ablate" /\ reviewed < 3 * Cores /\ cache' = cache
  BY ReviewReadsOnly DEF ReviewSlot, memo
<1>3. /\ Alternatives \subseteq DOMAIN states /\ \A q \in Alternatives : q # Chosen
      /\ DOMAIN states = LegalPaths(Cores) /\ Cores \in Nat
  BY <1>2, AlternativesScored, StageTypes DEF IInv, Kept, Concluding, Depth
<1>4. /\ i \in 1..3 /\ Slot \in 1..Cores /\ Branch = Branches[i] /\ Chosen = chosen[i]
      /\ Branch \in BranchNames
  BY <1>2, DivisionByCores, BranchNamed DEF IInv, Framed, Branch, Slot, Chosen
<1>5. \A q \in Alternatives : score[q] = states[q] /\ score[q] \in Metrics
  BY <1>2, <1>3, StatesScored DEF IInv, Kept
<1>6. \A q \in Alternatives : q \in passing <=> q \in PoolOf(Branch)
  BY <1>3, <1>4, <1>5, GateIsPool
<1>7. Alternatives \subseteq [1..Cores -> Items] /\ passing \subseteq Alternatives
  BY <1>3 DEF LegalPaths
<1> HIDE DEF score, passing, i
<1>8. CASE passing # {} /\ f = Found("RUNNER_UP", q1, {})
  <2>1. q1 \in passing
    BY <1>3, <1>4, <1>5, <1>7, <1>8, ChoiceOf
  <2>2. /\ f.branch = Branches[i] /\ f.slot = Slot /\ f.kind = "RUNNER_UP" /\ f.path = q1
        /\ f.score = score[q1]
    BY <1>4, <1>8
  <2> HIDE DEF q1
  <2>3. q1 \in Alternatives /\ q1 \in PoolOf(Branches[i]) /\ q1 # chosen[i]
    BY <1>3, <1>4, <1>6, <1>7, <2>1
  <2>4. Before(Rank(Branches[i], chosen[i], states[chosen[i]]),
               Rank(Branches[i], q1, states[q1]))
    BY <1>2, <1>4, <2>3 DEF IInv, Choosing
  <2>5. f.path \in DOMAIN states /\ f.score = states[f.path]
    BY <1>3, <1>5, <2>2, <2>3
  <2> QED
    BY <1>4, <2>2, <2>3, <2>4, <2>5 DEF IsFinding
<1>9. CASE passing = {} /\ f = Found("EXCLUDED", q2, Reasons(Branch, score[q2]))
  <2>1. q2 \in Alternatives
    BY <1>1, <1>3, <1>4, <1>5, <1>7, ChoiceOf
  <2>2. /\ f.branch = Branches[i] /\ f.slot = Slot /\ f.kind = "EXCLUDED" /\ f.path = q2
        /\ f.score = score[q2] /\ f.reasons = Reasons(Branch, score[q2])
    BY <1>4, <1>9
  <2> HIDE DEF q2
  <2>3. q2 \notin PoolOf(Branches[i])
    BY <1>4, <1>6, <1>9, <2>1
  <2>4. Reasons(Branch, score[q2]) # {}
    BY <1>4, <1>9, <2>1, ReasonGiven DEF passing
  <2>5. f.path \in DOMAIN states /\ f.score = states[f.path]
    BY <1>3, <1>5, <2>1, <2>2
  <2> QED
    BY <1>4, <2>2, <2>3, <2>4, <2>5 DEF IsFinding
<1> QED
  BY <1>1, <1>8, <1>9

LEMMA ReviewingStep == ASSUME IInv, [Next]_vars PROVE Reviewing'
<1>1. CASE UNCHANGED <<chosen, states, runnersUp>>
  BY <1>1, PoolSame DEF IInv, Reviewing, IsFinding
<1>2. CASE runnersUp' = {}
  BY <1>2 DEF Reviewing
<1>3. CASE ReviewSlot
  <2>1. \A f \in runnersUp' : IsFinding(f)
    BY <1>3, ReviewFinds DEF IInv, Reviewing
  <2>2. chosen' = chosen /\ states' = states
    BY <1>3 DEF ReviewSlot, stage
  <2> QED
    BY <2>1, <2>2, PoolSame DEF Reviewing, IsFinding
<1>4. CASE SelectBranches \/ NextCore
  BY <1>2, <1>4 DEF SelectBranches, NextCore, result, IInv, Choosing
<1>5. CASE UNCHANGED vars
  BY <1>1, <1>5 DEF vars, result, stage
<1>6. CASE OpenPool \/ Expand \/ Prefill \/ WorkerDies \/ StoreResult \/ PoolBreaks \/ NoCandidates
  BY <1>1, <1>6 DEF OpenPool, Expand, Prefill, WorkerDies, StoreResult, PoolBreaks, NoCandidates,
                    result, stage
<1>7. CASE (\E i \in DOMAIN tasks : WorkerFinishes(i)) \/ Sequential
  BY <1>1, <1>7 DEF WorkerFinishes, Sequential, result, stage
<1>8. CASE Conclude \/ Ended
  BY <1>1, <1>5, <1>8 DEF Conclude, Ended, result, stage
<1> QED
  BY <1>3, <1>4, <1>5, <1>6, <1>7, <1>8 DEF Next

-----------------------------------------------------------------------------
(* The results *)

LEMMA InvariantStep == ASSUME IInv, [Next]_vars PROVE IInv'
<1>1. Framed' /\ Kept' /\ Expanding'
  BY FramedStep, KeptStep, ExpandingStep
<1>2. Memoized'
  BY MemoStep
<1>3. Collecting' /\ Counting' /\ Choosing' /\ Reviewing'
  BY CollectingStep, CountingStep, ChoosingStep, ReviewingStep
<1> QED
  BY <1>1, <1>2, <1>3 DEF IInv

LEMMA Invariant == Spec => []IInv
<1>1. Init => IInv
  BY InitialInvariant
<1>2. IInv /\ [Next]_vars => IInv'
  BY InvariantStep
<1> QED
  BY <1>1, <1>2, PTL DEF Spec

LEMMA InvariantGivesTypes == IInv => TypeOK
<1> SUFFICES ASSUME IInv PROVE TypeOK
  OBVIOUS
<1>1. pc \in Phases /\ core \in 1..Cores /\ budgets \in Budgets
  BY DEF IInv, Framed
<1>2. DOMAIN states \subseteq Paths /\ \A p \in DOMAIN states : states[p] \in Metrics
  BY StatesScored
<1>3. /\ legal \subseteq Paths /\ DOMAIN expanded \subseteq Paths
      /\ \A p \in DOMAIN expanded : expanded[p] \in Metrics
  BY DEF IInv, Expanding
<1>4. \A k \in DOMAIN cache : cache[k] \in UNION Range(Outcomes)
  <2>1. /\ \A q \in DOMAIN outcome : \E m \in 1..Cores : outcome[q] \in Outcomes[m]
        /\ \A k \in DOMAIN cache : \E q \in DOMAIN outcome : cache[k] = outcome[q]
    BY DEF IInv, Memoized
  <2> QED
    BY <2>1, EntriesAreStages
<1>5. ASSUME NEW p \in DOMAIN outcome
      PROVE  p \in Paths /\ outcome[p] \in Outcomes[Len(p)]
  <2>1. PICK n \in 1..Cores : Stands(n, p) /\ outcome[p] \in Outcomes[n]
    BY DEF IInv, Memoized
  <2>2. p \in [1..n -> Items] /\ n \in Nat /\ n \in 0..Cores
    BY <2>1, StageTypes DEF Stands, LegalPaths
  <2>3. Len(p) = n
    BY <2>2, PathTypes
  <2> QED
    BY <2>1, <2>2, <2>3, PathsOf
<1>6. pool \in {"none", "live", "broken"} /\ tasks \in Seq(Paths) /\ stored \in 0..Len(tasks)
  BY DEF IInv, Framed, Collecting
<1>9. DOMAIN evaluations = {Key(p) : p \in DOMAIN outcome}
  BY DEF IInv, Counting
<1>10. finished \subseteq DOMAIN tasks
  BY <1>6, LenProperties DEF IInv, Counting
<1>7. chosen \in {<<>>} \cup [1..3 -> Paths] /\ reviewed \in 0..3 * Cores
  BY DEF IInv, Framed, Choosing
<1>8. ASSUME NEW f \in runnersUp
      PROVE  /\ f.branch \in {Branches[i] : i \in 1..3} /\ f.slot \in 1..Cores
             /\ f.kind \in {"RUNNER_UP", "EXCLUDED"}
             /\ f.path \in Paths /\ f.score \in Metrics
  BY <1>2 DEF IInv, Reviewing, IsFinding
<1> QED
  BY <1>1, <1>2, <1>3, <1>4, <1>5, <1>6, <1>7, <1>8, <1>9, <1>10 DEF TypeOK

\* Every variable keeps its type, whatever the catalog, the budgets and the number of
\* workers.
THEOREM TypeCorrect == Spec => []TypeOK
BY Invariant, InvariantGivesTypes, PTL

LEMMA InvariantEvaluatesOnce == IInv => EvaluatedOnce
BY DEF IInv, Counting, EvaluatedOnce

\* The engine is asked about every key once, whoever asks: two workers, a worker and
\* the sequential pass, the ablation.
THEOREM OutcomesAreEvaluatedOnce == Spec => []EvaluatedOnce
BY Invariant, InvariantEvaluatesOnce, PTL

LEMMA InvariantIsExhaustive == IInv => Exhaustive
<1> SUFFICES ASSUME IInv, pc = "branch"
             PROVE  /\ DOMAIN states = LegalBuilds
                    /\ \A p \in LegalBuilds :
                         /\ \A c \in 1..Cores : Representative(SubSeq(p, 1, c)) \in DOMAIN outcome
                         /\ states[p] = ReferenceScore(p)
  BY DEF Exhaustive
<1>1. /\ Cores \in Nat /\ Depth = Cores /\ DOMAIN states = LegalPaths(Cores)
      /\ LegalBuilds = LegalPaths(Cores)
      /\ \A p \in DOMAIN states : states[p] = ScoreOf(p, cache)
  BY StageTypes, LegalBuildsArePaths DEF IInv, Kept, Concluding, Depth
<1>2. ASSUME NEW p \in LegalPaths(Cores)
      PROVE  /\ \A c \in 1..Cores : Representative(SubSeq(p, 1, c)) \in DOMAIN outcome
             /\ states[p] = ReferenceScore(p)
  <2>1. ASSUME NEW c \in 1..Cores
        PROVE  LET q == SubSeq(p, 1, c)
               IN  /\ Representative(q) \in DOMAIN outcome
                   /\ cache[Key(q)] = outcome[Representative(q)]
    <3> DEFINE q == SubSeq(p, 1, c)
    <3>1. c \in 0..Cores /\ c \in Nat
      BY <1>1
    <3>2. q \in LegalPaths(c) /\ q \in [1..c -> Items]
      BY <1>1, <3>1, LegalPrefix DEF LegalPaths
    <3>3. Key(q) \in DOMAIN cache
      BY <1>1, PrefixesKnown
    <3> HIDE DEF q
    <3>4. PICK r \in DOMAIN outcome : Key(r) = Key(q) /\ cache[Key(q)] = outcome[r]
      BY <3>3 DEF IInv, Memoized
    <3>5. PICK n \in 1..Cores : Stands(n, r)
      BY DEF IInv, Memoized
    <3>6. n \in Nat /\ r \in LegalPaths(n)
      BY <3>5, StageTypes DEF Stands
    <3>7. n = c
      BY <3>1, <3>2, <3>4, <3>6, SameKey
    <3>8. Representative(q) = r
      BY <3>1, <3>2, <3>4, <3>5, <3>7, StandsForOthers
    <3> QED
      BY <3>4, <3>8 DEF q
  <2>2. p \in [1..Cores -> Items]
    BY DEF LegalPaths
  <2>3. ScoreOf(p, cache) = ReferenceScore(p)
    BY <2>1, <2>2, ScoreIsReference
  <2> QED
    BY <1>1, <2>1, <2>3
<1> QED
  BY <1>1, <1>2

\* After its last core the search has kept exactly the builds that can be bought item
\* after item, each with the score that the outcomes of the first prefixes of its keys
\* give it, for any number of workers and in whatever order they finish.
THEOREM SearchIsExhaustive == Spec => []Exhaustive
BY Invariant, InvariantIsExhaustive, PTL

LEMMA BranchIndex ==
  ASSUME NEW i \in 1..3
  PROVE  (CHOOSE n \in 1..3 : Branches[n] = Branches[i]) = i
<1>1. \A n \in 1..3 : Branches[n] = Branches[i] => n = i
  BY DEF Branches
<1> QED
  BY <1>1

\* A runner-up is a build that the branch could have chosen, with the score the search
\* gave it, and the branch's choice ranks before it.
THEOREM RunnersUpCompete == Spec => []RunnerUpCompetes
<1>1. IInv => RunnerUpCompetes
  <2> SUFFICES ASSUME IInv, NEW f \in runnersUp
               PROVE  LET i == CHOOSE n \in 1..3 : Branches[n] = f.branch
                      IN  /\ f.path \in DOMAIN states /\ f.score = states[f.path]
                          /\ f.kind = "RUNNER_UP" =>
                               /\ f.path \in PoolOf(f.branch)
                               /\ Before(Rank(f.branch, chosen[i], states[chosen[i]]),
                                         Rank(f.branch, f.path, f.score))
    BY DEF RunnerUpCompetes
  <2>1. IsFinding(f)
    BY DEF IInv, Reviewing
  <2>2. PICK i \in 1..3 :
          /\ f.branch = Branches[i]
          /\ f.kind = "RUNNER_UP" =>
               /\ f.path \in PoolOf(Branches[i])
               /\ Before(Rank(Branches[i], chosen[i], states[chosen[i]]),
                         Rank(Branches[i], f.path, f.score))
    BY <2>1 DEF IsFinding
  <2>3. (CHOOSE n \in 1..3 : Branches[n] = f.branch) = i
    BY <2>2, BranchIndex
  <2> QED
    BY <2>1, <2>2, <2>3 DEF IsFinding
<1> QED
  BY <1>1, Invariant, PTL

\* What is reported as excluded is out of the branch's pool, for a reason that is named.
THEOREM ExclusionsAreExplained == Spec => []ExclusionExplained
<1>1. IInv => ExclusionExplained
  BY DEF IInv, Reviewing, IsFinding, ExclusionExplained
<1> QED
  BY <1>1, Invariant, PTL

\* The ablation finds every prefix of every alternative in the cache.
THEOREM AblationEvaluatesNothing == Spec => AblationAddsNothing
<1>1. IInv /\ [Next]_vars => [pc = "ablate" => UNCHANGED memo]_vars
  <2> SUFFICES ASSUME IInv, [Next]_vars, pc = "ablate" PROVE UNCHANGED memo
    OBVIOUS
  <2>1. CASE ReviewSlot
    BY <2>1, ReviewReadsOnly
  <2>2. CASE Conclude \/ UNCHANGED vars
    BY <2>2 DEF Conclude, vars
  <2> QED
    BY <2>1, <2>2 DEF Next, OpenPool, Expand, Prefill, WorkerFinishes, WorkerDies, StoreResult,
                      PoolBreaks, Sequential, NoCandidates, NextCore, SelectBranches, Ended
<1> QED
  BY <1>1, Invariant, PTL DEF Spec, AblationAddsNothing

\* Without a pool the search raises only when no core is legal, as its docstring says:
\* what BuildSearch_pool shows takes a worker that dies.
THEOREM OneWorkerFailsOnlyWithoutBuild ==
  ASSUME Workers = 1
  PROVE  Spec => []FailsOnlyWithoutBuild
<1> DEFINE Inv == pool = "none" /\ pc # "collect" /\ (pc = "raised" => legal = {})
<1>1. Init => Inv
  BY DEF Init
<1>2. Inv /\ [Next]_vars => Inv'
  <2> SUFFICES ASSUME Inv, [Next]_vars PROVE Inv'
    OBVIOUS
  <2>1. CASE UNCHANGED vars \/ Ended
    BY <2>1 DEF Ended, vars, parallel, stage
  <2>2. CASE OpenPool
    BY <2>2 DEF OpenPool
  <2>3. CASE Expand \/ Prefill \/ NoCandidates \/ NextCore
    BY <2>3 DEF Expand, Prefill, NoCandidates, NextCore, parallel, stage
  <2>4. CASE Sequential
    BY <2>4 DEF Sequential, parallel
  <2>5. CASE SelectBranches \/ ReviewSlot \/ Conclude
    BY <2>5 DEF SelectBranches, ReviewSlot, Conclude, parallel, stage
  <2>6. CASE (\E i \in DOMAIN tasks : WorkerFinishes(i)) \/ WorkerDies \/ StoreResult \/ PoolBreaks
    BY <2>6 DEF WorkerFinishes, WorkerDies, StoreResult, PoolBreaks
  <2> QED
    BY <2>1, <2>2, <2>3, <2>4, <2>5, <2>6 DEF Next
<1>3. Inv => FailsOnlyWithoutBuild
  BY DEF FailsOnlyWithoutBuild
<1> QED
  BY <1>1, <1>2, <1>3, PTL DEF Spec

=============================================================================
