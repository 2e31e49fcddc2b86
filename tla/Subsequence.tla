---------------------------- MODULE Subsequence ----------------------------
(***************************************************************************)
(* Lists of rows: the elements of a sequence at some of its positions, as  *)
(* Array.filter and WHERE leave them, and the elements of a set in an      *)
(* order, as Array.sort and ORDER BY have them.                            *)
(*                                                                         *)
(* SelectSeq and SortSeq say the same; nothing can be proved about what    *)
(* the one, which is recursive, returns, or that what the other chooses is *)
(* there.  An element is told by its rank instead; that each rank is met   *)
(* follows from the least one that is not (LeastNatural), or from counting *)
(* (InOrderLists).                                                         *)
(***************************************************************************)
EXTENDS Integers, Sequences, FiniteSets, FiniteSetTheorems, WellFoundedInduction, TLAPS

Rank(K, k) == Cardinality({j \in K : j <= k})

\* The elements of s at the positions K.
ElementsAt(s, K) == [i \in 1..Cardinality(K) |-> s[CHOOSE k \in K : Rank(K, k) = i]]

\* Of an element: those of S that come before it by R, and itself.
Places(S, R) == [v \in S |-> Cardinality({u \in S : <<u, v>> \in R}) + 1]

\* The elements of S, each once, in the order R.
InOrder(S, R) ==
    LET place == Places(S, R)
    IN [i \in 1..Cardinality(S) |-> CHOOSE v \in S : place[v] = i]

-----------------------------------------------------------------------------

LEMMA LeastNatural ==
    ASSUME NEW T \in SUBSET Nat, T # {}
    PROVE  \E n \in T : \A m \in T : n <= m
<1> DEFINE R == {p \in Nat \X Nat : p[1] < p[2]}
<1>1. IsWellFoundedOn(R, Nat)
  BY NatLessThanWellFounded DEF OpToRel
<1>2. \A a, b \in Nat : a < b => <<a, b>> \in R
  OBVIOUS
<1> HIDE DEF R
<1>3. PICK x \in T : \A y \in T : ~ (<<y, x>> \in R)
  BY <1>1, WFMin
<1>4. \A y \in T : ~(y < x)
  BY <1>2, <1>3
<1> QED
  BY <1>4

\* The next position after those of an initial segment L of K.
LEMMA NextRank ==
    ASSUME NEW K \in SUBSET Nat, IsFiniteSet(K), NEW L \in SUBSET K, L # K,
           \A j \in L, k \in K \ L : j < k
    PROVE  \E k \in K : Rank(K, k) = Cardinality(L) + 1
<1>1. PICK k \in K \ L : \A m \in K \ L : k <= m
  BY LeastNatural
<1>2. {j \in K : j <= k} = L \cup {k}
  <2>1. \A j \in K : j \in Nat
    OBVIOUS
  <2>2. k \in K /\ k <= k /\ \A j \in L : j \in K /\ j <= k
    BY <1>1, <2>1
  <2>3. \A j \in K : j <= k => j \in L \/ j = k
    BY <1>1, <2>1
  <2> QED
    BY <2>2, <2>3
<1>3. IsFiniteSet(L) /\ k \notin L
  BY <1>1, FS_Subset
<1>4. Cardinality(L \cup {k}) = Cardinality(L) + 1
  BY <1>3, FS_AddElement
<1> QED
  BY <1>1, <1>2, <1>4 DEF Rank

LEMMA RankMet ==
    ASSUME NEW K \in SUBSET Nat, IsFiniteSet(K), NEW i \in 1..Cardinality(K)
    PROVE  \E k \in K : Rank(K, k) = i
<1> DEFINE missed == {n \in 1..Cardinality(K) : ~\E k \in K : Rank(K, k) = n}
<1> SUFFICES ASSUME missed # {} PROVE FALSE
  OBVIOUS
<1>1. Cardinality(K) \in Nat
  BY FS_CardinalityType
<1>2. PICK n \in missed : \A m \in missed : n <= m
  <2>1. missed \in SUBSET Nat
    BY <1>1
  <2> HIDE DEF missed
  <2> QED
    BY <2>1, LeastNatural
<1>3. ASSUME NEW L \in SUBSET K, Cardinality(L) = n - 1, \A j \in L, k \in K \ L : j < k
      PROVE  FALSE
  <2>1. L # K
    BY <1>1, <1>3
  <2>2. \E k \in K : Rank(K, k) = Cardinality(L) + 1
    BY <1>3, <2>1, NextRank
  <2> QED
    BY <1>1, <1>3, <2>2
<1>4. CASE n = 1
  BY <1>3, <1>4, FS_EmptySet
<1>5. CASE n # 1
  <2>1. n - 1 \in 1..Cardinality(K) /\ n - 1 \notin missed
    BY <1>1, <1>2, <1>5
  <2>2. PICK k \in K : Rank(K, k) = n - 1
    BY <2>1
  <2> DEFINE L == {j \in K : j <= k}
  <2>3. Cardinality(L) = n - 1 /\ \A j \in L, m \in K \ L : j < m
    BY <2>2 DEF Rank
  <2> HIDE DEF L
  <2>4. L \subseteq K
    BY DEF L
  <2> QED
    BY <1>3, <2>3, <2>4
<1> QED
  BY <1>4, <1>5

\* Taken at some of its positions, a sequence is still one, of that many elements,
\* and they are all of its own.
LEMMA ElementsAtType ==
    ASSUME NEW S, NEW s \in Seq(S), NEW K \in SUBSET DOMAIN s
    PROVE  /\ ElementsAt(s, K) \in Seq(S)
           /\ Len(ElementsAt(s, K)) = Cardinality(K) /\ Cardinality(K) <= Len(s)
           /\ \A i \in 1..Cardinality(K) : \E k \in K : ElementsAt(s, K)[i] = s[k]
<1>1. K \in SUBSET Nat /\ IsFiniteSet(K) /\ Cardinality(K) <= Len(s)
  <2>1. DOMAIN s = 1..Len(s) /\ Len(s) \in Nat
    OBVIOUS
  <2>2. IsFiniteSet(1..Len(s)) /\ Cardinality(1..Len(s)) = Len(s)
    <3>1. 1 \in Int /\ Len(s) \in Int /\ (1 > Len(s) => Len(s) = 0)
      BY <2>1
    <3>2. /\ IsFiniteSet(1..Len(s))
          /\ Cardinality(1..Len(s)) = IF 1 > Len(s) THEN 0 ELSE Len(s) - 1 + 1
      BY <3>1, FS_Interval
    <3> QED
      BY <2>1, <3>1, <3>2
  <2> QED
    BY <2>1, <2>2, FS_Subset
<1> DEFINE p(i) == CHOOSE k \in K : Rank(K, k) = i
<1>2. ASSUME NEW i \in 1..Cardinality(K)
      PROVE  p(i) \in K
  BY <1>1, RankMet
<1>3. \A i \in 1..Cardinality(K) : \E k \in K : ElementsAt(s, K)[i] = s[k] /\ s[k] \in S
  <2>1. ASSUME NEW i \in 1..Cardinality(K)
        PROVE  ElementsAt(s, K)[i] = s[p(i)]
    BY <2>1 DEF ElementsAt
  <2> HIDE DEF p
  <2>2. \A k \in K : s[k] \in S
    OBVIOUS
  <2> QED
    BY <1>2, <2>1, <2>2
<1>4. Cardinality(K) \in Nat
  BY <1>1, FS_CardinalityType
<1>5. ElementsAt(s, K) \in [1..Cardinality(K) -> S]
  BY <1>3 DEF ElementsAt
<1> QED
  BY <1>1, <1>3, <1>4, <1>5

\* They are at positions that rise.
LEMMA ElementsAtPositions ==
    ASSUME NEW S, NEW s \in Seq(S), NEW K \in SUBSET DOMAIN s
    PROVE  \E f \in [1..Cardinality(K) -> K] :
              /\ ElementsAt(s, K) = [i \in 1..Cardinality(K) |-> s[f[i]]]
              /\ \A i, j \in 1..Cardinality(K) : i < j => f[i] < f[j]
<1>1. K \in SUBSET Nat /\ IsFiniteSet(K)
  <2>1. DOMAIN s = 1..Len(s) /\ Len(s) \in Nat
    OBVIOUS
  <2>2. IsFiniteSet(1..Len(s))
    BY <2>1, FS_Interval
  <2> QED
    BY <2>1, <2>2, FS_Subset
<1> DEFINE f == [i \in 1..Cardinality(K) |-> CHOOSE k \in K : Rank(K, k) = i]
<1>2. ASSUME NEW i \in 1..Cardinality(K)
      PROVE  f[i] \in K /\ Rank(K, f[i]) = i
  <2>1. \E k \in K : Rank(K, k) = i
    BY <1>1, RankMet
  <2> QED
    BY <2>1
<1>3. ElementsAt(s, K) = [i \in 1..Cardinality(K) |-> s[f[i]]]
  BY DEF ElementsAt
<1>4. f \in [1..Cardinality(K) -> K]
  BY <1>2
<1> HIDE DEF f
<1>5. ASSUME NEW i \in 1..Cardinality(K), NEW j \in 1..Cardinality(K), f[j] <= f[i]
      PROVE  j <= i
  <2>1. {k \in K : k <= f[j]} \subseteq {k \in K : k <= f[i]}
    BY <1>1, <1>2, <1>5
  <2>2. IsFiniteSet({k \in K : k <= f[i]})
    BY <1>1, FS_Subset
  <2>3. Rank(K, f[j]) <= Rank(K, f[i])
    BY <2>1, <2>2, FS_Subset DEF Rank
  <2> QED
    BY <1>2, <2>3
<1>6. ASSUME NEW i \in 1..Cardinality(K), NEW j \in 1..Cardinality(K), i < j
      PROVE  f[i] < f[j]
  <2>1. i \in Int /\ j \in Int /\ f[i] \in Int /\ f[j] \in Int
    <3>1. Cardinality(K) \in Nat
      BY <1>1, FS_CardinalityType
    <3> QED
      BY <1>1, <1>2, <3>1
  <2> QED
    BY <1>5, <1>6, <2>1
<1> QED
  BY <1>3, <1>4, <1>6

\* A set in a total order is a sequence of its elements, each once.
LEMMA InOrderLists ==
    ASSUME NEW S, IsFiniteSet(S), NEW R,
           \A u \in S : <<u, u>> \notin R,
           \A u, v, w \in S : <<u, v>> \in R /\ <<v, w>> \in R => <<u, w>> \in R,
           \A u, v \in S : u # v => <<u, v>> \in R \/ <<v, u>> \in R
    PROVE  /\ InOrder(S, R) \in [1..Cardinality(S) -> S]
           /\ Cardinality(S) \in Nat
           /\ \A i, j \in 1..Cardinality(S) : InOrder(S, R)[i] = InOrder(S, R)[j] => i = j
<1> DEFINE n == Cardinality(S)
           Before(v) == {u \in S : <<u, v>> \in R}
           place == Places(S, R)
<1>1. n \in Nat /\ IsFiniteSet(1..n) /\ Cardinality(1..n) = n
  <2>1. n \in Nat
    BY FS_CardinalityType
  <2>2. IsFiniteSet(1..n) /\ Cardinality(1..n) = IF 1 > n THEN 0 ELSE n - 1 + 1
    BY <2>1, FS_Interval
  <2> QED
    BY <2>1, <2>2
<1>2. ASSUME NEW v \in S
      PROVE  /\ IsFiniteSet(Before(v)) /\ Cardinality(Before(v)) \in Nat
             /\ place[v] = Cardinality(Before(v)) + 1
  <2>1. IsFiniteSet(Before(v))
    BY FS_Subset
  <2> QED
    BY <2>1, FS_CardinalityType DEF Places
<1>3. ASSUME NEW u \in S, NEW v \in S, <<u, v>> \in R
      PROVE  place[u] < place[v]
  <2>1. Before(u) \cup {u} \subseteq Before(v)
    BY <1>3
  <2>2. u \notin Before(u)
    OBVIOUS
  <2>3. Cardinality(Before(u) \cup {u}) = Cardinality(Before(u)) + 1
    BY <1>2, <2>2, FS_AddElement
  <2>4. Cardinality(Before(u) \cup {u}) <= Cardinality(Before(v))
    BY <1>2, <2>1, FS_Subset
  <2> QED
    BY <1>2, <2>3, <2>4
<1>4. ASSUME NEW v \in S
      PROVE  place[v] \in 1..n
  <2>1. Before(v) \subseteq S \ {v}
    OBVIOUS
  <2>2. IsFiniteSet(S \ {v}) /\ Cardinality(S \ {v}) = n - 1
    BY FS_RemoveElement
  <2> HIDE DEF Before
  <2>3. Cardinality(Before(v)) <= Cardinality(S \ {v})
    BY <2>1, <2>2, FS_Subset
  <2> HIDE DEF place
  <2> QED
    BY <1>1, <1>2, <2>2, <2>3
<1>5. place \in Injection(S, 1..n)
  <2>1. place \in [S -> 1..n]
    <3>1. place = [v \in S |-> place[v]]
      BY DEF Places
    <3> HIDE DEF place
    <3> QED
      BY <1>4, <3>1
  <2>2. ASSUME NEW u \in S, NEW v \in S, place[u] = place[v]
        PROVE  u = v
    <3>1. place[u] \in Int
      BY <1>1, <1>4
    <3>2. ~(place[u] < place[v]) /\ ~(place[v] < place[u])
      BY <2>2, <3>1
    <3> HIDE DEF place
    <3> QED
      BY <1>3, <3>2
  <2> HIDE DEF place
  <2> QED
    BY <2>1, <2>2 DEF Injection, IsInjective
<1>6. place \in Surjection(S, 1..n)
  BY <1>1, <1>5, FS_Injection
<1>7. ASSUME NEW i \in 1..n
      PROVE  \E v \in S : place[v] = i
  <2> HIDE DEF place
  <2> QED
    BY <1>6 DEF Surjection
<1>8. ASSUME NEW i \in 1..n
      PROVE  InOrder(S, R)[i] \in S /\ place[InOrder(S, R)[i]] = i
  <2>1. InOrder(S, R)[i] = CHOOSE v \in S : place[v] = i
    BY DEF InOrder
  <2> HIDE DEF place
  <2> QED
    BY <1>7, <2>1
<1>9. InOrder(S, R) = [i \in 1..n |-> InOrder(S, R)[i]]
  BY DEF InOrder
<1>10. InOrder(S, R) \in [1..n -> S]
  BY <1>8, <1>9
<1> HIDE DEF place
<1> QED
  BY <1>1, <1>8, <1>10
=============================================================================
