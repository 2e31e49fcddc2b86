---------------------------- MODULE SearchProofs ----------------------------
(***************************************************************************)
(* Theorems about the two reads of one tenant's corpus and what the        *)
(* reranker is sent.                                                       *)
(*                                                                         *)
(* A search ends with what it read in five statements, of which no two saw *)
(* the same corpus, and a list asks about a page it read before; so the    *)
(* invariants say of everything in hand when it was so.  SInv: each list   *)
(* holds versions active at some time of the search (Fresh), what was lost *)
(* has its flag from there on (Flagged), and the counts that were read are *)
(* not above those there are (Grounded).  LInv: the events are rows of the *)
(* page in its order (Windowed), the tags still to be asked are of the row *)
(* in hand (Placed), and what showed a document all along will show its    *)
(* row (SteadyShows, SteadyRows).                                          *)
(***************************************************************************)
EXTENDS Timeline, RerankBudget, Subsequence

-----------------------------------------------------------------------------
(* Lists of versions.                                                      *)

OnePerDocument(s) == \A i, j \in DOMAIN s : DocOf[s[i]] = DocOf[s[j]] => i = j

\* The first rows of a list are rows of it, in the same places.
LEMMA UpToIsPrefix ==
    ASSUME NEW S, NEW s \in Seq(S), NEW n \in Nat
    PROVE  /\ UpTo(s, n) \in Seq(S)
           /\ Len(UpTo(s, n)) = Least(n, Len(s))
           /\ \A i \in DOMAIN UpTo(s, n) : i \in DOMAIN s /\ UpTo(s, n)[i] = s[i]
<1>1. Least(n, Len(s)) \in 0..Len(s)
  BY DEF Least
<1>2. SubSeq(s, 1, Least(n, Len(s))) = [i \in 1..Least(n, Len(s)) |-> s[i]]
  BY <1>1
<1>3. /\ UpTo(s, n) = [i \in 1..Least(n, Len(s)) |-> s[i]]
      /\ \A i \in 1..Least(n, Len(s)) : i \in 1..Len(s) /\ s[i] \in S
  BY <1>1, <1>2 DEF UpTo
<1> HIDE DEF UpTo
<1>4. UpTo(s, n) \in [1..Least(n, Len(s)) -> S]
  BY <1>3
<1> QED
  BY <1>1, <1>3, <1>4

\* Any set of versions has listings, each of them of all its elements, each once.
LEMMA ListingIsOnce ==
    ASSUME NEW S \in SUBSET Versions, NEW s \in SetToSeqs(S)
    PROVE  /\ s \in Seq(Versions) /\ Len(s) = Cardinality(S)
           /\ \A i \in DOMAIN s : s[i] \in S
           /\ \A i, j \in DOMAIN s : s[i] = s[j] => i = j
           /\ \A v \in S : \E i \in DOMAIN s : s[i] = v
<1>1. IsFiniteSet(S) /\ Cardinality(S) \in Nat
  BY SearchAssumption, FS_Subset, FS_CardinalityType
<1>2. s \in [1..Cardinality(S) -> S] /\ \A i, j \in 1..Cardinality(S) : i # j => s[i] # s[j]
  BY DEF SetToSeqs
<1>3. s \in Injection(1..Cardinality(S), S)
  BY <1>2 DEF Injection, IsInjective
<1>4. Cardinality(1..Cardinality(S)) = Cardinality(S)
  <2>1. Cardinality(1..Cardinality(S))
           = IF 1 > Cardinality(S) THEN 0 ELSE Cardinality(S) - 1 + 1
    BY <1>1, FS_Interval
  <2> QED
    BY <1>1, <2>1
<1>5. s \in Surjection(1..Cardinality(S), S)
  BY <1>1, <1>3, <1>4, FS_Injection
<1> QED
  BY <1>1, <1>2, <1>5 DEF Surjection

\* R orders S by a and b, the greater first, and then by c, which tells all
\* elements apart.
Keyed(S, R, a, b, c) ==
    /\ a \in [S -> Int] /\ b \in [S -> Int] /\ c \in [S -> Int]
    /\ \A u, v \in S : c[u] = c[v] => u = v
    /\ \A u, v \in S : <<u, v>> \in R <=>
          \/ a[u] > a[v]
          \/ a[u] = a[v] /\ (b[u] > b[v] \/ (b[u] = b[v] /\ c[u] < c[v]))

\* Such an order is total.
LEMMA ByKeys ==
    ASSUME NEW S \in SUBSET Versions, NEW R, NEW a, NEW b, NEW c, Keyed(S, R, a, b, c)
    PROVE  /\ InOrder(S, R) \in Seq(Versions)
           /\ \A i \in DOMAIN InOrder(S, R) : InOrder(S, R)[i] \in S
           /\ \A i, j \in DOMAIN InOrder(S, R) :
                 InOrder(S, R)[i] = InOrder(S, R)[j] => i = j
<1>1. IsFiniteSet(S)
  BY SearchAssumption, FS_Subset
<1>2. \A u \in S : a[u] \in Int /\ b[u] \in Int /\ c[u] \in Int
  BY DEF Keyed
<1>3. \A u \in S : <<u, u>> \notin R
  BY <1>2 DEF Keyed
<1>4. \A u, v, w \in S : <<u, v>> \in R /\ <<v, w>> \in R => <<u, w>> \in R
  BY <1>2 DEF Keyed
<1>5. \A u, v \in S : u # v => <<u, v>> \in R \/ <<v, u>> \in R
  BY <1>2 DEF Keyed
<1>6. /\ InOrder(S, R) \in [1..Cardinality(S) -> S]
      /\ Cardinality(S) \in Nat
      /\ \A i, j \in 1..Cardinality(S) : InOrder(S, R)[i] = InOrder(S, R)[j] => i = j
  BY <1>1, <1>3, <1>4, <1>5, InOrderLists
<1> HIDE DEF InOrder
<1>7. S \subseteq Versions /\ DOMAIN InOrder(S, R) = 1..Cardinality(S)
  BY <1>6
<1>8. \A i \in 1..Cardinality(S) : InOrder(S, R)[i] \in S
  BY <1>6
<1>9. InOrder(S, R) \in [1..Cardinality(S) -> Versions]
  BY <1>6
<1>10. InOrder(S, R) \in Seq(Versions)
  BY <1>6, <1>9
<1> QED
  BY <1>6, <1>7, <1>8, <1>10

-----------------------------------------------------------------------------
(* Fusion.                                                                 *)

\* The product that Parts is defined to be is a number.
LEMMA PartsAreNumbers == Denominator \in Nat
<1> DEFINE Turn(g, n) == IF n = 0 THEN 1 ELSE (RrfK + n) * g[n - 1]
           Up(m) == {g \in [0..m -> Nat] : g = [n \in 0..m |-> Turn(g, n)]}
           none == {m \in Nat : Up(m) = {}}
<1>1. RrfK \in Nat /\ Overfetch \in Nat
  BY SearchAssumption
<1>2. none = {}
  <2> SUFFICES ASSUME none # {} PROVE FALSE
    OBVIOUS
  <2>1. PICK m \in none : \A k \in none : m <= k
    <3>1. none \in SUBSET Nat
      OBVIOUS
    <3> HIDE DEF none
    <3> QED
      BY <3>1, LeastNatural
  <2>2. CASE m = 0
    <3>1. [n \in 0..0 |-> 1] \in Up(0)
      OBVIOUS
    <3> QED
      BY <2>1, <2>2, <3>1
  <2>3. CASE m # 0
    <3>1. m - 1 \in Nat /\ m - 1 \notin none
      <4>1. m \in Nat /\ m - 1 \in Nat /\ ~(m <= m - 1)
        BY <2>1, <2>3
      <4> HIDE DEF none
      <4> QED
        BY <2>1, <4>1
    <3>2. PICK g \in [0..(m - 1) -> Nat] : g = [n \in 0..(m - 1) |-> Turn(g, n)]
      BY <3>1
    <3> DEFINE h == [n \in 0..m |-> IF n = m THEN (RrfK + m) * g[m - 1] ELSE g[n]]
    <3>3. (RrfK + m) * g[m - 1] \in Nat
      BY <1>1, <3>1
    <3>4. h \in [0..m -> Nat]
      BY <3>1, <3>3
    <3>5. ASSUME NEW n \in 0..m
          PROVE  h[n] = Turn(h, n)
      <4>1. CASE n = 0
        BY <2>3, <3>1, <3>2, <4>1
      <4>2. CASE n # 0
        <5>1. n - 1 \in 0..(m - 1) /\ n - 1 \in 0..m /\ n - 1 # m
          BY <2>1, <4>2
        <5>2. h[n - 1] = g[n - 1]
          BY <5>1
        <5>3. ASSUME n # m
              PROVE  g[n] = (RrfK + n) * g[n - 1]
          <6>1. n \in 0..(m - 1)
            BY <2>1, <5>3
          <6>2. g[n] = Turn(g, n)
            BY <3>2, <6>1
          <6> QED
            BY <4>2, <6>2
        <5> QED
          BY <4>2, <5>2, <5>3
      <4> QED
        BY <4>1, <4>2
    <3>6. h \in Up(m)
      <4>1. h = [n \in 0..m |-> h[n]]
        OBVIOUS
      <4> HIDE DEF h
      <4> QED
        BY <3>4, <3>5, <4>1
    <3> QED
      BY <2>1, <3>6
  <2> QED
    BY <2>2, <2>3
<1>3. PICK g \in [0..Overfetch -> Nat] : g = [n \in 0..Overfetch |-> Turn(g, n)]
  <2>1. Overfetch \notin none
    BY <1>1, <1>2
  <2>2. Up(Overfetch) # {}
    BY <1>1, <2>1
  <2> QED
    BY <2>2
<1>4. Parts = [n \in 0..Overfetch |-> Turn(Parts, n)]
  BY <1>3 DEF Parts
<1>5. {n \in 0..Overfetch : Parts[n] \notin Nat} = {}
  <2> DEFINE odd == {n \in 0..Overfetch : Parts[n] \notin Nat}
  <2> SUFFICES ASSUME odd # {} PROVE FALSE
    OBVIOUS
  <2>1. PICK m \in odd : \A k \in odd : m <= k
    <3>1. odd \in SUBSET Nat
      BY <1>1
    <3> HIDE DEF odd
    <3> QED
      BY <3>1, LeastNatural
  <2>2. Parts[m] = IF m = 0 THEN 1 ELSE (RrfK + m) * Parts[m - 1]
    BY <1>4
  <2>3. m # 0 => m - 1 \in 0..Overfetch /\ m - 1 \notin odd
    BY <1>1, <2>1
  <2> QED
    BY <1>1, <2>1, <2>2, <2>3
<1> QED
  BY <1>1, <1>5 DEF Denominator

\* A row of a list is at a place of it.
LEMMA PositionIsThere ==
    ASSUME NEW s \in Seq(Versions), NEW v \in ToSet(s)
    PROVE  Position(s, v) \in DOMAIN s /\ s[Position(s, v)] = v
<1>1. \E i \in DOMAIN s : s[i] = v
  BY DEF ToSet
<1> QED
  BY <1>1 DEF Position

LEMMA ShareIsNumber ==
    ASSUME NEW s \in Seq(Versions), NEW v
    PROVE  Share(s, v) \in Int
<1>1. CASE v \in ToSet(s)
  <2>1. Position(s, v) \in Nat /\ Position(s, v) >= 1
    BY <1>1, PositionIsThere
  <2>2. RrfK + Position(s, v) \in Nat /\ RrfK + Position(s, v) > 0
    BY <2>1, SearchAssumption
  <2>3. \A d \in Nat : d > 0 => Denominator \div d \in Int
    BY PartsAreNumbers
  <2> QED
    BY <1>1, <2>2, <2>3 DEF Share
<1>2. CASE v \notin ToSet(s)
  BY <1>2 DEF Share
<1> QED
  BY <1>1, <1>2

LEMMA FusedIsNumber ==
    ASSUME lexical \in Seq(Versions), dense \in Seq(Versions), NEW v
    PROVE  Fused(v) \in Int
BY ShareIsNumber DEF Fused

LEMMA ScoreIsNumber ==
    ASSUME lexical \in Seq(Versions), dense \in Seq(Versions), NEW v, NEW prior
    PROVE  ScoreOf(v, prior) \in Int
<1>1. Fused(v) \in Int
  BY FusedIsNumber
<1>2. Fused(v) * 3 \in Int /\ Fused(v) * 2 \in Int
  BY <1>1
<1> QED
  BY <1>2 DEF ScoreOf

\* The rows of the two channels, each once.
LEMMA MergedIsOnce ==
    ASSUME lexical \in Seq(Versions), dense \in Seq(Versions)
    PROVE  /\ MergedRows \in Seq(Versions)
           /\ \A i \in DOMAIN MergedRows : MergedRows[i] \in ToSet(lexical) \cup ToSet(dense)
           /\ \A i, j \in DOMAIN MergedRows : MergedRows[i] = MergedRows[j] => i = j
<1> DEFINE S == ToSet(lexical) \cup ToSet(dense)
           met(v) == IF v \in ToSet(lexical) THEN Position(lexical, v)
                     ELSE Len(lexical) + Position(dense, v)
           R == {p \in Versions \X Versions :
                   \/ Fused(p[1]) > Fused(p[2])
                   \/ Fused(p[1]) = Fused(p[2]) /\ met(p[1]) < met(p[2])}
           a == [v \in S |-> Fused(v)]
           b == [v \in S |-> 0]
           c == [v \in S |-> met(v)]
<1>1. S \in SUBSET Versions
  BY DEF ToSet
<1>2. /\ \A v \in ToSet(lexical) : /\ Position(lexical, v) \in 1..Len(lexical)
                                   /\ lexical[Position(lexical, v)] = v
      /\ \A v \in ToSet(dense) : /\ Position(dense, v) \in 1..Len(dense)
                                 /\ dense[Position(dense, v)] = v
      /\ Len(lexical) \in Nat /\ Len(dense) \in Nat
  BY PositionIsThere
<1>3. a \in [S -> Int] /\ b \in [S -> Int]
  BY FusedIsNumber
<1>4. c \in [S -> Int]
  BY <1>2
<1>5. ASSUME NEW u \in S, NEW v \in S, met(u) = met(v)
      PROVE  u = v
  <2>1. CASE u \in ToSet(lexical) /\ v \in ToSet(lexical)
    BY <1>2, <1>5, <2>1
  <2>2. CASE u \notin ToSet(lexical) /\ v \notin ToSet(lexical)
    <3>1. Position(dense, u) = Position(dense, v)
      BY <1>2, <1>5, <2>2
    <3> QED
      BY <1>2, <2>2, <3>1
  <2>3. CASE u \in ToSet(lexical) /\ v \notin ToSet(lexical)
    BY <1>2, <1>5, <2>3
  <2>4. CASE u \notin ToSet(lexical) /\ v \in ToSet(lexical)
    BY <1>2, <1>5, <2>4
  <2> QED
    BY <2>1, <2>2, <2>3, <2>4
<1>6. ASSUME NEW u \in S, NEW v \in S
      PROVE  <<u, v>> \in R <=> \/ Fused(u) > Fused(v)
                                \/ Fused(u) = Fused(v) /\ met(u) < met(v)
  BY <1>1
<1>7. MergedRows = InOrder(S, R)
  BY DEF MergedRows
<1>8. \A v \in S : a[v] = Fused(v) /\ b[v] = 0 /\ c[v] = met(v)
  OBVIOUS
<1> HIDE DEF S, R, met, a, b, c
<1>9. ASSUME NEW u \in S, NEW v \in S
      PROVE  <<u, v>> \in R <=>
                \/ a[u] > a[v]
                \/ a[u] = a[v] /\ (b[u] > b[v] \/ (b[u] = b[v] /\ c[u] < c[v]))
  <2>1. ~(b[u] > b[v]) /\ b[u] = b[v]
    BY <1>8
  <2> QED
    BY <1>6, <1>8, <2>1
<1>10. Keyed(S, R, a, b, c)
  BY <1>3, <1>4, <1>5, <1>8, <1>9 DEF Keyed
<1>11. /\ InOrder(S, R) \in Seq(Versions)
       /\ \A i \in DOMAIN InOrder(S, R) : InOrder(S, R)[i] \in S
       /\ \A i, j \in DOMAIN InOrder(S, R) : InOrder(S, R)[i] = InOrder(S, R)[j] => i = j
  BY <1>1, <1>10, ByKeys
<1> QED
  BY <1>7, <1>11 DEF S

\* Of a list, one version of each document, and nothing that is not in it.
LEMMA PerDocumentIsOne ==
    ASSUME lexical \in Seq(Versions), dense \in Seq(Versions),
           NEW s \in Seq(Versions), NEW prior
    PROVE  /\ PerDocument(s, prior) \in Seq(Versions)
           /\ \A i \in DOMAIN PerDocument(s, prior) : PerDocument(s, prior)[i] \in ToSet(s)
           /\ OnePerDocument(PerDocument(s, prior))
<1> DEFINE better(u, v) ==
             \/ ScoreOf(u, prior) > ScoreOf(v, prior)
             \/ ScoreOf(u, prior) = ScoreOf(v, prior) /\ Position(s, u) < Position(s, v)
           S == {v \in ToSet(s) :
                   \A u \in {w \in ToSet(s) \ {v} : DocOf[w] = DocOf[v]} : better(v, u)}
           At(v) == {i \in DOMAIN s : DocOf[s[i]] = DocOf[v]}
           met(v) == CHOOSE i \in DOMAIN s :
                        DocOf[s[i]] = DocOf[v] /\ \A j \in 1..(i - 1) : DocOf[s[j]] # DocOf[v]
           later(u, v) == When[u] > When[v] \/ (When[u] = When[v] /\ met(u) < met(v))
           R == {p \in Versions \X Versions :
                     \/ ScoreOf(p[1], prior) > ScoreOf(p[2], prior)
                     \/ ScoreOf(p[1], prior) = ScoreOf(p[2], prior) /\ later(p[1], p[2])}
           a == [v \in S |-> ScoreOf(v, prior)]
           b == [v \in S |-> When[v]]
           c == [v \in S |-> met(v)]
<1>1. S \in SUBSET Versions /\ S \subseteq ToSet(s)
  BY DEF ToSet
<1>2. \A v : ScoreOf(v, prior) \in Int
  BY ScoreIsNumber
<1>3. ASSUME NEW u \in S, NEW v \in S, DocOf[u] = DocOf[v]
      PROVE  u = v
  <2>1. SUFFICES ASSUME u # v PROVE FALSE
    OBVIOUS
  <2>2. better(u, v) /\ better(v, u)
    BY <1>3, <2>1
  <2>3. Position(s, u) \in Int /\ Position(s, v) \in Int
    BY <1>1, PositionIsThere
  <2> HIDE DEF S
  <2> QED
    BY <1>2, <2>2, <2>3
<1>4. ASSUME NEW v \in S
      PROVE  met(v) \in DOMAIN s /\ DocOf[s[met(v)]] = DocOf[v]
  <2>1. At(v) # {}
    BY <1>1 DEF ToSet
  <2>2. PICK i \in At(v) : \A j \in At(v) : i <= j
    <3>1. At(v) \in SUBSET Nat
      OBVIOUS
    <3> HIDE DEF At
    <3> QED
      BY <2>1, <3>1, LeastNatural
  <2>3. \A j \in 1..(i - 1) : DocOf[s[j]] # DocOf[v]
    <3>1. ASSUME NEW j \in 1..(i - 1) PROVE j \in DOMAIN s /\ ~(i <= j)
      BY <2>2
    <3> QED
      BY <2>2, <3>1
  <2> QED
    BY <2>2, <2>3
<1>5. \A u, v \in S : met(u) = met(v) => u = v
  <2> HIDE DEF S, met
  <2> QED
    BY <1>3, <1>4
<1>6. \A v \in S : When[v] \in Int
  BY <1>1, SearchAssumption
<1>7. a \in [S -> Int] /\ b \in [S -> Int] /\ c \in [S -> Int]
  <2>1. \A v \in S : met(v) \in Int
    <3> HIDE DEF S, met
    <3> QED
      BY <1>4
  <2> HIDE DEF S, met
  <2> QED
    BY <1>2, <1>6, <2>1
<1>8. PerDocument(s, prior) = InOrder(S, R)
  BY DEF PerDocument, Ranked
<1>9. ASSUME NEW u \in S, NEW v \in S
      PROVE  <<u, v>> \in R <=>
                \/ ScoreOf(u, prior) > ScoreOf(v, prior)
                \/ ScoreOf(u, prior) = ScoreOf(v, prior) /\ later(u, v)
  <2> HIDE DEF S, met
  <2> QED
    BY <1>1
<1>10. \A v \in S : a[v] = ScoreOf(v, prior) /\ b[v] = When[v] /\ c[v] = met(v)
  <2> HIDE DEF S, met
  <2> QED
    OBVIOUS
<1> HIDE DEF S, R, met, a, b, c
<1>11. ASSUME NEW u \in S, NEW v \in S
       PROVE  <<u, v>> \in R <=>
                \/ a[u] > a[v]
                \/ a[u] = a[v] /\ (b[u] > b[v] \/ (b[u] = b[v] /\ c[u] < c[v]))
  BY <1>9, <1>10
<1>12. Keyed(S, R, a, b, c)
  BY <1>5, <1>7, <1>10, <1>11 DEF Keyed
<1>13. /\ InOrder(S, R) \in Seq(Versions)
       /\ \A i \in DOMAIN InOrder(S, R) : InOrder(S, R)[i] \in S
       /\ \A i, j \in DOMAIN InOrder(S, R) : InOrder(S, R)[i] = InOrder(S, R)[j] => i = j
  BY <1>1, <1>12, ByKeys
<1>14. OnePerDocument(InOrder(S, R))
  BY <1>3, <1>13 DEF OnePerDocument
<1> QED
  BY <1>1, <1>8, <1>13, <1>14

\* What is kept of a list is at places of it that rise.
LEMMA OnlyIsPart ==
    ASSUME NEW s \in Seq(Versions), NEW S
    PROVE  /\ Only(s, S) \in Seq(Versions) /\ Len(Only(s, S)) <= Len(s)
           /\ \E f \in [DOMAIN Only(s, S) -> DOMAIN s] :
                 /\ \A i \in DOMAIN Only(s, S) : Only(s, S)[i] = s[f[i]] /\ s[f[i]] \in S
                 /\ \A i, j \in DOMAIN Only(s, S) : f[i] = f[j] => i = j
<1> DEFINE P == {i \in DOMAIN s : s[i] \in S}
           n == Cardinality(P)
<1>1. P \in SUBSET DOMAIN s
  OBVIOUS
<1>2. Only(s, S) = ElementsAt(s, P)
  BY DEF Only
<1>3. \A k \in P : s[k] \in S /\ k \in DOMAIN s
  OBVIOUS
<1> HIDE DEF P
<1>4. /\ ElementsAt(s, P) \in Seq(Versions)
      /\ Len(ElementsAt(s, P)) = n /\ n <= Len(s)
  BY <1>1, ElementsAtType
<1>5. PICK f \in [1..n -> P] :
         /\ ElementsAt(s, P) = [i \in 1..n |-> s[f[i]]]
         /\ \A i, j \in 1..n : i < j => f[i] < f[j]
  BY <1>1, ElementsAtPositions
<1>6. DOMAIN Only(s, S) = 1..n /\ n \in Nat
  BY <1>2, <1>4
<1>7. \A i, j \in 1..n : f[i] = f[j] => i = j
  <2>1. \A i \in 1..n : i \in Int /\ f[i] \in Int
    BY <1>1, <1>5, <1>6
  <2>2. ASSUME NEW i \in 1..n, NEW j \in 1..n, f[i] = f[j]
        PROVE  ~(i < j) /\ ~(j < i)
    BY <1>5, <2>1, <2>2
  <2> QED
    BY <2>1, <2>2
<1>8. \A i \in 1..n : Only(s, S)[i] = s[f[i]] /\ s[f[i]] \in S
  BY <1>2, <1>3, <1>5
<1>9. f \in [1..n -> DOMAIN s]
  BY <1>1, <1>5
<1> QED
  BY <1>2, <1>4, <1>6, <1>7, <1>8, <1>9

\* Diversification reorders the list and cuts it.
LEMMA DiversifiedIsOne ==
    ASSUME K \in Nat, NEW s \in Seq(Versions), OnePerDocument(s), NEW r \in Diversified(s)
    PROVE  /\ r \in Seq(Versions) /\ Len(r) <= K
           /\ \A i \in DOMAIN r : r[i] \in ToSet(s)
           /\ OnePerDocument(r)
<1> DEFINE with == Only(s, vec)
           rest == Only(s, ToSet(s) \ vec)
<1>1. PICK t \in SetToSeqs(ToSet(with)) : r = UpTo(t \o rest, K)
  BY DEF Diversified
<1>2. /\ with \in Seq(Versions) /\ rest \in Seq(Versions)
      /\ \E f \in [DOMAIN with -> DOMAIN s] :
            \A i \in DOMAIN with : with[i] = s[f[i]] /\ s[f[i]] \in vec
      /\ \E f \in [DOMAIN rest -> DOMAIN s] :
            /\ \A i \in DOMAIN rest : rest[i] = s[f[i]] /\ s[f[i]] \in ToSet(s) \ vec
            /\ \A i, j \in DOMAIN rest : f[i] = f[j] => i = j
  BY OnlyIsPart
<1> HIDE DEF with, rest
<1>3. \A v \in ToSet(with) : v \in ToSet(s) /\ v \in vec /\ v \in Versions
  BY <1>2 DEF ToSet
<1>4. ToSet(with) \in SUBSET Versions
  BY <1>3
<1>5. /\ t \in Seq(Versions)
      /\ \A i \in DOMAIN t : t[i] \in ToSet(s) /\ t[i] \in vec
      /\ \A i, j \in DOMAIN t : t[i] = t[j] => i = j
  BY <1>1, <1>3, <1>4, ListingIsOnce
<1>6. \A u, v \in ToSet(s) : DocOf[u] = DocOf[v] => u = v
  BY DEF ToSet, OnePerDocument
<1>7. /\ \A i \in DOMAIN rest : rest[i] \in ToSet(s) /\ rest[i] \notin vec
      /\ \A i, j \in DOMAIN rest : DocOf[rest[i]] = DocOf[rest[j]] => i = j
  BY <1>2 DEF ToSet, OnePerDocument
<1> DEFINE all == t \o rest
<1>8. /\ all \in Seq(Versions)
      /\ \A i \in DOMAIN all : \/ i \in DOMAIN t /\ all[i] = t[i]
                               \/ /\ i - Len(t) \in DOMAIN rest
                                  /\ all[i] = rest[i - Len(t)]
  BY <1>2, <1>5
<1>9. \A i \in DOMAIN all : all[i] \in ToSet(s) /\ i \in Int
  BY <1>5, <1>7, <1>8
<1>10. ASSUME NEW i \in DOMAIN all, NEW j \in DOMAIN all, DocOf[all[i]] = DocOf[all[j]]
       PROVE  i = j
  <2>1. all[i] = all[j]
    BY <1>6, <1>9, <1>10
  <2>2. CASE i \in DOMAIN t /\ all[i] = t[i]
    <3>1. j \in DOMAIN t /\ all[j] = t[j]
      BY <1>5, <1>7, <1>8, <2>1, <2>2
    <3> QED
      BY <1>5, <2>1, <2>2, <3>1
  <2>3. CASE i - Len(t) \in DOMAIN rest /\ all[i] = rest[i - Len(t)]
    <3>1. j - Len(t) \in DOMAIN rest /\ all[j] = rest[j - Len(t)]
      BY <1>5, <1>7, <1>8, <2>1, <2>3
    <3>2. i - Len(t) = j - Len(t)
      BY <1>7, <1>10, <2>3, <3>1
    <3>3. i \in Int /\ j \in Int /\ Len(t) \in Int
      BY <1>5, <1>9
    <3> QED
      BY <3>2, <3>3
  <2> QED
    BY <1>8, <2>2, <2>3
<1> HIDE DEF all
<1>11. r = UpTo(all, K)
  BY <1>1 DEF all
<1>12. /\ r \in Seq(Versions) /\ Len(r) = Least(K, Len(all))
       /\ \A i \in DOMAIN r : i \in DOMAIN all /\ r[i] = all[i]
  BY <1>8, <1>11, UpToIsPrefix
<1>13. Len(all) \in Nat
  BY <1>8
<1>14. Len(r) <= K
  BY <1>12, <1>13 DEF Least
<1>15. OnePerDocument(r)
  BY <1>10, <1>12 DEF OnePerDocument
<1> QED
  BY <1>9, <1>12, <1>14, <1>15

\* Cutting a list leaves one version of each document.
LEMMA UpToIsOne ==
    ASSUME NEW s \in Seq(Versions), OnePerDocument(s), NEW n \in Nat
    PROVE  /\ UpTo(s, n) \in Seq(Versions) /\ Len(UpTo(s, n)) <= n
           /\ \A i \in DOMAIN UpTo(s, n) : UpTo(s, n)[i] \in ToSet(s)
           /\ OnePerDocument(UpTo(s, n))
<1>1. /\ UpTo(s, n) \in Seq(Versions) /\ Len(UpTo(s, n)) = Least(n, Len(s))
      /\ \A i \in DOMAIN UpTo(s, n) : i \in DOMAIN s /\ UpTo(s, n)[i] = s[i]
  BY UpToIsPrefix
<1>2. Len(UpTo(s, n)) <= n
  BY <1>1 DEF Least
<1> QED
  BY <1>1, <1>2 DEF OnePerDocument, ToSet

-----------------------------------------------------------------------------
(* The invariant of a search.                                              *)

\* What was found was active in the course of the search.
Found(s) == \A i \in DOMAIN s : s[i] \in wasActive

\* The rows in hand are of the search's own time; of each document one version is
\* active, and one is in what is left of the rows once they were reranked.
Fresh ==
    /\ active \subseteq wasActive
    /\ \A u, v \in active : DocOf[u] = DocOf[v] => u = v
    /\ Found(lexical) /\ Found(dense) /\ Found(boosted)
    /\ OnePerDocument(boosted)

\* What was lost of a search that goes on has been said.
Flagged ==
    /\ at \in {"lexical", "dense"} => used = {} /\ degraded = {}
    /\ at \notin {"lexical", "dense", "failed"} =>
          /\ "dense" \notin used => "dense_unavailable" \in degraded
          /\ ~engine.embed <=> "lexical_only" \in degraded
    /\ at \in {"evidence", "filter", "found"} /\ "rerank" \notin used =>
          degraded \cap {"rerank_unavailable", "rerank_query_too_long"} # {}

\* Counts that were read are of supports there are, and nothing is called strong
\* before the evidence is drawn, or without a ground then.
Grounded ==
    /\ \A v \in Versions : counts.merged[v] <= supports[v] /\ counts.lexical[v] <= supports[v]
    /\ at \notin {"filter", "found"} => evidence = "none"
    /\ StrongHasGround

SInv == SearchInv /\ Fresh /\ Flagged /\ Grounded

\* Whatever happens to the corpus.
Moved ==
    /\ active' \subseteq Versions /\ vec' \subseteq Versions /\ wasActive' \subseteq Versions
    /\ wasActive \subseteq wasActive' /\ active' \subseteq wasActive'
    /\ \A u, v \in active' : DocOf[u] = DocOf[v] => u = v
    /\ supports' \in [Versions -> Nat]
    /\ \A v \in Versions : supports[v] <= supports'[v]
    /\ UNCHANGED <<engine, at, lexical, dense, counts, boosted, confident, degraded, rows,
                   evidence, used>>

LEMMA MovedKeeps ==
    ASSUME SInv, Moved
    PROVE  SInv'
<1>1. STypeOK'
  BY DEF SInv, SearchInv, STypeOK, Moved
<1>2. OneHitPerDocument' /\ HitsWereActive'
  BY DEF SInv, SearchInv, OneHitPerDocument, HitsWereActive, Moved
<1>3. Fresh'
  BY DEF SInv, Fresh, Found, OnePerDocument, Moved
<1>4. Flagged'
  BY DEF SInv, Flagged, Moved
<1>5. Grounded'
  <2>1. ASSUME NEW v \in Versions
        PROVE  counts'.merged[v] <= supports'[v] /\ counts'.lexical[v] <= supports'[v]
    <3>1. /\ counts.merged[v] <= supports[v] /\ counts.lexical[v] <= supports[v]
          /\ supports[v] <= supports'[v] /\ counts' = counts
      BY DEF SInv, Grounded, Moved
    <3>2. /\ counts.merged[v] \in Nat /\ counts.lexical[v] \in Nat
          /\ supports[v] \in Nat /\ supports'[v] \in Nat
      BY DEF SInv, SearchInv, STypeOK, Moved
    <3> QED
      BY <3>1, <3>2
  <2>2. StrongHasGround'
    <3> SUFFICES ASSUME evidence = "strong" PROVE StrongHasGround'
      BY DEF StrongHasGround, Moved
    <3>1. PICK v \in wasActive \cap Authoritative :
             /\ v \in Stated \/ supports[v] >= SupportFloor
             /\ v \in StrongMatches \/ (confident # None /\ v \in confident)
      BY DEF SInv, Grounded, StrongHasGround
    <3>2. v \in Versions /\ v \in wasActive'
      BY DEF SInv, SearchInv, STypeOK, Moved
    <3>3. /\ supports[v] \in Nat /\ supports'[v] \in Nat /\ supports[v] <= supports'[v]
          /\ SupportFloor \in Nat
      BY <3>2, SearchAssumption DEF SInv, SearchInv, STypeOK, Moved
    <3>4. v \in Stated \/ supports'[v] >= SupportFloor
      BY <3>1, <3>3
    <3>5. v \in StrongMatches \/ (confident' # None /\ v \in confident')
      BY <3>1 DEF Moved
    <3> QED
      BY <3>1, <3>2, <3>4, <3>5 DEF StrongHasGround
  <2> QED
    BY <2>1, <2>2 DEF SInv, Grounded, Moved
<1> QED
  BY <1>1, <1>2, <1>3, <1>4, <1>5 DEF SInv, SearchInv

LEMMA CaptureMoves ==
    ASSUME SInv, NEW v \in Versions, Capture(v)
    PROVE  Moved
<1>1. /\ v \in active /\ Successor[v] # None /\ Successor[v] \in Versions
      /\ DocOf[Successor[v]] = DocOf[v]
  BY SearchAssumption DEF Capture
<1>2. active' = (active \ {v}) \cup {Successor[v]} /\ wasActive' = wasActive \cup {Successor[v]}
  BY DEF Capture
<1>3. /\ active \subseteq Versions /\ wasActive \subseteq Versions
      /\ active \subseteq wasActive
      /\ \A u, w \in active : DocOf[u] = DocOf[w] => u = w
  BY DEF SInv, SearchInv, STypeOK, Fresh
<1>4. \A u, w \in active' : DocOf[u] = DocOf[w] => u = w
  BY <1>1, <1>2, <1>3
<1>5. /\ supports' = supports /\ supports \in [Versions -> Nat]
      /\ vec' = vec /\ vec \subseteq Versions
  BY DEF SInv, SearchInv, STypeOK, Capture
<1>6. \A u \in Versions : supports[u] <= supports'[u]
  BY <1>5
<1> QED
  BY <1>1, <1>2, <1>3, <1>4, <1>5, <1>6 DEF Moved, Capture, Change

LEMMA RetireMoves ==
    ASSUME SInv, NEW v \in Versions, Retire(v)
    PROVE  Moved
<1>1. /\ active \subseteq Versions /\ wasActive \subseteq Versions /\ vec \subseteq Versions
      /\ active \subseteq wasActive
      /\ \A u, w \in active : DocOf[u] = DocOf[w] => u = w
      /\ supports \in [Versions -> Nat]
  BY DEF SInv, SearchInv, STypeOK, Fresh
<1>2. /\ active' = active \ {v}
      /\ UNCHANGED <<vec, supports, wasActive>>
  BY DEF Retire
<1>3. \A u \in Versions : supports[u] <= supports'[u]
  BY <1>1, <1>2
<1> QED
  BY <1>1, <1>2, <1>3 DEF Moved, Retire, Change

LEMMA EmbedMoves ==
    ASSUME SInv, NEW v \in Versions, Embed(v)
    PROVE  Moved
<1>1. /\ active \subseteq Versions /\ wasActive \subseteq Versions /\ vec \subseteq Versions
      /\ active \subseteq wasActive
      /\ \A u, w \in active : DocOf[u] = DocOf[w] => u = w
      /\ supports \in [Versions -> Nat]
  BY DEF SInv, SearchInv, STypeOK, Fresh
<1>2. /\ vec' = vec \cup {v}
      /\ UNCHANGED <<active, supports, wasActive>>
  BY DEF Embed
<1>3. \A u \in Versions : supports[u] <= supports'[u]
  BY <1>1, <1>2
<1> QED
  BY <1>1, <1>2, <1>3 DEF Moved, Embed, Change

LEMMA SupportMoves ==
    ASSUME SInv, NEW v \in Versions, Support(v)
    PROVE  Moved
<1>1. /\ active \subseteq Versions /\ wasActive \subseteq Versions /\ vec \subseteq Versions
      /\ active \subseteq wasActive
      /\ \A u, w \in active : DocOf[u] = DocOf[w] => u = w
      /\ supports \in [Versions -> Nat]
  BY DEF SInv, SearchInv, STypeOK, Fresh
<1>2. /\ supports' = [supports EXCEPT ![v] = @ + 1]
      /\ UNCHANGED <<active, vec, wasActive>>
  BY DEF Support
<1>3. supports' \in [Versions -> Nat] /\ \A u \in Versions : supports[u] <= supports'[u]
  BY <1>1, <1>2
<1> QED
  BY <1>1, <1>2, <1>3 DEF Moved, Support, Change

-----------------------------------------------------------------------------
(* Every step of a search keeps it.                                        *)

LEMMA Numbers ==
    /\ K \in Nat /\ Overfetch \in Nat /\ RerankLimit \in Nat /\ PoolSize \in Nat
    /\ SupportFloor \in Nat
BY SearchAssumption

\* The lists of versions, and what is true of them.
LEMMA ListsAre ==
    ASSUME SInv
    PROVE  /\ lexical \in Seq(Versions) /\ dense \in Seq(Versions)
           /\ boosted \in Seq(Versions) /\ rows \in Seq(Versions)
           /\ Found(lexical) /\ Found(dense) /\ Found(boosted) /\ Found(rows)
           /\ OnePerDocument(boosted) /\ OnePerDocument(rows)
BY DEF SInv, SearchInv, STypeOK, OneHitPerDocument, HitsWereActive, Fresh, Found, OnePerDocument

LEMMA LexicalReadKeeps ==
    ASSUME SInv, LexicalRead
    PROVE  SInv'
<1>1. PICK s \in SetToSeqs(active \cap Matches) : lexical' = UpTo(s, Overfetch)
  BY DEF LexicalRead, Searchable
<1>2. s \in Seq(Versions) /\ \A i \in DOMAIN s : s[i] \in active
  <2>1. active \cap Matches \in SUBSET Versions
    BY DEF SInv, SearchInv, STypeOK
  <2> QED
    BY <2>1, ListingIsOnce
<1>3. /\ lexical' \in Seq(Versions) /\ Len(lexical') <= Overfetch
      /\ \A i \in DOMAIN lexical' : lexical'[i] \in active
  <2>1. /\ lexical' \in Seq(Versions) /\ Len(lexical') = Least(Overfetch, Len(s))
        /\ \A i \in DOMAIN lexical' : i \in DOMAIN s /\ lexical'[i] = s[i]
    BY <1>1, <1>2, Numbers, UpToIsPrefix
  <2> QED
    BY <1>2, <2>1, Numbers DEF Least
<1>4. /\ at = "lexical" /\ at' = "dense"
      /\ UNCHANGED <<corpusVars, engine, dense, counts, boosted, confident, degraded, rows,
                     evidence, wasActive, used>>
  BY DEF LexicalRead
<1>5. STypeOK'
  BY <1>3, <1>4 DEF SInv, SearchInv, STypeOK, corpusVars
<1>6. OneHitPerDocument' /\ HitsWereActive'
  BY <1>4 DEF SInv, SearchInv, OneHitPerDocument, HitsWereActive
<1>7. Fresh'
  BY <1>3, <1>4 DEF SInv, Fresh, Found, OnePerDocument, corpusVars
<1>8. Flagged'
  BY <1>4 DEF SInv, Flagged
<1>9. Grounded'
  BY <1>4 DEF SInv, Grounded, StrongHasGround, corpusVars
<1> QED
  BY <1>5, <1>6, <1>7, <1>8, <1>9 DEF SInv, SearchInv

LEMMA DenseReadKeeps ==
    ASSUME SInv, DenseRead
    PROVE  SInv'
<1>1. PICK s, flags, ch : DenseIs(s, flags, ch)
        /\ \/ ~engine.embed /\ s = <<>> /\ flags = {"dense_unavailable", "lexical_only"}
              /\ ch = {}
           \/ engine.embed /\ s = <<>> /\ flags = {"dense_unavailable"} /\ ch = {}
           \/ engine.embed /\ s \in Listings(active \cap vec) /\ flags = {} /\ ch = {"dense"}
  BY DEF DenseRead, Searchable
<1>2. /\ s \in Seq(Versions) /\ Len(s) <= Overfetch
      /\ \A i \in DOMAIN s : s[i] \in active
  <2>1. CASE s = <<>>
    BY <2>1, Numbers
  <2>2. CASE s \in Listings(active \cap vec)
    <3>1. PICK T \in SUBSET (active \cap vec) : \E t \in SetToSeqs(T) : s = UpTo(t, Overfetch)
      BY <2>2 DEF Listings
    <3>2. PICK t \in SetToSeqs(T) : s = UpTo(t, Overfetch)
      BY <3>1
    <3>3. T \in SUBSET Versions /\ T \subseteq active
      BY <3>1 DEF SInv, SearchInv, STypeOK
    <3>4. t \in Seq(Versions) /\ \A i \in DOMAIN t : t[i] \in active
      BY <3>3, ListingIsOnce
    <3>5. /\ s \in Seq(Versions) /\ Len(s) = Least(Overfetch, Len(t))
          /\ \A i \in DOMAIN s : i \in DOMAIN t /\ s[i] = t[i]
      BY <3>2, <3>4, Numbers, UpToIsPrefix
    <3> QED
      BY <3>4, <3>5, Numbers DEF Least
  <2> QED
    BY <1>1, <2>1, <2>2
<1>3. /\ at = "dense" /\ at' = "counts"
      /\ dense' = s /\ degraded' = flags /\ used' = ch
      /\ UNCHANGED <<corpusVars, engine, lexical, counts, boosted, confident, rows, evidence,
                     wasActive>>
  BY <1>1 DEF DenseIs
<1>4. STypeOK'
  BY <1>1, <1>2, <1>3 DEF SInv, SearchInv, STypeOK, corpusVars
<1>5. OneHitPerDocument' /\ HitsWereActive'
  BY <1>3 DEF SInv, SearchInv, OneHitPerDocument, HitsWereActive
<1>6. Fresh'
  BY <1>2, <1>3 DEF SInv, Fresh, Found, OnePerDocument, corpusVars
<1>7. Flagged'
  BY <1>1, <1>3 DEF SInv, Flagged
<1>8. Grounded'
  BY <1>3 DEF SInv, Grounded, StrongHasGround, corpusVars
<1> QED
  BY <1>4, <1>5, <1>6, <1>7, <1>8 DEF SInv, SearchInv

LEMMA CountKeeps ==
    ASSUME SInv, CountMerged \/ CountLexical
    PROVE  SInv'
<1>1. /\ at \in {"counts", "lexicalCounts"}
      /\ at' \in {"lexicalCounts", "rerank"}
      /\ \/ counts' = [counts EXCEPT !.merged = supports]
         \/ counts' = [counts EXCEPT !.lexical = supports]
      /\ UNCHANGED <<corpusVars, engine, lexical, dense, boosted, confident, degraded, rows,
                     evidence, wasActive, used>>
  BY DEF CountMerged, CountLexical
<1>2. /\ supports \in [Versions -> Nat]
      /\ counts \in [merged : [Versions -> Nat], lexical : [Versions -> Nat]]
  BY DEF SInv, SearchInv, STypeOK
<1>3. STypeOK'
  <2>1. counts' \in [merged : [Versions -> Nat], lexical : [Versions -> Nat]]
    BY <1>1, <1>2
  <2> QED
    BY <1>1, <2>1 DEF SInv, SearchInv, STypeOK, corpusVars
<1>4. OneHitPerDocument' /\ HitsWereActive'
  BY <1>1 DEF SInv, SearchInv, OneHitPerDocument, HitsWereActive
<1>5. Fresh'
  BY <1>1 DEF SInv, Fresh, Found, OnePerDocument, corpusVars
<1>6. Flagged'
  BY <1>1 DEF SInv, Flagged
<1>7. Grounded'
  <2>1. ASSUME NEW v \in Versions
        PROVE  counts'.merged[v] <= supports'[v] /\ counts'.lexical[v] <= supports'[v]
    <3>1. supports[v] \in Nat /\ supports' = supports
      BY <1>1, <1>2 DEF corpusVars
    <3>2. /\ counts.merged[v] <= supports[v] /\ counts.lexical[v] <= supports[v]
      BY DEF SInv, Grounded
    <3>3. CASE counts' = [counts EXCEPT !.merged = supports]
      <4>1. counts'.merged = supports /\ counts'.lexical = counts.lexical
        BY <1>2, <3>3
      <4> QED
        BY <3>1, <3>2, <4>1
    <3>4. CASE counts' = [counts EXCEPT !.lexical = supports]
      <4>1. counts'.lexical = supports /\ counts'.merged = counts.merged
        BY <1>2, <3>4
      <4> QED
        BY <3>1, <3>2, <4>1
    <3> QED
      BY <1>1, <3>3, <3>4
  <2> QED
    BY <1>1, <2>1 DEF SInv, Grounded, StrongHasGround, corpusVars
<1> QED
  BY <1>3, <1>4, <1>5, <1>6, <1>7 DEF SInv, SearchInv

\* What the channels found, one version of each document.
LEMMA BestRows ==
    ASSUME SInv, NEW prior, NEW n \in Nat
    PROVE  LET best == UpTo(PerDocument(MergedRows, prior), n)
           IN best \in Seq(Versions) /\ Len(best) <= n /\ Found(best) /\ OnePerDocument(best)
<1>1. /\ MergedRows \in Seq(Versions)
      /\ \A i \in DOMAIN MergedRows : MergedRows[i] \in ToSet(lexical) \cup ToSet(dense)
  BY ListsAre, MergedIsOnce
<1>2. \A v \in ToSet(lexical) \cup ToSet(dense) : v \in wasActive
  BY ListsAre DEF ToSet, Found
<1>3. \A v \in ToSet(MergedRows) : v \in wasActive
  BY <1>1, <1>2 DEF ToSet
<1> DEFINE s == PerDocument(MergedRows, prior)
<1>4. /\ s \in Seq(Versions) /\ OnePerDocument(s)
      /\ \A i \in DOMAIN s : s[i] \in ToSet(MergedRows)
  BY <1>1, ListsAre, PerDocumentIsOne
<1> HIDE DEF s
<1>5. \A v \in ToSet(s) : v \in wasActive
  BY <1>3, <1>4 DEF ToSet
<1>6. /\ UpTo(s, n) \in Seq(Versions) /\ Len(UpTo(s, n)) <= n
      /\ \A i \in DOMAIN UpTo(s, n) : UpTo(s, n)[i] \in ToSet(s)
      /\ OnePerDocument(UpTo(s, n))
  BY <1>4, UpToIsOne
<1>7. Found(UpTo(s, n))
  BY <1>5, <1>6 DEF Found
<1> QED
  BY <1>6, <1>7 DEF s

\* The rows of the channels take the reranker's place, and that is said.
LEMMA FallBackKeeps ==
    ASSUME SInv, at \in {"rerank", "vectors"},
           NEW flag \in {"rerank_unavailable", "rerank_query_too_long"}, FallBack(flag),
           UNCHANGED <<corpusVars, engine, lexical, dense, counts, boosted, confident, evidence,
                       wasActive, used>>
    PROVE  SInv'
<1>1. degraded' = degraded \cup {flag} /\ rows' = FusedRows /\ at' = "evidence"
  BY DEF FallBack, WithReason
<1>2. /\ rows' \in Seq(Versions) /\ Len(rows') <= K /\ Found(rows') /\ OnePerDocument(rows')
  BY <1>1, Numbers, BestRows DEF FusedRows
<1>3. STypeOK'
  BY <1>1, <1>2 DEF SInv, SearchInv, STypeOK, corpusVars
<1>4. OneHitPerDocument' /\ HitsWereActive'
  BY <1>2 DEF OneHitPerDocument, HitsWereActive, OnePerDocument, Found
<1>5. Fresh'
  BY DEF SInv, Fresh, Found, OnePerDocument, corpusVars
<1>6. Flagged'
  BY <1>1 DEF SInv, Flagged
<1>7. Grounded'
  BY <1>1 DEF SInv, Grounded, StrongHasGround, corpusVars
<1> QED
  BY <1>3, <1>4, <1>5, <1>6, <1>7 DEF SInv, SearchInv

LEMMA RerankKeeps ==
    ASSUME SInv, Rerank
    PROVE  SInv'
<1>1. /\ at = "rerank"
      /\ UNCHANGED <<corpusVars, engine, lexical, dense, counts, evidence, wasActive, used>>
  BY DEF Rerank
<1>2. CASE NotReranked
  <2>1. PICK flag \in {"rerank_unavailable", "rerank_query_too_long"} : FallBack(flag)
    BY <1>2 DEF NotReranked
  <2>2. UNCHANGED <<boosted, confident>>
    BY <1>2 DEF NotReranked
  <2> QED
    BY <1>1, <2>1, <2>2, FallBackKeeps
<1>3. CASE Reranked
  <2>1. PICK s \in SetToSeqs(ToSet(Candidates)) : boosted' = UpTo(s, PoolSize)
    BY <1>3 DEF Reranked, Boosts
  <2>2. /\ confident' \in SUBSET ToSet(Candidates) /\ at' = "vectors"
        /\ UNCHANGED <<degraded, rows>>
    BY <1>3 DEF Reranked, Sure
  <2>3. Candidates \in Seq(Versions) /\ Found(Candidates) /\ OnePerDocument(Candidates)
    BY Numbers, BestRows DEF Candidates
  <2>4. /\ ToSet(Candidates) \in SUBSET Versions
        /\ \A v \in ToSet(Candidates) : v \in wasActive
        /\ \A u, v \in ToSet(Candidates) : DocOf[u] = DocOf[v] => u = v
    BY <2>3 DEF ToSet, Found, OnePerDocument
  <2>5. /\ s \in Seq(Versions)
        /\ \A i \in DOMAIN s : s[i] \in ToSet(Candidates)
        /\ \A i, j \in DOMAIN s : s[i] = s[j] => i = j
    BY <2>4, ListingIsOnce
  <2>6. OnePerDocument(s)
    BY <2>4, <2>5 DEF OnePerDocument
  <2>7. /\ boosted' \in Seq(Versions) /\ OnePerDocument(boosted')
        /\ \A i \in DOMAIN boosted' : boosted'[i] \in ToSet(s)
    BY <2>1, <2>5, <2>6, Numbers, UpToIsOne
  <2>8. Found(boosted')
    BY <2>4, <2>5, <2>7 DEF Found, ToSet
  <2>9. STypeOK'
    BY <1>1, <2>2, <2>4, <2>7 DEF SInv, SearchInv, STypeOK, corpusVars
  <2>10. OneHitPerDocument' /\ HitsWereActive'
    BY <1>1, <2>2 DEF SInv, SearchInv, OneHitPerDocument, HitsWereActive
  <2>11. Fresh'
    BY <1>1, <2>7, <2>8 DEF SInv, Fresh, Found, OnePerDocument, corpusVars
  <2>12. Flagged'
    BY <1>1, <2>2 DEF SInv, Flagged
  <2>13. Grounded'
    BY <1>1, <2>2 DEF SInv, Grounded, StrongHasGround, corpusVars
  <2> QED
    BY <2>9, <2>10, <2>11, <2>12, <2>13 DEF SInv, SearchInv
<1> QED
  BY <1>2, <1>3 DEF Rerank

LEMMA DiversifyKeeps ==
    ASSUME SInv, Diversify
    PROVE  SInv'
<1>1. /\ at = "vectors"
      /\ UNCHANGED <<corpusVars, engine, lexical, dense, counts, boosted, confident, evidence,
                     wasActive>>
  BY DEF Diversify
<1>2. CASE FallBack("rerank_unavailable") /\ UNCHANGED used
  BY <1>1, <1>2, FallBackKeeps
<1>3. CASE /\ rows' \in Diversified(boosted)
           /\ used' = used \cup {"rerank"}
           /\ at' = "evidence"
           /\ UNCHANGED degraded
  <2>1. /\ rows' \in Seq(Versions) /\ Len(rows') <= K /\ OnePerDocument(rows')
        /\ \A i \in DOMAIN rows' : rows'[i] \in ToSet(boosted)
    BY <1>3, Numbers, ListsAre, DiversifiedIsOne
  <2>2. Found(rows')
    BY <2>1, ListsAre DEF Found, ToSet
  <2>3. STypeOK'
    BY <1>1, <1>3, <2>1 DEF SInv, SearchInv, STypeOK, corpusVars
  <2>4. OneHitPerDocument' /\ HitsWereActive'
    BY <1>1, <2>1, <2>2 DEF OneHitPerDocument, HitsWereActive, OnePerDocument, Found
  <2>5. Fresh'
    BY <1>1 DEF SInv, Fresh, Found, OnePerDocument, corpusVars
  <2>6. Flagged'
    BY <1>1, <1>3 DEF SInv, Flagged
  <2>7. Grounded'
    BY <1>1, <1>3 DEF SInv, Grounded, StrongHasGround, corpusVars
  <2> QED
    BY <2>3, <2>4, <2>5, <2>6, <2>7 DEF SInv, SearchInv
<1> QED
  BY <1>2, <1>3 DEF Diversify

\* Evidence that is strong as it is drawn has a ground, on either path.
LEMMA EvidenceIsGrounded ==
    ASSUME SInv, EvidenceOf = "strong"
    PROVE  \E v \in wasActive \cap Authoritative :
              /\ v \in Stated \/ supports[v] >= SupportFloor
              /\ v \in StrongMatches \/ (confident # None /\ v \in confident)
<1>1. \A v \in Versions : /\ supports[v] \in Nat
                          /\ counts.merged[v] \in Nat /\ counts.lexical[v] \in Nat
                          /\ counts.merged[v] <= supports[v] /\ counts.lexical[v] <= supports[v]
  BY DEF SInv, SearchInv, STypeOK, Grounded
<1>2. SupportFloor \in Nat /\ wasActive \subseteq Versions
  BY Numbers DEF SInv, SearchInv, STypeOK
<1>3. rows # <<>>
  BY DEF EvidenceOf
<1>4. CASE confident # None /\ rows[1] \in confident /\ Gate(rows[1], counts.merged)
  <2>1. rows[1] \in wasActive
    BY <1>3, ListsAre DEF Found
  <2>2. rows[1] \in Authoritative
        /\ (rows[1] \in Stated \/ counts.merged[rows[1]] >= SupportFloor)
    BY <1>4 DEF Gate
  <2>3. rows[1] \in Stated \/ supports[rows[1]] >= SupportFloor
    BY <1>1, <1>2, <2>1, <2>2
  <2> QED
    BY <1>4, <2>1, <2>2, <2>3
<1>5. CASE lexical # <<>> /\ lexical[1] \in StrongMatches /\ Gate(lexical[1], counts.lexical)
  <2>1. lexical[1] \in wasActive
    BY <1>5, ListsAre DEF Found
  <2>2. lexical[1] \in Authoritative
        /\ (lexical[1] \in Stated \/ counts.lexical[lexical[1]] >= SupportFloor)
    BY <1>5 DEF Gate
  <2>3. lexical[1] \in Stated \/ supports[lexical[1]] >= SupportFloor
    BY <1>1, <1>2, <2>1, <2>2
  <2> QED
    BY <1>5, <2>1, <2>2, <2>3
<1> QED
  BY <1>3, <1>4, <1>5 DEF EvidenceOf

\* Nothing is left of what was read by the way.
LEMMA OverIsEmpty ==
    ASSUME SInv, Over, UNCHANGED <<active, wasActive>>
    PROVE  /\ lexical' \in Seq(Versions) /\ dense' \in Seq(Versions)
           /\ boosted' \in Seq(Versions)
           /\ Len(lexical') <= Overfetch /\ Len(dense') <= Overfetch
           /\ counts' \in [merged : [Versions -> Nat], lexical : [Versions -> Nat]]
           /\ \A v \in Versions : counts'.merged[v] = 0 /\ counts'.lexical[v] = 0
           /\ Fresh'
<1>1. lexical' = <<>> /\ dense' = <<>> /\ boosted' = <<>>
  BY DEF Over
<1>2. Fresh'
  BY <1>1 DEF SInv, Fresh, Found, OnePerDocument
<1> QED
  BY <1>1, <1>2, Numbers DEF Over, NoCounts

LEMMA ConcludeKeeps ==
    ASSUME SInv, Conclude
    PROVE  SInv'
<1>1. /\ at = "evidence" /\ evidence' = EvidenceOf /\ Over
      /\ at' \in {"filter", "found"}
      /\ UNCHANGED <<corpusVars, engine, confident, degraded, rows, wasActive, used>>
  BY DEF Conclude
<1>2. /\ lexical' \in Seq(Versions) /\ dense' \in Seq(Versions) /\ boosted' \in Seq(Versions)
      /\ Len(lexical') <= Overfetch /\ Len(dense') <= Overfetch
      /\ counts' \in [merged : [Versions -> Nat], lexical : [Versions -> Nat]]
      /\ \A v \in Versions : counts'.merged[v] = 0 /\ counts'.lexical[v] = 0
      /\ Fresh'
  BY <1>1, OverIsEmpty DEF corpusVars
<1>3. STypeOK'
  <2>1. EvidenceOf \in {"strong", "weak", "none"}
    BY DEF EvidenceOf
  <2> QED
    BY <1>1, <1>2, <2>1 DEF SInv, SearchInv, STypeOK, corpusVars
<1>4. OneHitPerDocument' /\ HitsWereActive'
  BY <1>1 DEF SInv, SearchInv, OneHitPerDocument, HitsWereActive
<1>5. Flagged'
  BY <1>1 DEF SInv, Flagged
<1>6. Grounded'
  <2>1. ASSUME NEW v \in Versions
        PROVE  counts'.merged[v] <= supports'[v] /\ counts'.lexical[v] <= supports'[v]
    <3>1. supports'[v] \in Nat
      BY <1>1 DEF SInv, SearchInv, STypeOK, corpusVars
    <3> QED
      BY <1>2, <3>1
  <2>2. StrongHasGround'
    BY <1>1, EvidenceIsGrounded DEF StrongHasGround, corpusVars
  <2> QED
    BY <1>1, <2>1, <2>2 DEF Grounded
<1> QED
  BY <1>2, <1>3, <1>4, <1>5, <1>6 DEF SInv, SearchInv

LEMMA FilterKeeps ==
    ASSUME SInv, Filter
    PROVE  SInv'
<1>1. PICK shown \in SUBSET Docs : rows' = Only(rows, {v \in Versions : DocOf[v] \in shown})
  BY DEF Filter
<1>2. /\ at = "filter" /\ at' = "found"
      /\ evidence' \in {"none", evidence}
      /\ UNCHANGED <<corpusVars, engine, lexical, dense, counts, boosted, confident, degraded,
                     wasActive, used>>
  BY DEF Filter
<1>3. /\ rows' \in Seq(Versions) /\ Len(rows') <= Len(rows)
      /\ \E f \in [DOMAIN rows' -> DOMAIN rows] :
            /\ \A i \in DOMAIN rows' : rows'[i] = rows[f[i]]
            /\ \A i, j \in DOMAIN rows' : f[i] = f[j] => i = j
  <2> DEFINE kept == Only(rows, {v \in Versions : DocOf[v] \in shown})
  <2>1. /\ kept \in Seq(Versions) /\ Len(kept) <= Len(rows)
        /\ \E f \in [DOMAIN kept -> DOMAIN rows] :
              /\ \A i \in DOMAIN kept : /\ kept[i] = rows[f[i]]
                                       /\ rows[f[i]] \in {v \in Versions : DocOf[v] \in shown}
              /\ \A i, j \in DOMAIN kept : f[i] = f[j] => i = j
    BY ListsAre, OnlyIsPart
  <2> HIDE DEF kept
  <2>2. PICK f \in [DOMAIN kept -> DOMAIN rows] :
              /\ \A i \in DOMAIN kept : kept[i] = rows[f[i]]
              /\ \A i, j \in DOMAIN kept : f[i] = f[j] => i = j
    BY <2>1
  <2>3. rows' = kept
    BY <1>1 DEF kept
  <2>4. kept \in Seq(Versions) /\ Len(kept) <= Len(rows)
    BY <2>1
  <2>5. rows' \in Seq(Versions) /\ Len(rows') <= Len(rows)
    BY <2>3, <2>4
  <2>6. \E h \in [DOMAIN rows' -> DOMAIN rows] :
              /\ \A i \in DOMAIN rows' : rows'[i] = rows[h[i]]
              /\ \A i, j \in DOMAIN rows' : h[i] = h[j] => i = j
    <3>1. f \in [DOMAIN rows' -> DOMAIN rows]
      BY <2>2, <2>3
    <3>2. \A i \in DOMAIN rows' : rows'[i] = rows[f[i]]
      BY <2>2, <2>3
    <3>3. \A i, j \in DOMAIN rows' : f[i] = f[j] => i = j
      BY <2>2, <2>3
    <3> QED
      BY <3>1, <3>2, <3>3
  <2> QED
    BY <2>5, <2>6, Zenon
<1>4. Len(rows') <= K
  <2>1. Len(rows) \in Nat /\ Len(rows') \in Nat /\ Len(rows) <= K
    BY <1>3, ListsAre DEF SInv, SearchInv, STypeOK
  <2> QED
    BY <1>3, <2>1, Numbers
<1>5. STypeOK'
  BY <1>2, <1>3, <1>4 DEF SInv, SearchInv, STypeOK, corpusVars
<1>6. OneHitPerDocument' /\ HitsWereActive'
  <2>1. OnePerDocument(rows) /\ Found(rows)
    BY ListsAre
  <2> QED
    BY <1>2, <1>3, <2>1 DEF OneHitPerDocument, HitsWereActive, OnePerDocument, Found
<1>7. Fresh'
  BY <1>2 DEF SInv, Fresh, Found, OnePerDocument, corpusVars
<1>8. Flagged'
  BY <1>2 DEF SInv, Flagged
<1>9. Grounded'
  BY <1>2 DEF SInv, Grounded, StrongHasGround, corpusVars
<1> QED
  BY <1>5, <1>6, <1>7, <1>8, <1>9 DEF SInv, SearchInv

LEMMA DatabaseFailsKeeps ==
    ASSUME SInv, DatabaseFails
    PROVE  SInv'
<1>1. /\ at' = "failed" /\ Over
      /\ rows' = <<>> /\ degraded' = {} /\ evidence' = "none" /\ confident' = None
      /\ UNCHANGED <<corpusVars, engine, wasActive, used>>
  BY DEF DatabaseFails
<1>2. /\ lexical' \in Seq(Versions) /\ dense' \in Seq(Versions) /\ boosted' \in Seq(Versions)
      /\ Len(lexical') <= Overfetch /\ Len(dense') <= Overfetch
      /\ counts' \in [merged : [Versions -> Nat], lexical : [Versions -> Nat]]
      /\ \A v \in Versions : counts'.merged[v] = 0 /\ counts'.lexical[v] = 0
      /\ Fresh'
  BY <1>1, OverIsEmpty DEF corpusVars
<1>3. STypeOK'
  BY <1>1, <1>2, Numbers DEF SInv, SearchInv, STypeOK, corpusVars
<1>4. OneHitPerDocument' /\ HitsWereActive'
  BY <1>1 DEF OneHitPerDocument, HitsWereActive
<1>5. Flagged'
  BY <1>1 DEF Flagged
<1>6. Grounded'
  <2>1. ASSUME NEW v \in Versions
        PROVE  counts'.merged[v] <= supports'[v] /\ counts'.lexical[v] <= supports'[v]
    <3>1. supports'[v] \in Nat
      BY <1>1 DEF SInv, SearchInv, STypeOK, corpusVars
    <3> QED
      BY <1>2, <3>1
  <2> QED
    BY <1>1, <2>1 DEF Grounded, StrongHasGround
<1> QED
  BY <1>2, <1>3, <1>4, <1>5, <1>6 DEF SInv, SearchInv

-----------------------------------------------------------------------------
(* The invariant of a list.                                                *)

Row == [version : Versions, tags : SUBSET Tags]

\* The page is newest first, and the events are rows of it that have been
\* filtered, in its order.
Windowed ==
    /\ \A i, j \in DOMAIN page : i < j => When[page[i].version] >= When[page[j].version]
    /\ \E f \in [DOMAIN events -> DOMAIN page] :
          /\ \A i \in DOMAIN events : events[i] = page[f[i]] /\ f[i] < next
          /\ \A i, j \in DOMAIN events : i < j => f[i] < f[j]

\* Where the list is: nothing is read before its first step, only a list has one,
\* and the tags still to be asked are of the row it is at.
Placed ==
    /\ step = "read" => page = <<>> /\ events = <<>> /\ next = 1 /\ left = None
    /\ call = "search" => step = "read"
    /\ step = "filter" => granted \subseteq lately
    /\ left # None =>
          /\ grantStore /\ next <= Len(page)
          /\ left \subseteq page[next].tags
          /\ ~SeenAtOnce(page[next])

\* What showed a document all along shows it now.
SteadyShows ==
    call = "list" /\ step \in {"read", "filter"} =>
        steady \subseteq Shown(active, tags, granted)

InPage(d) == \E i \in DOMAIN page : DocOf[page[i].version] = d

\* A reason that showed its document since before the page was read is a reason
\* to show the document's row, which has been shown, or will be unless all that
\* could be asked of it is yet to be asked.
RowsShow(d, r) ==
    \A i \in DOMAIN page : DocOf[page[i].version] = d =>
        /\ r \in Tags => r \in page[i].tags
        /\ r \in Versions => page[i].version = r
        /\ i < next => \E j \in DOMAIN events : events[j] = page[i]
        /\ i = next /\ left # None => r \in left

SteadyRows ==
    step = "filter" =>
        \A reason \in steady :
            /\ InPage(reason[1]) \/ Len(page) = FetchLimit
            /\ RowsShow(reason[1], reason[2])

LInv ==
    /\ RTypeOK /\ EventsGrounded /\ SteadyIsListed
    /\ Windowed /\ Placed /\ SteadyShows /\ SteadyRows

\* What a reason is.
LEMMA ReasonIs ==
    ASSUME NEW A \in SUBSET Versions, NEW T, NEW G, NEW d, NEW r, <<d, r>> \in Shown(A, T, G)
    PROVE  /\ \E v \in A : DocOf[v] = d
           /\ \/ r \in T[d] /\ (r \in Held \/ (grantStore /\ r \in G))
              \/ r \in A \cap Own /\ DocOf[r] = d
<1>1. PICK e \in {DocOf[v] : v \in A} : <<d, r>> \in {e} \X Reasons(e, A, T, G)
  BY DEF Shown
<1>2. d = e /\ r \in Reasons(e, A, T, G)
  BY <1>1
<1> QED
  BY <1>1, <1>2 DEF Reasons

\* A reason that is a tag is not a version.
LEMMA ReasonApart ==
    ASSUME NEW T \in [Docs -> SUBSET Tags], NEW A \in SUBSET Versions, NEW G,
           NEW p \in Shown(A, T, G)
    PROVE  /\ p = <<p[1], p[2]>> /\ p[1] \in Docs
           /\ \E v \in A : DocOf[v] = p[1]
           /\ \/ /\ p[2] \in Tags /\ p[2] \notin Versions
                 /\ p[2] \in T[p[1]] /\ (p[2] \in Held \/ (grantStore /\ p[2] \in G))
              \/ /\ p[2] \in Versions /\ p[2] \notin Tags
                 /\ p[2] \in A \cap Own /\ DocOf[p[2]] = p[1]
<1>1. p = <<p[1], p[2]>>
  BY DEF Shown
<1>2. /\ \E v \in A : DocOf[v] = p[1]
      /\ \/ p[2] \in T[p[1]] /\ (p[2] \in Held \/ (grantStore /\ p[2] \in G))
         \/ p[2] \in A \cap Own /\ DocOf[p[2]] = p[1]
  BY <1>1, ReasonIs
<1>3. p[1] \in Docs
  BY <1>2, SearchAssumption
<1>4. T[p[1]] \subseteq Tags
  BY <1>3
<1> QED
  BY <1>1, <1>2, <1>3, <1>4, TimelineAssumption

\* Whatever happens beside the list.
Aside ==
    /\ tags' \in [Docs -> SUBSET Tags] /\ granted' \subseteq Tags
    /\ Watch
    /\ UNCHANGED <<call, grantStore, listVars>>

LEMMA AsideKeeps ==
    ASSUME LInv, Aside
    PROVE  LInv'
<1>1. /\ steady' = steady \cap Shown(active', tags', granted')
      /\ lately' = lately \cup granted'
      /\ UNCHANGED <<call, grantStore, step, page, next, left, events>>
      /\ tags' \in [Docs -> SUBSET Tags] /\ granted' \subseteq Tags
  BY DEF Aside, Watch, listVars
<1>2. RTypeOK'
  BY <1>1 DEF LInv, RTypeOK, FetchLimit
<1>3. EventsGrounded'
  BY <1>1 DEF LInv, EventsGrounded
<1>4. SteadyIsListed'
  BY <1>1 DEF LInv, SteadyIsListed, FetchLimit
<1>5. Windowed'
  BY <1>1 DEF LInv, Windowed
<1>6. Placed'
  BY <1>1 DEF LInv, Placed, SeenAtOnce
<1>7. SteadyShows'
  BY <1>1 DEF SteadyShows, Shown, Reasons
<1>8. SteadyRows'
  BY <1>1 DEF LInv, SteadyRows, InPage, RowsShow, FetchLimit
<1> QED
  BY <1>2, <1>3, <1>4, <1>5, <1>6, <1>7, <1>8 DEF LInv

\* A row that is shown, on its ground, and one that is withheld, that no steady
\* reason could show.
LEMMA NextRowKeeps ==
    ASSUME LInv, AtRow, NEW shown \in BOOLEAN, NextRow(shown),
           UNCHANGED <<active, call, grantStore, step, page, accessVars>>,
           shown => \/ SeenAtOnce(page[next])
                    \/ grantStore /\ page[next].tags \cap granted # {},
           ~shown => \A reason \in steady : DocOf[page[next].version] # reason[1]
    PROVE  LInv'
<1> DEFINE row == page[next]
<1>1. /\ page \in Seq(Row) /\ events \in Seq(Row) /\ Len(page) \in Nat
      /\ next \in 1..Len(page) /\ row \in Row
  <2>1. page \in Seq(Row) /\ events \in Seq(Row) /\ next \in 1..(Len(page) + 1)
    BY DEF LInv, RTypeOK, Row
  <2>2. next <= Len(page)
    BY DEF AtRow
  <2>3. Len(page) \in Nat /\ next \in 1..Len(page)
    BY <2>1, <2>2
  <2> QED
    BY <2>1, <2>3
<1>2. /\ step = "filter" /\ next' = next + 1 /\ left' = None
      /\ UNCHANGED <<active, call, grantStore, step, page, tags, granted, steady, lately>>
      /\ events' = IF shown THEN Append(events, row) ELSE events
  BY DEF AtRow, NextRow, accessVars
<1>3. /\ events' \in Seq(Row)
      /\ \A i \in DOMAIN events : i \in DOMAIN events' /\ events'[i] = events[i]
      /\ \A i \in DOMAIN events' : \/ i \in DOMAIN events
                                   \/ /\ shown /\ events'[i] = row
                                      /\ \A j \in DOMAIN events : j < i
      /\ \A i, j \in DOMAIN events' : i < j => i \in DOMAIN events
      /\ shown => \E i \in DOMAIN events' : events'[i] = row
  <2>1. CASE shown
    <3>1. events' = Append(events, row)
      BY <1>2, <2>1
    <3>2. events'[Len(events) + 1] = row /\ Len(events) + 1 \in DOMAIN events'
      BY <1>1, <3>1
    <3> QED
      BY <1>1, <2>1, <3>1, <3>2
  <2>2. CASE ~shown
    BY <1>1, <1>2, <2>2
  <2> QED
    BY <2>1, <2>2
<1>4. RTypeOK'
  <2>1. next' \in 1..(Len(page') + 1)
    BY <1>1, <1>2
  <2> QED
    BY <1>2, <1>3, <2>1 DEF LInv, RTypeOK, Row, FetchLimit
<1>5. Windowed'
  <2>1. PICK f \in [DOMAIN events -> DOMAIN page] :
           /\ \A i \in DOMAIN events : events[i] = page[f[i]] /\ f[i] < next
           /\ \A i, j \in DOMAIN events : i < j => f[i] < f[j]
    BY DEF LInv, Windowed
  <2> DEFINE g == [i \in DOMAIN events' |-> IF i \in DOMAIN events THEN f[i] ELSE next]
  <2>2. g \in [DOMAIN events' -> DOMAIN page']
    BY <1>1, <1>2, <2>1
  <2>3. \A i \in DOMAIN events' : events'[i] = page'[g[i]] /\ g[i] < next'
    BY <1>1, <1>2, <1>3, <2>1
  <2>4. \A i, j \in DOMAIN events' : i < j => g[i] < g[j]
    BY <1>1, <1>3, <2>1
  <2> QED
    BY <1>2, <2>2, <2>3, <2>4 DEF LInv, Windowed
<1>6. EventsGrounded'
  <2>1. ASSUME NEW i \in DOMAIN events', NEW j \in DOMAIN events', i < j
        PROVE  When[events'[i].version] >= When[events'[j].version]
    <3>1. i \in DOMAIN events /\ events'[i] = events[i]
      BY <1>3, <2>1
    <3>2. CASE j \in DOMAIN events
      BY <1>3, <2>1, <3>1, <3>2 DEF LInv, EventsGrounded
    <3>3. CASE j \notin DOMAIN events
      <4>1. events'[j] = row
        BY <1>3, <3>3
      <4>2. PICK k \in DOMAIN page : events[i] = page[k] /\ k < next
        BY <3>1 DEF LInv, Windowed
      <4>3. next \in DOMAIN page
        BY <1>1
      <4> QED
        BY <3>1, <4>1, <4>2, <4>3 DEF LInv, Windowed
    <3> QED
      BY <3>2, <3>3
  <2>2. ASSUME NEW i \in DOMAIN events'
        PROVE  \/ events'[i].version \in Own
               \/ events'[i].tags \cap Held # {}
               \/ grantStore /\ events'[i].tags \cap lately # {}
    <3>1. CASE i \in DOMAIN events
      BY <1>3, <3>1 DEF LInv, EventsGrounded
    <3>2. CASE i \notin DOMAIN events
      <4>1. shown /\ events'[i] = row /\ granted \subseteq lately
        BY <1>2, <1>3, <3>2 DEF LInv, Placed
      <4> QED
        BY <4>1 DEF SeenAtOnce
    <3> QED
      BY <3>1, <3>2
  <2> QED
    BY <1>2, <2>1, <2>2 DEF EventsGrounded
<1>7. SteadyIsListed' /\ Placed'
  BY <1>2 DEF LInv, SteadyIsListed, Placed
<1>8. SteadyShows'
  BY <1>2 DEF LInv, SteadyShows, Shown, Reasons
<1>9. SteadyRows'
  <2> SUFFICES ASSUME NEW reason \in steady
               PROVE  /\ InPage(reason[1])' \/ Len(page) = FetchLimit
                      /\ RowsShow(reason[1], reason[2])'
    BY <1>2 DEF SteadyRows, FetchLimit
  <2>1. /\ InPage(reason[1]) \/ Len(page) = FetchLimit
        /\ RowsShow(reason[1], reason[2])
    BY <1>2 DEF LInv, SteadyRows
  <2>2. ASSUME NEW i \in DOMAIN page, DocOf[page[i].version] = reason[1], i < next + 1
        PROVE  \E j \in DOMAIN events' : events'[j] = page[i]
    <3>1. CASE i < next
      BY <1>3, <2>1, <2>2, <3>1 DEF RowsShow
    <3>2. CASE i = next
      BY <1>3, <2>2, <3>2
    <3> QED
      BY <1>1, <2>2, <3>1, <3>2
  <2> QED
    BY <1>2, <2>1, <2>2 DEF InPage, RowsShow
<1> QED
  BY <1>4, <1>5, <1>6, <1>7, <1>8, <1>9 DEF LInv

-----------------------------------------------------------------------------
(* Every step keeps it.                                                    *)

LEMMA RecaptureKeeps ==
    ASSUME SInv, LInv, NEW v \in Versions, Recapture(v)
    PROVE  SInv' /\ LInv'
<1>1. Capture(v)
  BY DEF Recapture
<1>2. SInv'
  BY <1>1, CaptureMoves, MovedKeeps
<1>3. PICK T \in SUBSET Tags : tags' = [tags EXCEPT ![DocOf[v]] = T]
  BY DEF Recapture
<1>4. tags' \in [Docs -> SUBSET Tags] /\ granted' \subseteq Tags
  BY <1>3 DEF Recapture, LInv, RTypeOK
<1>5. Aside
  BY <1>4 DEF Aside, Recapture, Beside
<1> QED
  BY <1>2, <1>5, AsideKeeps

LEMMA WithdrawKeeps ==
    ASSUME SInv, LInv, NEW v \in Versions, Withdraw(v)
    PROVE  SInv' /\ LInv'
<1>1. Retire(v)
  BY DEF Withdraw
<1>2. SInv'
  BY <1>1, RetireMoves, MovedKeeps
<1>3. tags' \in [Docs -> SUBSET Tags] /\ granted' \subseteq Tags
  BY DEF Withdraw, LInv, RTypeOK
<1>4. Aside
  BY <1>3 DEF Aside, Withdraw, Beside
<1> QED
  BY <1>2, <1>4, AsideKeeps

LEMMA RegrantKeeps ==
    ASSUME SInv, LInv, NEW t \in Tags \ Held, Regrant(t)
    PROVE  SInv' /\ LInv'
<1>1. Moved
  <2>1. \A u \in Versions : supports[u] <= supports'[u]
    BY DEF SInv, SearchInv, STypeOK, Regrant
  <2> QED
    BY <2>1 DEF Moved, Regrant, Change, SInv, SearchInv, STypeOK, Fresh
<1>2. SInv'
  BY <1>1, MovedKeeps
<1>3. tags' \in [Docs -> SUBSET Tags] /\ granted' \subseteq Tags
  BY DEF Regrant, LInv, RTypeOK
<1>4. Aside
  BY <1>3 DEF Aside, Regrant, Beside
<1> QED
  BY <1>2, <1>4, AsideKeeps

LEMMA SearchCallKeeps ==
    ASSUME SInv, LInv, SearchCall
    PROVE  SInv' /\ LInv'
<1>1. LInv'
  <2>1. /\ call = "search"
        /\ UNCHANGED <<call, grantStore, tags, granted, steady, lately, step, page, next, left,
                       events>>
    BY DEF SearchCall, accessVars, listVars
  <2>2. RTypeOK'
    BY <2>1 DEF LInv, RTypeOK, FetchLimit
  <2>3. EventsGrounded' /\ SteadyIsListed'
    BY <2>1 DEF LInv, EventsGrounded, SteadyIsListed, FetchLimit
  <2>4. Windowed' /\ Placed'
    BY <2>1 DEF LInv, Windowed, Placed, SeenAtOnce
  <2>5. SteadyShows'
    BY <2>1 DEF SteadyShows
  <2>6. SteadyRows'
    BY <2>1 DEF LInv, SteadyRows, Placed
  <2> QED
    BY <2>2, <2>3, <2>4, <2>5, <2>6 DEF LInv
<1>2. CASE CorpusStep
  <2>1. PICK v \in Versions : Capture(v) \/ Retire(v) \/ Embed(v) \/ Support(v)
    BY <1>2 DEF CorpusStep
  <2>2. Moved
    BY <2>1, CaptureMoves, RetireMoves, EmbedMoves, SupportMoves
  <2> QED
    BY <1>1, <2>2, MovedKeeps
<1>3. CASE SearchStep
  BY <1>1, <1>3, LexicalReadKeeps, DenseReadKeeps, CountKeeps, RerankKeeps, DiversifyKeeps,
     ConcludeKeeps, FilterKeeps DEF SearchStep
<1>4. CASE DatabaseFails
  BY <1>1, <1>4, DatabaseFailsKeeps
<1> QED
  BY <1>2, <1>3, <1>4 DEF SearchCall, SNext

LEMMA ListReadKeeps ==
    ASSUME SInv, LInv, ListRead, call = "list", UNCHANGED <<active, call, grantStore>>
    PROVE  LInv'
<1>1. PICK s \in SetToSeqs(active) :
         /\ Newest(s)
         /\ page' = [i \in 1..Least(FetchLimit, Len(s)) |->
                       [version |-> s[i], tags |-> tags[DocOf[s[i]]]]]
  BY DEF ListRead
<1>2. active \in SUBSET Versions /\ \A u, v \in active : DocOf[u] = DocOf[v] => u = v
  BY DEF SInv, SearchInv, STypeOK, Fresh
<1>3. /\ s \in Seq(Versions)
      /\ \A i \in DOMAIN s : s[i] \in active
      /\ \A v \in active : \E i \in DOMAIN s : s[i] = v
  BY <1>2, ListingIsOnce
<1>4. /\ step = "read" /\ step' = "filter" /\ lately' = granted
      /\ UNCHANGED <<next, left, events, tags, granted, steady>>
      /\ events = <<>> /\ next = 1 /\ left = None
  BY DEF ListRead, LInv, Placed
<1> DEFINE n == Least(FetchLimit, Len(s))
<1>5. /\ FetchLimit \in Nat /\ Len(s) \in Nat /\ n \in 0..Len(s) /\ n <= FetchLimit
      /\ n = FetchLimit \/ n = Len(s)
  <2>1. FetchLimit \in Nat
    BY TimelineAssumption DEF FetchLimit
  <2>2. Len(s) \in Nat
    BY <1>3
  <2> QED
    BY <2>1, <2>2 DEF Least
<1>6. /\ DOMAIN page' = 1..n
      /\ \A i \in 1..n : /\ i \in DOMAIN s
                         /\ page'[i].version = s[i] /\ page'[i].tags = tags[DocOf[s[i]]]
  BY <1>1, <1>3, <1>5
<1>7. page' \in Seq(Row) /\ Len(page') = n
  <2>1. \A v \in Versions : tags[DocOf[v]] \in SUBSET Tags
    BY SearchAssumption DEF LInv, RTypeOK
  <2>2. ASSUME NEW i \in 1..n
        PROVE  [version |-> s[i], tags |-> tags[DocOf[s[i]]]] \in Row
    <3>1. s[i] \in Versions
      BY <1>2, <1>3, <1>6
    <3> QED
      BY <2>1, <3>1 DEF Row
  <2>3. page' \in [1..n -> Row]
    BY <1>1, <2>2
  <2> QED
    BY <1>5, <2>3
<1> HIDE DEF n
<1>8. RTypeOK'
  <2>1. next' \in 1..(Len(page') + 1) /\ Len(page') <= FetchLimit
    BY <1>4, <1>5, <1>7
  <2>2. call' \in {"search", "list"} /\ grantStore' \in BOOLEAN
    BY DEF LInv, RTypeOK
  <2>3. events' \in Seq(Row)
    BY <1>4 DEF LInv, RTypeOK, Row
  <2> QED
    BY <1>4, <1>7, <2>1, <2>2, <2>3 DEF LInv, RTypeOK, Row, FetchLimit
<1>9. EventsGrounded' /\ SteadyIsListed'
  BY <1>4 DEF EventsGrounded, SteadyIsListed
<1>10. Windowed'
  <2>1. ASSUME NEW i \in 1..n, NEW j \in 1..n, i < j
        PROVE  When[s[i]] >= When[s[j]]
    <3>1. s[i] \in Versions /\ s[j] \in Versions /\ i \in DOMAIN s /\ j \in DOMAIN s
      BY <1>2, <1>3, <1>6
    <3>2. When[s[i]] \in Nat /\ When[s[j]] \in Nat
      BY <3>1, SearchAssumption
    <3>3. ~(When[s[j]] > When[s[i]])
      <4>1. When[s[j]] > When[s[i]] => j < i
        BY <1>1, <3>1 DEF Newest
      <4>2. i \in Int /\ j \in Int
        BY <1>5
      <4> QED
        BY <2>1, <4>1, <4>2
    <3> QED
      BY <3>2, <3>3
  <2>2. \A i, j \in DOMAIN page' : i < j => When[page'[i].version] >= When[page'[j].version]
    BY <1>6, <2>1
  <2>3. \E f \in [DOMAIN events' -> DOMAIN page'] :
          /\ \A i \in DOMAIN events' : events'[i] = page'[f[i]] /\ f[i] < next'
          /\ \A i, j \in DOMAIN events' : i < j => f[i] < f[j]
    <3>1. DOMAIN events' = {}
      BY <1>4
    <3>2. <<>> \in [DOMAIN events' -> DOMAIN page']
      BY <3>1
    <3> QED
      BY <3>1, <3>2
  <2> QED
    BY <2>2, <2>3 DEF Windowed
<1>11. Placed'
  BY <1>4 DEF Placed
<1>12. SteadyShows'
  BY <1>4 DEF LInv, SteadyShows, Shown, Reasons
<1>13. SteadyRows'
  <2> SUFFICES ASSUME NEW reason \in steady
               PROVE  /\ InPage(reason[1])' \/ Len(page') = FetchLimit
                      /\ RowsShow(reason[1], reason[2])'
    BY <1>4 DEF SteadyRows, FetchLimit
  <2>1. reason \in Shown(active, tags, granted)
    BY <1>4 DEF LInv, SteadyShows
  <2>2. /\ \E v \in active : DocOf[v] = reason[1]
        /\ \/ reason[2] \in Tags /\ reason[2] \notin Versions /\ reason[2] \in tags[reason[1]]
           \/ /\ reason[2] \in Versions /\ reason[2] \notin Tags
              /\ reason[2] \in active /\ DocOf[reason[2]] = reason[1]
    <3>1. tags \in [Docs -> SUBSET Tags]
      BY DEF LInv, RTypeOK
    <3> QED
      BY <1>2, <2>1, <3>1, ReasonApart
  <2>3. InPage(reason[1])' \/ Len(page') = FetchLimit
    <3>1. CASE n = FetchLimit
      BY <1>7, <3>1
    <3>2. CASE n = Len(s)
      <4>1. PICK i \in DOMAIN s : DocOf[s[i]] = reason[1]
        BY <1>3, <2>2
      <4>2. i \in DOMAIN page' /\ page'[i].version = s[i]
        BY <1>3, <1>6, <3>2
      <4> QED
        BY <4>1, <4>2 DEF InPage
    <3> QED
      BY <1>5, <3>1, <3>2
  <2>4. ASSUME NEW i \in DOMAIN page', DocOf[page'[i].version] = reason[1]
        PROVE  /\ reason[2] \in Tags => reason[2] \in page'[i].tags
               /\ reason[2] \in Versions => page'[i].version = reason[2]
               /\ ~(i < next')
    <3>1. page'[i].version = s[i] /\ s[i] \in active /\ page'[i].tags = tags[reason[1]]
      BY <1>3, <1>6, <2>4
    <3>2. ~(i < next')
      BY <1>4, <1>5, <1>6
    <3> QED
      BY <1>2, <2>2, <2>4, <3>1, <3>2
  <2> QED
    BY <1>4, <2>3, <2>4 DEF RowsShow
<1> QED
  BY <1>8, <1>9, <1>10, <1>11, <1>12, <1>13 DEF LInv

\* What all along showed the document of the row in hand is, unless the row is
\* seen at once, a grant of one of its tags, which is still to be asked.
LEMMA SteadyIsAsked ==
    ASSUME SInv, LInv, call = "list", AtRow, ~SeenAtOnce(page[next]),
           NEW reason \in steady, DocOf[page[next].version] = reason[1]
    PROVE  /\ grantStore /\ reason[2] \in granted
           /\ reason[2] \in page[next].tags
           /\ left # None => reason[2] \in left
<1>1. /\ tags \in [Docs -> SUBSET Tags] /\ active \in SUBSET Versions
      /\ next \in DOMAIN page /\ step = "filter"
  <2>1. page \in Seq(Row) /\ next \in 1..(Len(page) + 1)
    BY DEF LInv, RTypeOK, Row
  <2>2. next <= Len(page) /\ step = "filter"
    BY DEF AtRow
  <2>3. next \in 1..Len(page)
    BY <2>1, <2>2
  <2>4. next \in DOMAIN page
    BY <2>1, <2>3
  <2>5. tags \in [Docs -> SUBSET Tags]
    BY DEF LInv, RTypeOK
  <2>6. active \in SUBSET Versions
    BY DEF SInv, SearchInv, STypeOK
  <2> QED
    BY <2>2, <2>4, <2>5, <2>6
<1>2. reason \in Shown(active, tags, granted)
  BY <1>1 DEF LInv, SteadyShows
<1>3. \/ reason[2] \in Tags /\ (reason[2] \in Held \/ (grantStore /\ reason[2] \in granted))
      \/ reason[2] \in Versions /\ reason[2] \in Own
  BY <1>1, <1>2, ReasonApart
<1>4. /\ reason[2] \in Tags => reason[2] \in page[next].tags
      /\ reason[2] \in Versions => page[next].version = reason[2]
      /\ left # None => reason[2] \in left
  BY <1>1 DEF LInv, SteadyRows, RowsShow
<1> QED
  BY <1>3, <1>4 DEF SeenAtOnce

\* Of the row in hand, more tags are to be asked, or fewer.
LEMMA LeftKeeps ==
    ASSUME SInv, LInv, AtRow, call = "list", grantStore, ~SeenAtOnce(page[next]),
           left' \subseteq page[next].tags,
           \A reason \in steady : DocOf[page[next].version] = reason[1] => reason[2] \in left',
           UNCHANGED <<active, call, grantStore, step, page, next, events, accessVars>>
    PROVE  LInv'
<1>1. /\ step = "filter" /\ next <= Len(page)
      /\ UNCHANGED <<active, call, grantStore, step, page, next, events, tags, granted, steady,
                     lately>>
  BY DEF AtRow, accessVars
<1>2. left' \in SUBSET Tags
  <2>1. page \in Seq(Row) /\ next \in 1..(Len(page) + 1)
    BY DEF LInv, RTypeOK, Row
  <2>2. next \in 1..Len(page)
    BY <1>1, <2>1
  <2>3. page[next] \in Row
    BY <2>1, <2>2
  <2> QED
    BY <2>3 DEF Row
<1>3. RTypeOK'
  BY <1>1, <1>2 DEF LInv, RTypeOK, FetchLimit
<1>4. EventsGrounded' /\ SteadyIsListed'
  BY <1>1 DEF LInv, EventsGrounded, SteadyIsListed
<1>5. Windowed'
  BY <1>1 DEF LInv, Windowed
<1>6. Placed'
  BY <1>1 DEF LInv, Placed, SeenAtOnce
<1>7. SteadyShows'
  BY <1>1 DEF LInv, SteadyShows, Shown, Reasons
<1>8. SteadyRows'
  BY <1>1 DEF LInv, SteadyRows, InPage, RowsShow, FetchLimit
<1> QED
  BY <1>3, <1>4, <1>5, <1>6, <1>7, <1>8 DEF LInv

LEMMA TakeRowKeeps ==
    ASSUME SInv, LInv, TakeRow, call = "list", UNCHANGED <<active, call, grantStore>>
    PROVE  LInv'
<1> DEFINE row == page[next]
<1>1. AtRow /\ left = None /\ UNCHANGED <<step, page, accessVars>>
  BY DEF TakeRow
<1>2. CASE SeenAtOnce(row) /\ NextRow(TRUE)
  BY <1>1, <1>2, NextRowKeeps
<1>3. CASE ~SeenAtOnce(row) /\ (~grantStore \/ row.tags = {}) /\ NextRow(FALSE)
  <2>1. \A reason \in steady : DocOf[row.version] # reason[1]
    BY <1>1, <1>3, SteadyIsAsked
  <2> QED
    BY <1>1, <1>3, <2>1, NextRowKeeps
<1>4. CASE /\ ~SeenAtOnce(row) /\ grantStore /\ row.tags # {}
           /\ left' = row.tags
           /\ UNCHANGED <<events, next>>
  <2>1. \A reason \in steady : DocOf[row.version] = reason[1] => reason[2] \in left'
    BY <1>1, <1>4, SteadyIsAsked
  <2> QED
    BY <1>1, <1>4, <2>1, LeftKeeps
<1> QED
  BY <1>2, <1>3, <1>4 DEF TakeRow

LEMMA AuthorizeKeeps ==
    ASSUME SInv, LInv, NEW t \in Tags, Authorize(t), call = "list",
           UNCHANGED <<active, call, grantStore>>
    PROVE  LInv'
<1> DEFINE row == page[next]
<1>1. AtRow /\ left # None /\ t \in left /\ UNCHANGED <<step, page, accessVars>>
  BY DEF Authorize
<1>2. grantStore /\ left \subseteq row.tags /\ ~SeenAtOnce(row)
  BY <1>1 DEF LInv, Placed
<1>3. CASE t \in granted /\ NextRow(TRUE)
  BY <1>1, <1>2, <1>3, NextRowKeeps
<1>4. CASE t \notin granted /\ left = {t} /\ NextRow(FALSE)
  <2>1. \A reason \in steady : DocOf[row.version] # reason[1]
    BY <1>1, <1>2, <1>4, SteadyIsAsked
  <2> QED
    BY <1>1, <1>4, <2>1, NextRowKeeps
<1>5. CASE /\ t \notin granted /\ left # {t}
           /\ left' = left \ {t}
           /\ UNCHANGED <<events, next>>
  <2>1. \A reason \in steady : DocOf[row.version] = reason[1] => reason[2] \in left'
    BY <1>1, <1>2, <1>5, SteadyIsAsked
  <2> QED
    BY <1>1, <1>2, <1>5, <2>1, LeftKeeps
<1> QED
  BY <1>3, <1>4, <1>5 DEF Authorize

LEMMA ListReturnKeeps ==
    ASSUME SInv, LInv, ListReturn, call = "list", UNCHANGED <<active, call, grantStore>>
    PROVE  LInv'
<1>1. /\ step = "filter" /\ next > Len(page) /\ step' = "listed"
      /\ events' = UpTo(events, Limit)
      /\ UNCHANGED <<call, grantStore, page, next, left, tags, granted, steady, lately>>
  BY DEF ListReturn, Cut, accessVars
<1>2. /\ events \in Seq(Row) /\ Len(events) \in Nat
      /\ page \in Seq(Row) /\ next \in 1..(Len(page) + 1)
      /\ Limit \in Nat
  BY TimelineAssumption DEF LInv, RTypeOK, Row
<1>3. /\ events' \in Seq(Row) /\ Len(events') = Least(Limit, Len(events))
      /\ \A i \in DOMAIN events' : i \in DOMAIN events /\ events'[i] = events[i]
  BY <1>1, <1>2, UpToIsPrefix
<1>4. RTypeOK'
  BY <1>1, <1>3 DEF LInv, RTypeOK, Row, FetchLimit
<1>5. EventsGrounded'
  BY <1>1, <1>3 DEF LInv, EventsGrounded
<1>6. SteadyIsListed'
  <2> SUFFICES ASSUME NEW reason \in steady
               PROVE  \/ \E i \in DOMAIN events' : DocOf[events'[i].version] = reason[1]
                      \/ Len(events') = Limit
                      \/ Len(page) = FetchLimit /\ ~InPage(reason[1])
    BY <1>1 DEF SteadyIsListed, InPage, FetchLimit
  <2>1. CASE Len(events) >= Limit
    BY <1>2, <1>3, <2>1 DEF Least
  <2>2. CASE ~InPage(reason[1])
    BY <1>1, <2>2 DEF LInv, SteadyRows
  <2>3. CASE ~(Len(events) >= Limit) /\ InPage(reason[1])
    <3>1. DOMAIN events' = DOMAIN events
      BY <1>2, <1>3, <2>3 DEF Least
    <3>2. PICK i \in DOMAIN page : DocOf[page[i].version] = reason[1]
      BY <2>3 DEF InPage
    <3>3. i < next
      BY <1>1, <1>2
    <3>4. PICK j \in DOMAIN events : events[j] = page[i]
      BY <1>1, <3>2, <3>3 DEF LInv, SteadyRows, RowsShow
    <3>5. events'[j] = page[i]
      BY <1>3, <3>1, <3>4
    <3> QED
      BY <3>1, <3>2, <3>5
  <2> QED
    BY <2>1, <2>2, <2>3
<1>7. Windowed'
  <2>1. PICK f \in [DOMAIN events -> DOMAIN page] :
           /\ \A i \in DOMAIN events : events[i] = page[f[i]] /\ f[i] < next
           /\ \A i, j \in DOMAIN events : i < j => f[i] < f[j]
    BY DEF LInv, Windowed
  <2> DEFINE g == [i \in DOMAIN events' |-> f[i]]
  <2>2. g \in [DOMAIN events' -> DOMAIN page']
    BY <1>1, <1>3, <2>1
  <2>3. \A i \in DOMAIN events' : events'[i] = page'[g[i]] /\ g[i] < next'
    BY <1>1, <1>3, <2>1
  <2>4. \A i, j \in DOMAIN events' : i < j => g[i] < g[j]
    BY <1>3, <2>1
  <2> QED
    BY <1>1, <2>2, <2>3, <2>4 DEF LInv, Windowed
<1>8. Placed' /\ SteadyShows' /\ SteadyRows'
  BY <1>1 DEF LInv, Placed, SeenAtOnce, SteadyShows, SteadyRows
<1> QED
  BY <1>4, <1>5, <1>6, <1>7, <1>8 DEF LInv

LEMMA ListFailsKeeps ==
    ASSUME LInv, ListFails, call = "list", UNCHANGED <<call, grantStore>>
    PROVE  LInv'
<1>1. /\ step \in {"read", "filter"} /\ step' = "failed"
      /\ UNCHANGED <<call, grantStore, page, next, left, events, tags, granted, steady, lately>>
  BY DEF ListFails, accessVars
<1>2. RTypeOK' /\ EventsGrounded' /\ SteadyIsListed'
  BY <1>1 DEF LInv, RTypeOK, EventsGrounded, SteadyIsListed, FetchLimit
<1>3. Windowed'
  BY <1>1 DEF LInv, Windowed
<1>4. Placed' /\ SteadyShows' /\ SteadyRows'
  BY <1>1 DEF LInv, Placed, SeenAtOnce, SteadyShows, SteadyRows
<1> QED
  BY <1>2, <1>3, <1>4 DEF LInv

LEMMA ListStepKeeps ==
    ASSUME SInv, LInv, ListStep
    PROVE  SInv' /\ LInv'
<1>1. call = "list" /\ UNCHANGED <<svars, call, grantStore>>
  BY DEF ListStep
<1>2. SInv'
  <2>1. Moved
    <3>1. \A v \in Versions : supports[v] <= supports'[v]
      BY <1>1 DEF svars, SInv, SearchInv, STypeOK
    <3> QED
      BY <1>1, <3>1 DEF Moved, svars, SInv, SearchInv, STypeOK, Fresh
  <2> QED
    BY <2>1, MovedKeeps
<1>3. UNCHANGED <<active, call, grantStore>>
  BY <1>1 DEF svars
<1>4. LInv'
  BY <1>1, <1>3, ListReadKeeps, TakeRowKeeps, AuthorizeKeeps, ListReturnKeeps, ListFailsKeeps
     DEF ListStep
<1> QED
  BY <1>2, <1>4

LEMMA InitKeeps ==
    ASSUME RInit
    PROVE  SInv /\ LInv
<1>1. SInit
  BY DEF RInit
<1>2. PICK S \in SUBSET {v \in First : Successor[v] # None} :
         active = (First \ S) \cup {Successor[v] : v \in S}
  BY <1>1 DEF SInit
<1>3. First \subseteq Versions
  BY SearchAssumption
<1>4. /\ active \subseteq Versions
      /\ \A u, v \in active : DocOf[u] = DocOf[v] => u = v
  <2>1. \A u \in active : \/ u \in First \ S
                          \/ \E w \in S : u = Successor[w] /\ DocOf[u] = DocOf[w]
    BY <1>2, <1>3, SearchAssumption
  <2>2. ASSUME NEW u \in active
        PROVE  \E w \in First : /\ DocOf[u] = DocOf[w]
                                /\ w \in S => u = Successor[w]
                                /\ w \notin S => u = w
    BY <1>2, <2>1
  <2>3. ASSUME NEW u \in active, NEW v \in active, DocOf[u] = DocOf[v]
        PROVE  u = v
    <3>1. PICK w \in First : /\ DocOf[u] = DocOf[w]
                             /\ w \in S => u = Successor[w]
                             /\ w \notin S => u = w
      BY <2>2
    <3>2. PICK x \in First : /\ DocOf[v] = DocOf[x]
                             /\ x \in S => v = Successor[x]
                             /\ x \notin S => v = x
      BY <2>2
    <3>3. DocOf[w] = DocOf[x]
      BY <2>3, <3>1, <3>2
    <3>4. \A a, b \in First : DocOf[a] = DocOf[b] => a = b
      BY SearchAssumption
    <3>5. w = x
      BY <3>1, <3>2, <3>3, <3>4
    <3> QED
      BY <3>1, <3>2, <3>5
  <2>4. active \subseteq Versions
    BY <1>2, <1>3, SearchAssumption
  <2> QED
    BY <2>3, <2>4
<1>5. /\ supports \in [Versions -> Nat] /\ \A v \in Versions : supports[v] = 0
      /\ counts \in [merged : [Versions -> Nat], lexical : [Versions -> Nat]]
      /\ \A v \in Versions : counts.merged[v] = 0 /\ counts.lexical[v] = 0
  BY <1>1 DEF SInit, NoCounts
<1>6. SInv
  <2>1. STypeOK
    BY <1>1, <1>4, <1>5, Numbers DEF SInit, STypeOK
  <2>2. OneHitPerDocument /\ HitsWereActive
    BY <1>1 DEF SInit, OneHitPerDocument, HitsWereActive
  <2>3. Fresh
    BY <1>1, <1>4 DEF SInit, Fresh, Found, OnePerDocument
  <2>4. Flagged
    BY <1>1 DEF SInit, Flagged
  <2>5. Grounded
    BY <1>1, <1>5 DEF SInit, Grounded, StrongHasGround
  <2> QED
    BY <2>1, <2>2, <2>3, <2>4, <2>5 DEF SInv, SearchInv
<1>7. LInv
  <2>1. tags \in [Docs -> SUBSET Tags] /\ granted \subseteq Tags
    BY TimelineAssumption DEF RInit
  <2>2. steady \subseteq Docs \X (Tags \cup Versions)
    <3>1. ASSUME NEW p \in steady
          PROVE  p = <<p[1], p[2]>> /\ p[1] \in Docs /\ p[2] \in Tags \cup Versions
      <4>1. p \in Shown(active, tags, granted)
        BY DEF RInit
      <4> QED
        BY <1>4, <2>1, <4>1, ReasonApart
    <3> QED
      BY <3>1
  <2>3. FetchLimit \in Nat
    BY TimelineAssumption DEF FetchLimit
  <2>4. RTypeOK
    <3>1. call \in {"search", "list"} /\ grantStore \in BOOLEAN
      BY DEF RInit
    <3>2. page = <<>> /\ events = <<>> /\ next = 1 /\ left = None /\ step = "read" /\ lately = {}
      BY DEF RInit
    <3>3. \A s \in {page, events} : s \in Seq([version : Versions, tags : SUBSET Tags])
      <4>1. \A s \in {page, events} : s = <<>>
        BY <3>2
      <4>2. <<>> \in Seq([version : Versions, tags : SUBSET Tags])
        OBVIOUS
      <4> QED
        BY <4>1, <4>2
    <3>4. Len(page) <= FetchLimit /\ next \in 1..(Len(page) + 1)
      BY <2>3, <3>2
    <3> QED
      BY <2>1, <2>2, <3>1, <3>2, <3>3, <3>4 DEF RTypeOK
  <2>5. EventsGrounded /\ SteadyIsListed
    BY DEF RInit, EventsGrounded, SteadyIsListed
  <2>6. Windowed
    <3>1. DOMAIN events = {} /\ DOMAIN page = {}
      BY DEF RInit
    <3>2. <<>> \in [DOMAIN events -> DOMAIN page]
      BY <3>1
    <3> QED
      BY <3>1, <3>2 DEF Windowed
  <2>7. Placed /\ SteadyShows /\ SteadyRows
    BY DEF RInit, Placed, SteadyShows, SteadyRows
  <2> QED
    BY <2>4, <2>5, <2>6, <2>7 DEF LInv
<1> QED
  BY <1>6, <1>7

LEMMA ReadsKeep == RSpec => [](SInv /\ LInv)
<1>1. RInit => SInv /\ LInv
  BY InitKeeps
<1>2. SInv /\ LInv /\ [RNext]_rvars => SInv' /\ LInv'
  <2> SUFFICES ASSUME SInv, LInv, [RNext]_rvars
               PROVE  SInv' /\ LInv'
    OBVIOUS
  <2>1. CASE SearchCall
    BY <2>1, SearchCallKeeps
  <2>2. CASE ListStep
    BY <2>2, ListStepKeeps
  <2>3. CASE \E v \in Versions : Recapture(v) \/ Withdraw(v)
    BY <2>3, RecaptureKeeps, WithdrawKeeps
  <2>4. CASE \E t \in Tags \ Held : Regrant(t)
    BY <2>4, RegrantKeeps
  <2>5. CASE UNCHANGED rvars
    <3>1. UNCHANGED <<svars, call, grantStore, accessVars, listVars>>
      BY <2>5 DEF rvars
    <3>2. SInv'
      <4>1. Moved
        <5>1. \A v \in Versions : supports[v] <= supports'[v]
          BY <3>1 DEF svars, SInv, SearchInv, STypeOK
        <5> QED
          BY <3>1, <5>1 DEF Moved, svars, SInv, SearchInv, STypeOK, Fresh
      <4> QED
        BY <4>1, MovedKeeps
    <3>3. LInv'
      <4>1. UNCHANGED <<active, call, grantStore, tags, granted, steady, lately, step, page,
                        next, left, events>>
        BY <3>1 DEF svars, accessVars, listVars
      <4>2. RTypeOK' /\ EventsGrounded' /\ SteadyIsListed'
        BY <4>1 DEF LInv, RTypeOK, EventsGrounded, SteadyIsListed, FetchLimit
      <4>3. Windowed'
        BY <4>1 DEF LInv, Windowed
      <4>4. Placed'
        BY <4>1 DEF LInv, Placed, SeenAtOnce
      <4>5. SteadyShows'
        BY <4>1 DEF LInv, SteadyShows, Shown, Reasons
      <4>6. SteadyRows'
        BY <4>1 DEF LInv, SteadyRows, InPage, RowsShow, FetchLimit
      <4> QED
        BY <4>2, <4>3, <4>4, <4>5, <4>6 DEF LInv
    <3> QED
      BY <3>2, <3>3
  <2> QED
    BY <2>1, <2>2, <2>3, <2>4, <2>5 DEF RNext
<1> QED
  BY <1>1, <1>2, PTL DEF RSpec

-----------------------------------------------------------------------------
(* What both reads keep.                                                   *)

\* Of a search, whatever was captured, retired and embedded between its reads
\* (hybridSearch): lists keep to their cuts, a document is one hit, and no hit was
\* inactive all along.  Of a list (listTimelineEvents): what is listed is newest
\* first and each on a ground.
THEOREM ReadsAreSound == RSpec => []ReadInv
<1>1. SInv /\ LInv => ReadInv
  BY DEF SInv, LInv, ReadInv
<1> QED
  BY <1>1, ReadsKeep, PTL

\* A search that returns without the vectors or the reranker has said so, on every
\* path through the try blocks of hybridSearch ("degrades instead of failing").
THEOREM LossIsSaid == RSpec => []SaysSo
<1>1. SInv => SaysSo
  BY DEF SInv, Flagged, SaysSo
<1> QED
  BY <1>1, ReadsKeep, PTL

\* Strong evidence (deriveHybridEvidence) has a version with authority and supports
\* behind it, whichever of the lists and counts it was drawn from, and keeps it
\* through the filter of retrieve.
THEOREM StrongIsGrounded == RSpec => []StrongHasGround
<1>1. SInv => StrongHasGround
  BY DEF SInv, Grounded
<1> QED
  BY <1>1, ReadsKeep, PTL

\* What one reason showed all through a list is in it, short of a full list or a
\* full window, whatever changed between the questions to the grant store
\* (filterTimelineRows).
THEOREM SteadyAlwaysListed == RSpec => []SteadyIsListed
<1>1. LInv => SteadyIsListed
  BY DEF LInv
<1> QED
  BY <1>1, ReadsKeep, PTL

-----------------------------------------------------------------------------
(* What the reranker is sent.                                              *)

\* What an accepted configuration allows is within the model's limit.
LEMMA AcceptedIsWithinLimit ==
    ASSUME NEW config \in Configs, Accepted(config)
    PROVE  MaxDocChars(config) <= LimitOf(config.model) * CharsPerToken
<1> DEFINE max == MaxDocChars(config)
           limit == LimitOf(config.model)
<1>1. limit \in Nat
  BY DEF LimitOf, KnownLimits
<1>2. max \in Int
  BY <1>1 DEF MaxDocChars, DefaultMaxDocChars, Configs, MarginTokens, CharsPerToken
<1>3. -((-max) \div 3) <= limit
  BY DEF Accepted, CharsPerToken
<1> HIDE DEF max, limit
<1>4. max <= limit * 3
  BY <1>1, <1>2, <1>3, SMT
<1> QED
  BY <1>4 DEF max, limit, CharsPerToken

\* A query and a document that are sent fit the model together, by the characters
\* a token is taken for: the pair is what a TEI server refuses a batch for
\* (rerank-client.ts:242), and no text, query or accepted setting makes it longer.
THEOREM PairFits ==
    ASSUME NEW config \in Configs, Accepted(config),
           NEW query \in Nat, ~TooLong(config, query),
           NEW t \in Text
    PROVE  query + Length(Truncated(t, DocBudget(config, query)))
              <= LimitOf(config.model) * CharsPerToken
<1> DEFINE budget == DocBudget(config, query)
<1>1. MaxDocChars(config) \in Int
  BY DEF MaxDocChars, DefaultMaxDocChars, LimitOf, KnownLimits, Configs, MarginTokens,
         CharsPerToken
<1>2. budget \in Int /\ budget >= 200 /\ query + budget = MaxDocChars(config)
  BY <1>1 DEF DocBudget, TooLong, MinDocChars
<1> HIDE DEF budget
<1>3. Length(Truncated(t, budget)) \in Int /\ Length(Truncated(t, budget)) <= budget
  BY <1>2 DEF Truncated, Length, Text
<1>4. query + Length(Truncated(t, budget)) <= MaxDocChars(config)
  BY <1>1, <1>2, <1>3
<1>5. LimitOf(config.model) * CharsPerToken \in Int
  BY DEF LimitOf, KnownLimits, CharsPerToken
<1> QED
  BY <1>1, <1>2, <1>3, <1>4, <1>5, AcceptedIsWithinLimit DEF budget

\* A host that sets no number of characters is never refused at construction
\* (memory.ts:1181, "self-consistent by construction"), whatever model it names.
THEOREM DefaultsAccepted ==
    ASSUME NEW config \in Configs, ~config.set
    PROVE  Accepted(config)
<1>1. MaxDocChars(config) = (LimitOf(config.model) - 12) * 3
  BY DEF MaxDocChars, DefaultMaxDocChars, LimitOf, KnownLimits, MarginTokens, CharsPerToken
<1> QED
  BY <1>1 DEF Accepted, LimitOf, KnownLimits, CharsPerToken

\* A document with words is never sent as blanks, and one that is cut is cut to
\* no less than is worth sending (rerank-client.ts:245).
THEOREM WordsAreSent ==
    ASSUME NEW config \in Configs,
           NEW query \in Nat, ~TooLong(config, query),
           NEW t \in Text, t.body > 0
    PROVE  LET sent == Truncated(t, DocBudget(config, query))
           IN sent.body > 0 /\ (sent.body < t.body => sent.body >= MinDocChars)
<1> DEFINE budget == DocBudget(config, query)
<1>1. MaxDocChars(config) \in Int
  BY DEF MaxDocChars, DefaultMaxDocChars, LimitOf, KnownLimits, Configs, MarginTokens,
         CharsPerToken
<1>2. budget \in Int /\ budget >= 200
  BY <1>1 DEF DocBudget, TooLong, MinDocChars
<1> HIDE DEF budget
<1>3. Truncated(t, budget).body > 0
      /\ (Truncated(t, budget).body < t.body => Truncated(t, budget).body >= MinDocChars)
  BY <1>2 DEF Truncated, Length, Text, MinDocChars
<1> QED
  BY <1>3 DEF budget
=============================================================================
