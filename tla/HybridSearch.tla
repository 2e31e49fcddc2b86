---------------------------- MODULE HybridSearch ----------------------------
(***************************************************************************)
(* One search of one tenant (hybridSearch, src/services/search.ts) and the *)
(* document filter after it (retrieve, src/memory.ts), step by step, while *)
(* versions are captured, retired and embedded and edges are added.        *)
(* Nothing holds a transaction over two reads.                             *)
(*                                                                         *)
(* A version has one chunk.  What the text, the vectors and the reranker   *)
(* say of a version is data: the order of a channel and of the reranker    *)
(* is any, its two floors are passed or not.  The queries are not empty,   *)
(* the generation is live, deprecated versions are not asked for.          *)
(***************************************************************************)
EXTENDS Integers, Sequences, FiniteSets, SequencesExt, Subsequence

CONSTANTS Docs, Versions,
          DocOf,          \* the document of each version
          Successor,      \* the version a capture replaces one by, or None
          First,          \* the first version of each document
          Matches,        \* versions the query finds by their words
          StrongMatches,  \* those whose ts_rank is STRONG_RANK_FLOOR or more
          Authoritative,  \* versions of authority 1; the others have 0
          Stated,         \* stated by a human
          When,           \* occurred_at of each version
          SupportFloor,   \* CORROBORATION_STRONG_FLOOR
          K,              \* the hits the caller asks for
          Overfetch,      \* rows per channel: k times the multiplier
          RerankLimit, PoolSize,
          RrfK,           \* RRF_K_DEFAULT
          MaxChanges,     \* bound: changes of the corpus
          None

ASSUME SearchAssumption ==
    /\ IsFiniteSet(Versions)
    /\ DocOf \in [Versions -> Docs]
    /\ When \in [Versions -> Nat]
    /\ Successor \in [Versions -> Versions \cup {None}]
    /\ None \notin Versions \cup Docs
    /\ First \cup Matches \cup Authoritative \cup Stated \subseteq Versions
    /\ StrongMatches \subseteq Matches
    /\ \A u, v \in First : DocOf[u] = DocOf[v] => u = v
    /\ \A v \in Versions : Successor[v] # None => DocOf[Successor[v]] = DocOf[v]
    /\ {SupportFloor, K, Overfetch, RerankLimit, PoolSize, RrfK} \subseteq Nat \ {0}
    /\ MaxChanges \in Nat

VARIABLES active,    \* the active versions
          vec,       \* the versions whose chunk has a vector in the active table
          supports,  \* supports edges to each version
          changes,
          engine,    \* [embed, rerank]: the endpoints that are configured
          at,        \* the next step of the search
          lexical, dense,  \* the channels' rows, best first
          counts,    \* [merged, lexical]: supports as read for each
          boosted,   \* the reranked rows with their boosts, best first
          confident, \* the versions the reranker scored RERANK_STRONG_FLOOR or
                     \* more, of those it ranked; None when it has ranked none
          degraded,
          rows,      \* the rows that become hits
          evidence,
          wasActive, \* (what happened) versions active at some time of the search
          used       \* (what happened) "dense", "rerank": what the rows came from

corpusVars == <<active, vec, supports, changes>>
svars == <<active, vec, supports, changes, engine, at, lexical, dense, counts,
           boosted, confident, degraded, rows, evidence, wasActive, used>>

Least(m, n) == IF m < n THEN m ELSE n
UpTo(s, n) == SubSeq(s, 1, Least(n, Len(s)))
Only(s, S) == ElementsAt(s, {i \in DOMAIN s : s[i] \in S})
NoCounts == [v \in Versions |-> 0]
Position(s, v) == CHOOSE i \in DOMAIN s : s[i] = v

-----------------------------------------------------------------------------
(* The corpus.                                                             *)

\* What changes after the search is nothing to it.
Change ==
    /\ at \notin {"found", "failed"}
    /\ changes < MaxChanges
    /\ changes' = changes + 1
    /\ UNCHANGED <<engine, at, lexical, dense, counts, boosted, confident, degraded, rows,
                   evidence, used>>

\* A capture of new content: one transaction.
Capture(v) ==
    /\ Change
    /\ v \in active /\ Successor[v] # None
    /\ active' = (active \ {v}) \cup {Successor[v]}
    /\ wasActive' = wasActive \cup {Successor[v]}
    /\ UNCHANGED <<vec, supports>>

\* A version is deprecated, swept or forgotten.
Retire(v) ==
    /\ Change
    /\ v \in active
    /\ active' = active \ {v}
    /\ UNCHANGED <<vec, supports, wasActive>>

\* A background pass writes a vector.
Embed(v) ==
    /\ Change
    /\ v \in active \ vec
    /\ vec' = vec \cup {v}
    /\ UNCHANGED <<active, supports, wasActive>>

\* A capture writes a supports edge to the version.
Support(v) ==
    /\ Change
    /\ supports' = [supports EXCEPT ![v] = @ + 1]
    /\ UNCHANGED <<active, vec, wasActive>>

-----------------------------------------------------------------------------
(* The two channels.                                                       *)

\* What the index, which is approximate, may return of the rows of S.
Listings(S) == UNION {{UpTo(s, Overfetch) : s \in SetToSeqs(T)} : T \in SUBSET S}

\* ts_rank first: what is above the floor comes before what is not.
ByRank(s) ==
    \A i, j \in DOMAIN s : s[i] \notin StrongMatches /\ s[j] \in StrongMatches => j < i

\* Mutant: versions that have been replaced are found too.
AnyVersion == active \cup {v \in Versions : Successor[v] \in active}

Searchable == active

\* fetchLexicalCandidates.
LexicalRead ==
    /\ at = "lexical"
    /\ \E s \in SetToSeqs(Searchable \cap Matches) :
        /\ ByRank(s)
        /\ lexical' = UpTo(s, Overfetch)
    /\ at' = "dense"
    /\ UNCHANGED <<corpusVars, engine, dense, counts, boosted, confident, degraded, rows,
                   evidence, wasActive, used>>

DenseIs(s, flags, ch) ==
    /\ at = "dense"
    /\ dense' = s
    /\ degraded' = flags
    /\ used' = ch
    /\ at' = "counts"
    /\ UNCHANGED <<corpusVars, engine, lexical, counts, boosted, confident, rows, evidence,
                   wasActive>>

\* fetchDenseCandidates: skipped when no endpoint is configured; nothing, or an
\* error, when there is no active model, the embedder is down or the query fails.
DenseRead ==
    \/ ~engine.embed /\ DenseIs(<<>>, {"dense_unavailable", "lexical_only"}, {})
    \/ engine.embed /\ DenseIs(<<>>, {"dense_unavailable"}, {})
    \/ engine.embed /\ \E s \in Listings(Searchable \cap vec) : DenseIs(s, {}, {"dense"})

-----------------------------------------------------------------------------
(* Fusion.                                                                 *)

\* 1/(RrfK + rank), in parts of a common denominator.
Parts[n \in 0..Overfetch] == IF n = 0 THEN 1 ELSE (RrfK + n) * Parts[n - 1]
Denominator == Parts[Overfetch]

Share(s, v) ==
    IF v \in ToSet(s) THEN Denominator \div (RrfK + Position(s, v)) ELSE 0

\* fuseRrf: the sum over the channels.
Fused(v) == Share(lexical, v) + Share(dense, v)

\* The rows by fused score, ties in the order they were met.
MergedRows ==
    LET met(v) == IF v \in ToSet(lexical) THEN Position(lexical, v)
                  ELSE Len(lexical) + Position(dense, v)
        before == {p \in Versions \X Versions :
                     \/ Fused(p[1]) > Fused(p[2])
                     \/ Fused(p[1]) = Fused(p[2]) /\ met(p[1]) < met(p[2])}
    IN InOrder(ToSet(lexical) \cup ToSet(dense), before)

\* scoreOf: authorityWeightedScore, when the authority prior applies.  Supports
\* leave authorities of 0 and 1 as they are.
ScoreOf(v, prior) == Fused(v) * (IF prior /\ v \in Authoritative THEN 3 ELSE 2)

\* By score, then the later first, then as their documents were met in s.
Ranked(s, S, prior) ==
    LET met(v) == CHOOSE i \in DOMAIN s :
                     DocOf[s[i]] = DocOf[v] /\ \A j \in 1..(i - 1) : DocOf[s[j]] # DocOf[v]
        later(u, v) == When[u] > When[v] \/ (When[u] = When[v] /\ met(u) < met(v))
        before == {p \in Versions \X Versions :
                     \/ ScoreOf(p[1], prior) > ScoreOf(p[2], prior)
                     \/ ScoreOf(p[1], prior) = ScoreOf(p[2], prior) /\ later(p[1], p[2])}
    IN InOrder(S, before)

\* Mutant: one row per version.
PerVersion(s, prior) == Ranked(s, ToSet(s), prior)

\* dedupeCandidatesPerDocument: of each document the best row, of equals the
\* first.
PerDocument(s, prior) ==
    LET better(u, v) ==
            \/ ScoreOf(u, prior) > ScoreOf(v, prior)
            \/ ScoreOf(u, prior) = ScoreOf(v, prior) /\ Position(s, u) < Position(s, v)
        rivals(v) == {u \in ToSet(s) \ {v} : DocOf[u] = DocOf[v]}
    IN Ranked(s, {v \in ToSet(s) : \A u \in rivals(v) : better(v, u)}, prior)

\* attachCorroborationCounts, once for each list, in two statements.
CountMerged ==
    /\ at = "counts"
    /\ counts' = [counts EXCEPT !.merged = supports]
    /\ at' = "lexicalCounts"
    /\ UNCHANGED <<corpusVars, engine, lexical, dense, boosted, confident, degraded, rows,
                   evidence, wasActive, used>>

CountLexical ==
    /\ at = "lexicalCounts"
    /\ counts' = [counts EXCEPT !.lexical = supports]
    /\ at' = "rerank"
    /\ UNCHANGED <<corpusVars, engine, lexical, dense, boosted, confident, degraded, rows,
                   evidence, wasActive, used>>

-----------------------------------------------------------------------------
(* Reranking.                                                              *)

\* What the reranker is sent.
Candidates == UpTo(PerDocument(MergedRows, FALSE), RerankLimit)

\* The authority-weighted order, when the reranker contributes nothing.
FusedRows == UpTo(PerDocument(MergedRows, TRUE), K)

\* Mutant: the reason replaces those there are.
OnlyReason(flag) == {flag}

WithReason(flag) == degraded \cup {flag}

FallBack(flag) ==
    /\ degraded' = WithReason(flag)
    /\ rows' = FusedRows
    /\ at' = "evidence"

\* rerankDocuments: which rows it is sure of is its own matter.
Sure(S) == SUBSET S

\* applyBoosts: any order, since neither the reranker's scores nor the boosts are
\* those of the channels.
Boosts(S) == SetToSeqs(S)

Reranked ==
    /\ engine.rerank
    /\ \E s \in Boosts(ToSet(Candidates)) : boosted' = UpTo(s, PoolSize)
    /\ confident' \in Sure(ToSet(Candidates))
    /\ at' = "vectors"
    /\ UNCHANGED <<degraded, rows>>

\* No endpoint, a failed call, a config that is refused, a query too long.
NotReranked ==
    /\ \/ FallBack("rerank_unavailable")
       \/ engine.rerank /\ FallBack("rerank_query_too_long")
    /\ UNCHANGED <<boosted, confident>>

Rerank ==
    /\ at = "rerank"
    /\ Reranked \/ NotReranked
    /\ UNCHANGED <<corpusVars, engine, lexical, dense, counts, evidence, wasActive, used>>

\* mmrRerank: the best row that has a vector, then the others that have one, as
\* their similarities have it; then those that have none, by score.
Diversified(s) ==
    LET with == Only(s, vec)
    IN {UpTo(t \o Only(s, ToSet(s) \ vec), K) :
          t \in {u \in SetToSeqs(ToSet(with)) : u # <<>> => u[1] = with[1]}}

\* fetchChunkVectors, inside the try of the reranker.
Diversify ==
    /\ at = "vectors"
    /\ \/ /\ rows' \in Diversified(boosted)
          /\ used' = used \cup {"rerank"}
          /\ at' = "evidence"
          /\ UNCHANGED degraded
       \/ FallBack("rerank_unavailable") /\ UNCHANGED used
    /\ UNCHANGED <<corpusVars, engine, lexical, dense, counts, boosted, confident, evidence,
                   wasActive>>

-----------------------------------------------------------------------------
(* Evidence, and the filter.                                               *)

\* Mutant: the floor of authority is not asked of what a human stated.
StatedIsEnough(v, cs) == v \in Stated \/ (v \in Authoritative /\ cs[v] >= SupportFloor)

\* meetsStrongEvidenceGate.
Gate(v, cs) == v \in Authoritative /\ (v \in Stated \/ cs[v] >= SupportFloor)

\* deriveHybridEvidence: the reranker's word for the top hit, or the rank of the
\* top row of the lexical channel.
EvidenceOf ==
    IF rows = <<>> THEN "none"
    ELSE IF \/ /\ confident # None
               /\ rows[1] \in confident
               /\ Gate(rows[1], counts.merged)
            \/ /\ lexical # <<>>
               /\ lexical[1] \in StrongMatches
               /\ Gate(lexical[1], counts.lexical)
         THEN "strong" ELSE "weak"

\* hybridSearch is over, and what it read and ranked by the way is gone.
Over ==
    /\ lexical' = <<>> /\ dense' = <<>> /\ boosted' = <<>>
    /\ counts' = [merged |-> NoCounts, lexical |-> NoCounts]

\* It returns.
Conclude ==
    /\ at = "evidence"
    /\ evidence' = EvidenceOf
    /\ at' = IF rows = <<>> THEN "found" ELSE "filter"
    /\ Over
    /\ UNCHANGED <<corpusVars, engine, confident, degraded, rows, wasActive, used>>

\* retrieve: hits of the documents the caller may not see, which are any, are
\* dropped.
Filter ==
    /\ at = "filter"
    /\ \E shown \in SUBSET Docs : rows' = Only(rows, {v \in Versions : DocOf[v] \in shown})
    /\ evidence' = IF rows' = <<>> THEN "none" ELSE evidence
    /\ at' = "found"
    /\ UNCHANGED <<corpusVars, engine, lexical, dense, counts, boosted, confident, degraded,
                   wasActive, used>>

\* A statement outside the try blocks throws, and the search with it: there are no
\* hits, flags or evidence.
DatabaseFails ==
    /\ at \in {"lexical", "counts", "lexicalCounts", "evidence", "filter"}
    /\ at' = "failed"
    /\ Over
    /\ rows' = <<>> /\ degraded' = {} /\ evidence' = "none" /\ confident' = None
    /\ UNCHANGED <<corpusVars, engine, wasActive, used>>

-----------------------------------------------------------------------------

SInit ==
    /\ \E S \in SUBSET {v \in First : Successor[v] # None} :
         active = (First \ S) \cup {Successor[v] : v \in S}
    /\ vec \in SUBSET active
    /\ supports = NoCounts
    /\ changes = 0
    /\ engine \in [embed : BOOLEAN, rerank : BOOLEAN]
    /\ at = "lexical"
    /\ lexical = <<>> /\ dense = <<>> /\ boosted = <<>> /\ rows = <<>>
    /\ counts = [merged |-> NoCounts, lexical |-> NoCounts]
    /\ confident = None
    /\ degraded = {}
    /\ evidence = "none"
    /\ wasActive = active
    /\ used = {}

CorpusStep ==
    \E v \in Versions : Capture(v) \/ Retire(v) \/ Embed(v) \/ Support(v)

SearchStep ==
    \/ LexicalRead \/ DenseRead \/ CountMerged \/ CountLexical
    \/ Rerank \/ Diversify \/ Conclude \/ Filter

SNext == CorpusStep \/ SearchStep \/ DatabaseFails

SSpec == SInit /\ [][SNext]_svars

-----------------------------------------------------------------------------
(* Properties.                                                             *)

\* The shape of every variable.
STypeOK ==
    /\ active \subseteq Versions /\ vec \subseteq Versions /\ wasActive \subseteq Versions
    /\ supports \in [Versions -> Nat]
    /\ at \in {"lexical", "dense", "counts", "lexicalCounts", "rerank", "vectors",
              "evidence", "filter", "found", "failed"}
    /\ \A s \in {lexical, dense, boosted, rows} : s \in Seq(Versions)
    /\ Len(lexical) <= Overfetch /\ Len(dense) <= Overfetch /\ Len(rows) <= K
    /\ counts \in [merged : [Versions -> Nat], lexical : [Versions -> Nat]]
    /\ confident \in {None} \cup SUBSET Versions
    /\ degraded \subseteq {"dense_unavailable", "lexical_only", "rerank_unavailable",
                          "rerank_query_too_long"}
    /\ evidence \in {"strong", "weak", "none"}
    /\ used \subseteq {"dense", "rerank"}

\* A document is one hit, also when a capture between the two channels had each
\* find another version of it.
OneHitPerDocument ==
    \A i, j \in DOMAIN rows : DocOf[rows[i]] = DocOf[rows[j]] => i = j

\* No hit is older than the search: each was active at some time of it.
HitsWereActive == \A i \in DOMAIN rows : rows[i] \in wasActive

\* Every variable has its shape, with no list longer than its cut, no two hits are
\* of one document, and none was inactive all along.
SearchInv == STypeOK /\ OneHitPerDocument /\ HitsWereActive

\* "`degraded` reports" when either stage "did not contribute" (hybridSearch): what
\* hybridSearch returns without the vectors, or without the reranker, has a flag
\* for each, whatever else went wrong in it.  Which of these flags the caller of
\* memory.search is given is SearchSaysSo in module FederatedSearch.
SaysSo ==
    at = "found" =>
        /\ "dense" \notin used => "dense_unavailable" \in degraded
        /\ "rerank" \notin used =>
             degraded \cap {"rerank_unavailable", "rerank_query_too_long"} # {}
        /\ ~engine.embed <=> "lexical_only" \in degraded

\* Evidence is "strong" only with a version, active in the course of the search,
\* that the words or the reranker found relevant enough and whose authority is
\* above the floor and that a human stated or that has its supports, whichever
\* of the lists, counts and scores of the search the evidence was drawn from.
StrongHasGround ==
    evidence = "strong" =>
        \E v \in wasActive \cap Authoritative :
            /\ v \in Stated \/ supports[v] >= SupportFloor
            /\ v \in StrongMatches \/ (confident # None /\ v \in confident)
=============================================================================
