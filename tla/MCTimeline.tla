----------------------------- MODULE MCTimeline -----------------------------
EXTENDS Timeline, TLC, Integers

CONSTANTS a1, a2, b1, c1, docA, docB, docC, tagT, tagU, tagH

\* Two versions of a document and one each of two others.
VersionDoc == a1 :> docA @@ a2 :> docA @@ b1 :> docB @@ c1 :> docC
Replaced == a1 :> a2 @@ a2 :> None @@ b1 :> None @@ c1 :> None
Occurred == a1 :> 1 @@ a2 :> 3 @@ b1 :> 2 @@ c1 :> 2

\* One document nobody was given but its creator, one shared twice, one shared
\* with the tenant.
TagsAtFirst == docA :> {} @@ docB :> {tagT, tagU} @@ docC :> {tagU, tagH}

\* What the reranker of the search is sent, at the sizes where its cases part.
Budget == INSTANCE RerankBudget

Sizes == {0, 1, 199, 200, 201, 700, 1300, 1301, 1500, 1536, 1537}
Pairs == [config : [model : {"bge-reranker-base", "bge-reranker-v2-m3", "another"},
                    set : BOOLEAN, maxDocChars : Sizes \cup {-1, 24576, 24577}],
          query : Sizes, t : [lead : {0, 1, 1500}, body : Sizes, trail : {0, 1}]]

ASSUME PairsFit ==
    \A p \in Pairs :
        Budget!Accepted(p.config) /\ ~Budget!TooLong(p.config, p.query) =>
            LET sent == Budget!Truncated(p.t, Budget!DocBudget(p.config, p.query))
            IN /\ p.query + Budget!Length(sent) <= 3 * Budget!LimitOf(p.config.model)
               /\ p.t.body > 0 => sent.body > 0

=============================================================================
