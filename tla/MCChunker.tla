------------------------------ MODULE MCChunker ------------------------------
EXTENDS Chunker

\* The texts over some classes up to a length.
Texts(S, n) == UNION {[1..k -> S] : k \in 0..n}

\* Every short text, longer ones over fewer classes, and two texts in a row.
MCDocuments ==
    {<<t>> : t \in Texts(Classes, 7)}
      \cup {<<t>> : t \in Texts({"newline", "space", "letter"}, 8)}
      \cup {<<t>> : t \in Texts({"space", "letter"}, 11)}
      \cup {<<t, u>> : t \in Texts({"newline", "letter"}, 5), u \in Texts({"letter"}, 5)}
=============================================================================
