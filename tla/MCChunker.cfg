\* Texts of up to eleven characters; the cap is four, the least chunk three, the
\* overlap three.
CONSTANTS
    MaxChars = 4
    MinChars = 3
    OverlapChars = 3
    Documents <- MCDocuments
SPECIFICATION CSpec
INVARIANTS
    ChunkerInv
    ChunksBounded
    WordsKept
