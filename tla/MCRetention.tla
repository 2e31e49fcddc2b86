---------------------------- MODULE MCRetention ----------------------------
EXTENDS Retention, TLC

Symmetry ==
    Permutations(Captures) \cup Permutations(Hashes) \cup Permutations(Forgets)
        \cup Permutations(Purges)
=============================================================================
