-------------------------- MODULE MCDocumentAccess --------------------------
EXTENDS DocumentAccess, TLC

Symmetry == Permutations(Principals) \cup Permutations(Docs)
              \cup Permutations(Contents) \cup Permutations(Adds)
=============================================================================
