----------------------------- MODULE MCCapture -----------------------------
EXTENDS Capture, TLC

Symmetry == Permutations(Captures) \cup Permutations(Hashes) \cup Permutations(Refs)
=============================================================================
