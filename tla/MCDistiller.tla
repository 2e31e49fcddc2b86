---------------------------- MODULE MCDistiller ----------------------------
EXTENDS Distiller, TLC

Symmetry == Permutations(Sources \ Doomed)
=============================================================================
