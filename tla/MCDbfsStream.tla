---------------------------- MODULE MCDbfsStream ----------------------------
EXTENDS DbfsStream, TLC

Symmetry == Permutations(Threads)
=============================================================================
