---------------------------- MODULE MCMangooFuse ----------------------------
EXTENDS MangooFuse, TLC

Symmetry == Permutations(Threads) \cup Permutations(Opens)
=============================================================================
