----------------------------- MODULE MCConcWrite -----------------------------
EXTENDS ConcWrite, TLC

Symmetry == Permutations(Threads)
=============================================================================
