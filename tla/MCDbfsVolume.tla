---------------------------- MODULE MCDbfsVolume ----------------------------
(* DbfsVolume, with the invariant of its proofs, for TLC: locators and       *)
(* threads are interchangeable.                                            *)
EXTENDS DbfsVolumeProofs, TLC
Symmetry == Permutations(Threads) \cup Permutations(Files)
=============================================================================
