------------------------------ MODULE MCDbfsDir ------------------------------
(* DbfsDir for TLC.  '.' < '/' < 'a' as in ASCII, so that a sibling of "/a"  *)
(* can sort before its entries ("/a.") and after them ("/aa").              *)
EXTENDS DbfsDir, TLC

Nested == {<<2>>, <<2, 3>>, <<2, 3, 2, 3>>}
TwoDirs == Nested \cup {<<2, 3, 3>>}
DotDirs == {<<2>>, <<2, 3>>, <<2, 3, 1>>, <<2, 3, 2, 3>>}

\* The inode numbers in the order of creation do not follow the names.  The
\* first entry of a new volume gets the one of the root (dbfs.c:187).
InoOf(p) ==
  CASE p \in {<<2>>, <<2, 3>>} -> 1 [] p = <<2, 3, 3>> -> 2
    [] p = <<2, 3, 2, 3>> -> 3 [] p = <<2, 3, 1>> -> 4
FirstBlockOf(S) == [p \in S |-> <<InoOf(p), 0>>]
NestedBlock == FirstBlockOf(Nested)
DirsBlock == FirstBlockOf(TwoDirs)
DotBlock == FirstBlockOf(DotDirs)
Child == {<<2, 3>>, <<2, 3, 2, 3>>}
Symmetry == Permutations(Threads)
=============================================================================
