----------------------------- MODULE MCRuntimeLog -----------------------------
(* RuntimeLog with the guard's report, for TLC: inodes are interchangeable.  *)
EXTENDS RetentionReport, TLC

InodeSymmetry == Permutations(Inodes)
=============================================================================
