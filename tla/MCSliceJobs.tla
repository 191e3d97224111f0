---------------------------- MODULE MCSliceJobs ----------------------------
(* Small instances of SliceJobs for TLC. *)
EXTENDS SliceJobs, TLC

CONSTANTS j1, j2, w1, w2, c1, c2, lan, cloud

Symmetry == Permutations(Jobs)
=============================================================================
