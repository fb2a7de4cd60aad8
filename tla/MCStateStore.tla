---------------------------- MODULE MCStateStore ----------------------------
(* StateStore with a few processes. *)
EXTENDS StateStore, TLC

CONSTANTS w1, w2, a1, s1

WriterSymmetry == Permutations({w1, w2})
=============================================================================
