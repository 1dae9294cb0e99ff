------------------------------ MODULE MC_Pinned ------------------------------
(* Two requests, one or two groups. *)
EXTENDS Pinned, TLC

CONSTANTS w1, w2, ann, bob

Symmetry == Permutations({w1, w2})
===============================================================================
