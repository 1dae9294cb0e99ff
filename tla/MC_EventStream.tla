--------------------------- MODULE MC_EventStream ---------------------------
(* Two senders and the streams of a user's one or two devices. *)
EXTENDS EventStream, TLC

CONSTANTS w1, w2, phone, laptop, s1, s2, s3

MCWriters == {w1, w2}
Symmetry == Permutations(MCWriters)
=============================================================================
