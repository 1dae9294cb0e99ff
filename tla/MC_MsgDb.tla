------------------------------ MODULE MC_MsgDb ------------------------------
(***************************************************************************)
(* The message store on its own: two writers, a plain and a deferred body, *)
(* leases of two ids.  Three leases fit under MaxSeq, so the lease is      *)
(* renewed, given back and lost within the bound.                          *)
(***************************************************************************)
EXTENDS MsgDb

CONSTANTS w1, w2, plain, deferred

MCWriters == {w1, w2}
MCPayload == {plain, deferred}
MCPending == {deferred}
=============================================================================
