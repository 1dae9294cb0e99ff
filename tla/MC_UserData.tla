----------------------------- MODULE MC_UserData -----------------------------
(* UserData on small sets; the devices are alike. *)
EXTENDS UserData, TLC

CONSTANTS bob, g, d1, d2, c1, r1, r2, a1, a2, a3, p1, t1, t2

MCOwner == g :> bob
MCFold == "ann" :> "ann" @@ "Ann" :> "ann" @@ "bob" :> "bob"
MCSymmetry == Permutations({d1, d2})
===============================================================================
