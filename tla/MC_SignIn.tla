------------------------------ MODULE MC_SignIn ------------------------------
(* Two requests at a time. *)
EXTENDS SignIn, TLC

CONSTANTS c1, c2, m1

Symmetry == Permutations({c1, c2})

Ident(kind, name, mail) == [kind |-> kind, name |-> name, mail |-> mail]

Some == {Ident("google", "g", m1), Ident("oidc", "o", NoMail)}
==============================================================================
