--------------------------- MODULE MC_DeferredDm ---------------------------
(* Deferred DMs between a few users, one device each. *)
EXTENDS DeferredDm, TLC

CONSTANTS r1, r2, a, b, c, phone, laptop

MCRequests == {r1, r2}
Symmetry == Permutations(MCRequests)

\* a's device is the phone, b's the laptop.
MCOwner == [d \in Device |-> IF d = phone THEN a ELSE b]

Dm(f, t, k) == [from |-> f, to |-> t, kind |-> k]

OneWay == {Dm(a, b, "normal")}

\* Both directions between two users, so that a reused mid can name another pair.
TwoWay == {Dm(a, b, "normal"), Dm(b, a, "normal")}

\* Messages and their edits.
WithEdit == {Dm(a, b, "normal"), Dm(a, b, "edit")}

\* a edits a message to c, whose account may be gone, and writes to b.
EditToDeleted == {Dm(a, c, "normal"), Dm(a, c, "edit"), Dm(a, b, "normal")}
=============================================================================
