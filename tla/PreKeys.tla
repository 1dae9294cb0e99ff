------------------------------- MODULE PreKeys -------------------------------
(***************************************************************************)
(* The published key material of devices: the rows of e2e_identity and of  *)
(* e2e_prekey.  A person's device publishes its own; the server publishes  *)
(* those of a bot (BotE2ee).                                               *)
(*                                                                         *)
(* A key pair is known by the generation it was made in: the identity key  *)
(* and the signed prekey of generation g are g, its one-time prekey with   *)
(* id k is the pair of k and g.                                            *)
(***************************************************************************)
EXTENDS Naturals, FiniteSets

CONSTANTS
    Device,         \* device ids
    OtpIds,         \* the key ids of a batch of one-time prekeys
    MaxMade         \* bound of the model: generations of keys

ASSUME PreKeysAssumption == OtpIds \subseteq Nat \ {0} /\ IsFiniteSet(OtpIds)
ASSUME MadeAssumption == MaxMade \in Nat

VARIABLES
    identity,       \* per device: [ver, ik, spk, retired]; ver = 0 is no row
    prekey,         \* per device: its rows of e2e_prekey
    made            \* generations of keys so far

keyVars == <<identity, prekey, made>>

Generation == 0 .. MaxMade

NoIdentity == [ver |-> 0, ik |-> 0, spk |-> 0, retired |-> FALSE]

\* A row: the generation it was inserted in and its key id (together they
\* order the rows as the AUTOINCREMENT id does), the generation of the public
\* key it holds now, whether that key is well-formed, and consumed.
PreKeyRow == [row : Generation, key : Nat, pub : Generation, good : BOOLEAN, used : BOOLEAN]

KeysTypeOK ==
    /\ identity \in [Device -> [ver : Nat, ik : Generation, spk : Generation, retired : BOOLEAN]]
    /\ \A d \in Device : prekey[d] \subseteq PreKeyRow
    /\ made \in Generation

InitKeys ==
    /\ identity = [d \in Device |-> NoIdentity]
    /\ prekey = [d \in Device |-> {}]
    /\ made = 0

NewGeneration == made' = made + 1 /\ made < MaxMade

Fresh(d) == {p \in prekey[d] : ~p.used}

\* order by id limit 1, among those not consumed
Before(p, q) == p.row < q.row \/ (p.row = q.row /\ p.key < q.key)
IsNext(p, d) == p \in Fresh(d) /\ \A q \in Fresh(d) : q = p \/ Before(p, q)

SameRow(p, q) == p.row = q.row /\ p.key = q.key

\* The rows of e2e_prekey with the one of p's id marked as consumed.
Consumed(rows, p) == {IF SameRow(p, q) THEN [q EXCEPT !.used = TRUE] ELSE q : q \in rows}

NewRow(k, g, wellformed) ==
    [row |-> g, key |-> k, pub |-> g, good |-> wellformed, used |-> FALSE]

\* Mutant: the version is set once and never again.
PublishedKeepingVersion(row, g) ==
    [row EXCEPT !.ver = IF row.ver = 0 THEN 1 ELSE @,
                !.ik = g, !.spk = g, !.retired = FALSE]

-----------------------------------------------------------------------------
\* put_identity, the transaction: new keys get a new version, the same keys
\* keep theirs, and either way the device is no longer retired.
Published(row, g) ==
    [row EXCEPT !.ver = IF row.spk # g THEN @ + 1 ELSE @,
                !.ik = g, !.spk = g, !.retired = FALSE]

\* put_prekeys: a batch takes the place of the keys not yet consumed.  The
\* keys are whatever the client sent.  Clients number their keys upwards: one
\* with the id of a consumed row is refused by the unique index.
PutPrekeys(d, wellformed) ==
    /\ NewGeneration
    /\ LET Used == prekey[d] \ Fresh(d)
           Batch == {NewRow(made * Cardinality(OtpIds) + k, made + 1, wellformed) : k \in OtpIds}
       IN prekey' = [prekey EXCEPT ![d] = Used \cup Batch]
    /\ UNCHANGED identity

\* The last session of the device ends (logout, delete_device).
Retire(d) ==
    /\ identity[d].ver > 0 /\ ~identity[d].retired
    /\ identity' = [identity EXCEPT ![d].retired = TRUE]
    /\ UNCHANGED <<prekey, made>>
=============================================================================
