-------------------------------- MODULE Ratchet --------------------------------
(***************************************************************************)
(* The Double Ratchet session of two devices, as the devices keep it: every *)
(* call of the library (ratchet.rs, by way of ffi.rs) gets the session as a  *)
(* record and gives the next one back.  Messages lie on the server: each may *)
(* be opened early, late, never or again, and may come garbled.  Alice has   *)
(* opened the session (X3DH); Bob's begins with her first message.           *)
(*                                                                           *)
(* A key agreement is the pair of its keys, a root key the agreements it was *)
(* derived from, a chain key its root and its place, and a message key the   *)
(* chain key it was derived from.                                            *)
(***************************************************************************)
EXTENDS Naturals, Sequences, FiniteSets

CONSTANTS
    MaxSkip,        \* MAX_SKIP: the keys a receiver derives ahead
    MaxSent         \* bound of the model: messages a party sends

ASSUME RatchetAssumption == {MaxSkip, MaxSent} \subseteq Nat

VARIABLES
    session,        \* per party: its session, or NoSession
    wire,           \* the messages
    opened,         \* per party: the messages it has read
    repeated        \* a party has read a message twice

ratchetVars == <<session, wire, opened, repeated>>

Party == {"alice", "bob"}
Other(p) == CHOOSE q \in Party : q # p

NoKey == [of |-> "nobody", made |-> 0]
SignedPrekey == [of |-> "bob", made |-> 0]
NoChain == [root |-> <<>>, at |-> 0]

Agree(rk, mine, theirs) == Append(rk, {mine, theirs})
ChainOf(rk) == [root |-> rk, at |-> 0]

\* A session as its device stores it (RatchetStateDto).
Session(dhs, dhr, rk, cks) ==
    [dhs |-> dhs, dhr |-> dhr, rk |-> rk, cks |-> cks, ckr |-> NoChain,
     ns |-> 0, nr |-> 0, pn |-> 0, skipped |-> {}]

NoSession == Session(NoKey, NoKey, <<>>, NoChain)

InitAlice ==
    LET dhs == [of |-> "alice", made |-> 0]
        rk == Agree(<<>>, dhs, SignedPrekey)
    IN  Session(dhs, SignedPrekey, rk, ChainOf(rk))

InitBob == Session(SignedPrekey, NoKey, <<>>, NoChain)

RatchetInit ==
    /\ session = [p \in Party |-> NoSession]
    /\ wire = {}
    /\ opened = [p \in Party |-> {}]
    /\ repeated = FALSE

-----------------------------------------------------------------------------
Header(s) == [dh |-> s.dhs, pn |-> s.pn, n |-> s.ns]

\* Mutant: the chain key stays.
SealedKeeping(s) == [s EXCEPT !.ns = @ + 1]

\* The session after a message was sealed with the chain's next key.
Sealed(s) == [s EXCEPT !.cks.at = @ + 1, !.ns = @ + 1]

\* encrypt: p sends one more message, with its n-th key in the header.
SendWith(p, s) ==
    /\ s.cks # NoChain
    /\ Cardinality({m \in wire : m.from = p}) < MaxSent
    /\ wire' = wire \cup {[from |-> p, no |-> Cardinality(wire), header |-> Header(s), key |-> s.cks,
                           initial |-> session[p] = NoSession]}
    /\ session' = [session EXCEPT ![p] = Sealed(s)]
    /\ UNCHANGED <<opened, repeated>>

\* dm_session_open_initiator, of Alice; her first message has x3dh_initial.
OpenSession == session["alice"] = NoSession /\ SendWith("alice", InitAlice)

Encrypt(p) == session[p] # NoSession /\ SendWith(p, session[p])

-----------------------------------------------------------------------------
InReach(s, until) == until <= s.nr + MaxSkip

\* Mutant: the key of the message itself is put aside as well.
SkipKeysPast(s, until) ==
    IF s.ckr = NoChain \/ until <= s.nr
    THEN s
    ELSE [s EXCEPT
            !.skipped = @ \cup {[dh |-> s.dhr, n |-> i,
                                 key |-> [s.ckr EXCEPT !.at = @ + (i - s.nr)]] : i \in s.nr .. until},
            !.ckr.at = @ + (until - s.nr),
            !.nr = until]

\* skip_message_keys, where it does not fail: the keys of the messages up to
\* number until are put aside.
SkipKeys(s, until) ==
    IF s.ckr = NoChain \/ until <= s.nr
    THEN s
    ELSE [s EXCEPT
            !.skipped = @ \cup {[dh |-> s.dhr, n |-> i,
                                 key |-> [s.ckr EXCEPT !.at = @ + (i - s.nr)]] : i \in s.nr .. until - 1},
            !.ckr.at = @ + (until - s.nr),
            !.nr = until]

\* dh_ratchet: a receiving chain of the other's new key, and a key and a
\* sending chain of one's own.
Turn(s, remote) ==
    LET rk1 == Agree(s.rk, s.dhs, remote)
        mine == [s.dhs EXCEPT !.made = @ + 1]
        rk2 == Agree(rk1, mine, remote)
    IN  [s EXCEPT !.pn = s.ns, !.ns = 0, !.nr = 0, !.dhr = remote, !.dhs = mine, !.rk = rk2,
                  !.ckr = ChainOf(rk1), !.cks = ChainOf(rk2)]

\* Mutant: the key stays when it was used.
WithoutKeyNot(s, k) == s

\* try_skipped.
WithoutKey(s, k) == [s EXCEPT !.skipped = @ \ {k}]

Failed == [ok |-> FALSE, key |-> NoChain, session |-> NoSession]

\* decrypt_staged: the key the header names, and the session after it.
Staged(s, h) ==
    LET aside == {k \in s.skipped : k.dh = h.dh /\ k.n = h.n}
        known == h.dh = s.dhr
        turned == IF known THEN s ELSE Turn(SkipKeys(s, h.pn), h.dh)
        ahead == SkipKeys(turned, h.n)
    IN  IF aside # {}
        THEN LET k == CHOOSE k \in aside : TRUE
             IN  [ok |-> TRUE, key |-> k.key, session |-> WithoutKey(s, k)]
        ELSE IF (~known => InReach(s, h.pn)) /\ InReach(turned, h.n) /\ ahead.ckr # NoChain
        THEN [ok |-> TRUE, key |-> ahead.ckr,
              session |-> [ahead EXCEPT !.ckr.at = @ + 1, !.nr = @ + 1]]
        ELSE Failed

\* The header is authenticated with the message.
Opens(s, h, m) == Staged(s, h).ok /\ Staged(s, h).key = m.key /\ h = m.header

\* Mutant: decrypt works on the session itself.
AfterFailureUnstaged(s, h) == IF Staged(s, h).ok THEN Staged(s, h).session ELSE s

\* decrypt drops the staged session with its error.
AfterFailure(s, h) == s

\* What decrypt starts from: dm_session_open_responder begins Bob's session
\* with a message that has x3dh_initial.
Before(p, m) == IF session[p] = NoSession THEN InitBob ELSE session[p]

Decrypt(p, m) ==
    /\ m.from = Other(p)
    /\ session[p] # NoSession \/ m.initial
    /\ Opens(Before(p, m), m.header, m)
    /\ session' = [session EXCEPT ![p] = Staged(Before(p, m), m.header).session]
    /\ opened' = [opened EXCEPT ![p] = @ \cup {m}]
    /\ repeated' = (repeated \/ m \in opened[p])
    /\ UNCHANGED wire

\* The ways a header is garbled; a message with its own header may be garbled too.
Garbled(m) == {m.header} \cup {[m.header EXCEPT !.n = n] : n \in 0 .. MaxSent}

\* A message that does not open: garbled, read before, or out of reach.
Refuse(p, m, h) ==
    /\ m.from = Other(p) /\ session[p] # NoSession
    /\ session' = [session EXCEPT ![p] = AfterFailure(session[p], h)]
    /\ UNCHANGED <<wire, opened, repeated>>

RatchetNext ==
    \/ OpenSession
    \/ \E p \in Party :
        \/ Encrypt(p)
        \/ \E m \in wire : Decrypt(p, m) \/ \E h \in Garbled(m) : Refuse(p, m, h)

RatchetSpec == RatchetInit /\ [][RatchetNext]_ratchetVars

-----------------------------------------------------------------------------
\* A session's counters are the places of its chains, and keys put aside are
\* of the other's chains.
RatchetTypeOK ==
    /\ \A p \in Party : session[p] # NoSession =>
        /\ session[p].ns = session[p].cks.at /\ session[p].nr = session[p].ckr.at
        /\ session[p].dhs.of = p /\ session[p].dhr.of \in {Other(p), "nobody"}
        /\ \A k \in session[p].skipped : k.dh.of = Other(p)
    /\ \A p \in Party : opened[p] \subseteq {m \in wire : m.from = Other(p)}

\* No two messages are sealed with one key: the nonce is derived from the key.
KeysAreFresh == \A m1, m2 \in wire : m1.key = m2.key => m1 = m2

\* A message is read once, however often it is delivered.
OpenedOnce == ~repeated

NumbersRead(p, dh) == {m.header.n + 1 : m \in {o \in opened[p] : o.header.dh = dh}}
Top(p, dh) == IF NumbersRead(p, dh) = {} THEN 0
              ELSE CHOOSE n \in NumbersRead(p, dh) : \A o \in NumbersRead(p, dh) : o <= n

\* More than MaxSkip messages before it are missing, in its chain or at the
\* end of the chain before it.
OutOfReach(p, m) ==
    LET dh == m.header.dh
    IN  \/ m.header.n > Top(p, dh) + MaxSkip
        \/ /\ NumbersRead(p, dh) = {} /\ dh.made > 0
           /\ m.header.pn > Top(p, [dh EXCEPT !.made = @ - 1]) + MaxSkip

\* A message that was not read can still be read: after messages that came
\* before their turn, in the wrong order, again or garbled, and after any
\* number of turns of the ratchet; except one that more than MAX_SKIP missing
\* messages precede.
StillReadable ==
    \A p \in Party : session[p] # NoSession =>
        \A m \in {m \in wire : m.from = Other(p)} \ opened[p] :
            Opens(session[p], m.header, m) \/ OutOfReach(p, m)

\* The keys a session has put aside are the keys of messages it has not read,
\* and no key of a message that was read stays: mkskipped is never trimmed.
SkippedAreUnread ==
    \A p \in Party : \A k \in session[p].skipped :
        \E m \in wire \ opened[p] : m.header.dh = k.dh /\ m.header.n = k.n /\ m.key = k.key

\* A session reads every message once, whatever the server does with them, and
\* never seals two with one key (encrypt, decrypt).
MessagesStayReadable ==
    RatchetTypeOK /\ KeysAreFresh /\ OpenedOnce /\ StillReadable /\ SkippedAreUnread
===============================================================================
