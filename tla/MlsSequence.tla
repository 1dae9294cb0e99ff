----------------------------- MODULE MlsSequence -----------------------------
(***************************************************************************)
(* MLS records of one group.  The server does not read them; it hands out  *)
(* their order: a commit takes the next epoch of the group, a welcome      *)
(* belongs to a commit, an application record takes the next generation of *)
(* its device in the current epoch.  reserve_mls_sequence books that slot  *)
(* in SQLite; only then send_message checks that the sender may write to   *)
(* the group and stores the record in the message store.                   *)
(*                                                                         *)
(* No statement on these tables touches two groups, so the model has one.  *)
(* The message store is the log that MsgDb implements (ImplementsLog): a   *)
(* crash takes it back to what was flushed.  SQLite loses nothing.         *)
(***************************************************************************)
EXTENDS Integers

CONSTANTS
    Request,        \* the requests of POST /group/:gid/send
    Device,         \* sender devices, each of one user
    CommitId,       \* mls_commit_id
    NoCommit,       \* its absence, in an application record
    Mid,            \* message ids
    Replied,        \* the records that clients put into a reply or an edit
    MaxEpoch,       \* bound of the model: epochs
    MaxGeneration   \* bound of the model: generations in an epoch

ASSUME NoCommitAssumption == NoCommit \notin CommitId
ASSUME SlotBoundAssumption == MaxEpoch \in Nat /\ MaxGeneration \in Nat

Handshake ==
    [class : {"commit", "welcome"}, epoch : 0 .. MaxEpoch, cid : CommitId,
     dev : Device, gen : {0}]

Application ==
    [class : {"application"}, epoch : 0 .. MaxEpoch, cid : {NoCommit},
     dev : Device, gen : 0 .. MaxGeneration]

\* What validate_properties lets through of protocol "mls".
Record == Handshake \cup Application

ASSUME RepliedAssumption == Replied \subseteq Record

Idle == [class |-> "idle"]

VARIABLES
    reserved,   \* rows of e2e_v2_mls_commit, _welcome and _application
    sending,    \* per request: the record it has reserved and not stored
    member,     \* devices whose user may write to the group
    log,        \* stored records: mid -> [rec, via]
    durable     \* the part of log that a crash leaves behind

vars == <<reserved, sending, member, log, durable>>

Log == INSTANCE MessageLog
           WITH Payload <- [rec : Record, via : {"send", "reply"}]

Init ==
    /\ reserved = {}
    /\ sending = [r \in Request |-> Idle]
    /\ member = Device
    /\ Log!Init

-----------------------------------------------------------------------------
RowsOf(class) == {x \in reserved : x.class = class}

\* "select max(epoch) from e2e_v2_mls_commit", 0 when there is no commit.
IsCurrentEpoch(e) ==
    /\ \A c \in RowsOf("commit") : c.epoch <= e
    /\ e = 0 \/ \E c \in RowsOf("commit") : c.epoch = e

\* The epoch after the current one, and a commit id of its own.
CommitFits(x) ==
    /\ IsCurrentEpoch(x.epoch - 1)
    /\ \A c \in RowsOf("commit") : c.cid # x.cid

\* Mutant: a welcome names any commit id in an epoch that has a commit.
WelcomeFitsEpoch(x) ==
    /\ \E c \in RowsOf("commit") : c.epoch = x.epoch
    /\ \A w \in RowsOf("welcome") : ~(w.epoch = x.epoch /\ w.cid = x.cid)

\* The commit exists in that epoch, and has no welcome yet.
WelcomeFits(x) ==
    /\ \E c \in RowsOf("commit") : c.epoch = x.epoch /\ c.cid = x.cid
    /\ \A w \in RowsOf("welcome") : ~(w.epoch = x.epoch /\ w.cid = x.cid)

\* The generations that a device has used in an epoch.
Generations(e, d) ==
    {x.gen : x \in {y \in RowsOf("application") : y.epoch = e /\ y.dev = d}}

\* "max(generation) + 1", 0 when there is none.
IsNextGeneration(e, d, g) ==
    /\ \A used \in Generations(e, d) : used < g
    /\ g = 0 \/ g - 1 \in Generations(e, d)

\* Mutant: the generation must be larger than the last one, not the next one.
ApplicationFitsWithGap(x) ==
    /\ IsCurrentEpoch(x.epoch)
    /\ \A used \in Generations(x.epoch, x.dev) : used < x.gen

\* Mutant: a generation that is booked is accepted again, as if retried.
ApplicationFitsRetry(x) ==
    /\ IsCurrentEpoch(x.epoch)
    /\ \/ IsNextGeneration(x.epoch, x.dev, x.gen)
       \/ x.gen \in Generations(x.epoch, x.dev)

ApplicationFits(x) ==
    /\ IsCurrentEpoch(x.epoch)
    /\ IsNextGeneration(x.epoch, x.dev, x.gen)

Fits(x) ==
    \/ x.class = "commit" /\ CommitFits(x)
    \/ x.class = "welcome" /\ WelcomeFits(x)
    \/ x.class = "application" /\ ApplicationFits(x)

\* reserve_mls_sequence, one transaction.  The sender device is the
\* authenticated one; that its user is in the group is not checked here.
Reserve(r, x) ==
    /\ sending[r] = Idle
    /\ Fits(x)
    /\ reserved' = reserved \cup {x}
    /\ sending' = [sending EXCEPT ![r] = x]
    /\ UNCHANGED <<member, log, durable>>

Release(r) == sending' = [sending EXCEPT ![r] = Idle]

\* send_message refuses the record (the sender has left the group, or the
\* group is gone), the store fails, or the client hangs up before the write:
\* the slot stays taken.
SendEnds(r) ==
    /\ sending[r] # Idle
    /\ Release(r)
    /\ UNCHANGED <<reserved, member, log, durable>>

\* send_message, under the read side of the cache lock: the check and the write.
StoreRecord(r, m) ==
    /\ sending[r] # Idle
    /\ sending[r].dev \in member
    /\ Log!Append(m, [rec |-> sending[r], via |-> "send"])
    /\ Release(r)
    /\ UNCHANGED <<reserved, member>>

\* A reply to, or an edit of, a message of the group: its content may be an
\* MLS record too, and neither handler reserves a slot for it.
StoreReply(m, x, d) ==
    /\ d \in member
    /\ DOMAIN log # {}
    /\ Log!Append(m, [rec |-> x, via |-> "reply"])
    /\ UNCHANGED <<reserved, sending, member>>

\* The handlers that change the members, or delete the group.
ChangeMembers(s) ==
    /\ member' = s
    /\ UNCHANGED <<reserved, sending, log, durable>>

BackgroundFlush ==
    /\ Log!Persist
    /\ UNCHANGED <<reserved, sending, member>>

\* The process dies and is started again.
Crash ==
    /\ Log!Lose
    /\ sending' = [r \in Request |-> Idle]
    /\ UNCHANGED <<reserved, member>>

Next ==
    \/ \E r \in Request, x \in Record : Reserve(r, x)
    \/ \E r \in Request : SendEnds(r)
    \/ \E r \in Request, m \in Mid : StoreRecord(r, m)
    \/ \E m \in Mid, x \in Replied, d \in Device : StoreReply(m, x, d)
    \/ \E s \in SUBSET Device : ChangeMembers(s)
    \/ BackgroundFlush
    \/ Crash

Spec == Init /\ [][Next]_vars

-----------------------------------------------------------------------------
\* The type of every variable.
TypeOK ==
    /\ reserved \subseteq Record
    /\ sending \in [Request -> Record \cup {Idle}]
    /\ member \subseteq Device
    /\ \A t \in {log, durable} :
          /\ DOMAIN t \subseteq Mid
          /\ \A m \in DOMAIN t : t[m] \in [rec : Record, via : {"send", "reply"}]

\* Two records that a receiver cannot both apply: two commits of one epoch, or
\* two application records of one device with one generation.
SameSlot(x, y) ==
    /\ x.class = y.class
    /\ x.epoch = y.epoch
    /\ x.class = "welcome" => x.cid = y.cid
    /\ x.class = "application" => x.dev = y.dev /\ x.gen = y.gen

Sent(m) == log[m].via = "send"

\* No slot of the group's order is ever stored twice by /send, whatever
\* requests race for it, fail after booking it, or lose their record in a crash.
SlotStoredOnce ==
    \A m, n \in {k \in DOMAIN log : Sent(k)} :
        SameSlot(log[m].rec, log[n].rec) => m = n

\* The two stores agree on whose slot it is: a record stored by /send carries
\* the commit id, device and generation booked for it, and a welcome the id of
\* the commit that won its epoch.
StoredAsReserved ==
    \A m \in DOMAIN log : Sent(m) =>
        /\ log[m].rec \in reserved
        /\ log[m].rec.class = "welcome" =>
              \E c \in RowsOf("commit") :
                  c.epoch = log[m].rec.epoch /\ c.cid = log[m].rec.cid

\* The booked slots form chains: no epoch and no generation is ever skipped, so
\* a client that holds all records up to one knows that none is missing.
NoSlotSkipped ==
    \A x \in reserved :
        /\ \A e \in 1 .. x.epoch : \E c \in RowsOf("commit") : c.epoch = e
        /\ x.class = "application" =>
              \A g \in 0 .. x.gen : g \in Generations(x.epoch, x.dev)

-----------------------------------------------------------------------------
\* The design of the client's recovery: "On E2E_MLS_SEQUENCE_CONFLICT, the client
\* fetches and processes missing records, then retries the application once."
\* For that, when no send is under way, the commit of every booked epoch is
\* among the records there are to fetch.
ConflictCanCatchUp ==
    (\A r \in Request : sending[r] = Idle) =>
        \A c \in RowsOf("commit") : \E m \in DOMAIN log : log[m].rec = c
=============================================================================
