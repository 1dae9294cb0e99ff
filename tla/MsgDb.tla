-------------------------------- MODULE MsgDb --------------------------------
(***************************************************************************)
(* The message store (crates/msgdb): one sled tree that holds the message  *)
(* bodies, the pending-DM markers and the lease of the message-id          *)
(* sequence.  A message id is taken from an in-memory range that was       *)
(* leased by advancing a persisted key; taking the id and writing the      *)
(* message are two steps with the mutex released in between.               *)
(*                                                                         *)
(* sled keeps recent writes in memory and flushes its log in the           *)
(* background, so a crash leaves a prefix of the writes: `disk` is that    *)
(* prefix, and Flush may move it up at any time.                           *)
(*                                                                         *)
(* The keys MSG/mid, UMSG/uid/mid, GMSG/gid/mid and DM/a/b/mid of one      *)
(* message are inserted by one atomic batch with one value, so they are    *)
(* one entry of db.msgs here; PEND/mid is in the same batch.               *)
(***************************************************************************)
EXTENDS Integers

CONSTANTS
    Writers,                \* the tasks that send messages
    Payload,                \* message bodies
    PendingPayload,         \* those written by send_to_dm_with_pending_marker
    SEQUENCE_BANDWIDTH,     \* ids leased at a time (32 in the code)
    MaxSeq                  \* bound of the model: no lease goes beyond it

ASSUME BandwidthAssumption == SEQUENCE_BANDWIDTH \in Nat \ {0}
ASSUME MaxSeqAssumption == MaxSeq \in Nat
ASSUME PayloadAssumption == PendingPayload \subseteq Payload

VARIABLES
    db,         \* the sled tree: [seq, msgs, pend]
    disk,       \* the part of it that a crash leaves behind
    next,       \* Sequence.next
    leased,     \* Sequence.leased
    up,         \* the store is open
    taken       \* per writer: the id generated and not yet written, or NoMid

dbVars == <<db, disk, next, leased, up, taken>>

NoMid == 0          \* ids start from 1
NoKey == 0          \* the SEQUENCE/ key is absent

\* A tree: the sequence key, the messages by id, and the ids with a marker.
EmptyTree == [seq |-> NoKey, msgs |-> [m \in {} |-> m], pend |-> {}]

Put(f, k, v) == [x \in DOMAIN f \cup {k} |-> IF x = k THEN v ELSE f[x]]

DbInit ==
    /\ db = EmptyTree
    /\ disk = EmptyTree
    /\ next = 0
    /\ leased = 0
    /\ up = FALSE
    /\ taken = [w \in Writers |-> NoMid]

-----------------------------------------------------------------------------
\* The first id of the range that update_sequence_lease hands out.
LeaseStart == IF db.seq = NoKey THEN 1 ELSE db.seq

CanLease == LeaseStart + SEQUENCE_BANDWIDTH <= MaxSeq

\* Mutant: the first lease is never written to the tree.
OpenWithoutPersisting ==
    /\ ~up
    /\ CanLease
    /\ up' = TRUE
    /\ next' = LeaseStart
    /\ leased' = LeaseStart + SEQUENCE_BANDWIDTH
    /\ UNCHANGED <<db, disk, taken>>

\* MsgDb::open: Sequence::new takes a first lease.
Open ==
    /\ ~up
    /\ CanLease
    /\ up' = TRUE
    /\ next' = LeaseStart
    /\ leased' = LeaseStart + SEQUENCE_BANDWIDTH
    /\ db' = [db EXCEPT !.seq = LeaseStart + SEQUENCE_BANDWIDTH]
    /\ UNCHANGED <<disk, taken>>

\* Mutant: the id is read and the counter advanced by nobody.
GenerateWithoutAdvance(w) ==
    /\ up
    /\ taken[w] = NoMid
    /\ next < leased
    /\ taken' = [taken EXCEPT ![w] = next]
    /\ UNCHANGED <<db, disk, next, leased, up>>

\* generate_id, under the mutex, while the lease lasts ...
GenerateLeased(w) ==
    /\ up
    /\ taken[w] = NoMid
    /\ next < leased
    /\ taken' = [taken EXCEPT ![w] = next]
    /\ next' = next + 1
    /\ UNCHANGED <<db, disk, leased, up>>

\* Mutant: a renewed lease is only kept in memory.
RenewInMemory(w) ==
    /\ up
    /\ taken[w] = NoMid
    /\ next >= leased
    /\ CanLease
    /\ taken' = [taken EXCEPT ![w] = LeaseStart]
    /\ next' = LeaseStart + 1
    /\ leased' = LeaseStart + SEQUENCE_BANDWIDTH
    /\ UNCHANGED <<db, disk, up>>

\* ... and when it is used up: renew it from the persisted key.
GenerateRenew(w) ==
    /\ up
    /\ taken[w] = NoMid
    /\ next >= leased
    /\ CanLease
    /\ taken' = [taken EXCEPT ![w] = LeaseStart]
    /\ next' = LeaseStart + 1
    /\ leased' = LeaseStart + SEQUENCE_BANDWIDTH
    /\ db' = [db EXCEPT !.seq = LeaseStart + SEQUENCE_BANDWIDTH]
    /\ UNCHANGED <<disk, up>>

GenerateId(w) == GenerateLeased(w) \/ GenerateRenew(w)

\* The batch of send_to_group, send_to_dm and send_to_dm_with_pending_marker.
ApplyBatch(w, p) ==
    /\ up
    /\ taken[w] # NoMid
    /\ db' = [db EXCEPT
                !.msgs = Put(@, taken[w], p),
                !.pend = IF p \in PendingPayload THEN @ \cup {taken[w]} ELSE @]
    /\ taken' = [taken EXCEPT ![w] = NoMid]
    /\ UNCHANGED <<disk, next, leased, up>>

RemovePendingMarker(m) ==
    /\ up
    /\ db' = [db EXCEPT !.pend = @ \ {m}]
    /\ UNCHANGED <<disk, next, leased, up, taken>>

-----------------------------------------------------------------------------
\* sled's background flush.
Flush ==
    /\ disk' = db
    /\ UNCHANGED <<db, next, leased, up, taken>>

\* Mutant: the last id handed out is given back as if it were unused.
CloseOffByOne ==
    /\ up
    /\ \A w \in Writers : taken[w] = NoMid
    /\ up' = FALSE
    /\ db' = [db EXCEPT !.seq = next - 1]
    /\ disk' = db'
    /\ UNCHANGED <<next, leased, taken>>

\* Drop for MsgDb: the unused part of the lease is given back, and dropping
\* the tree flushes it.  Every writer holds the store, so none is under way.
Close ==
    /\ up
    /\ \A w \in Writers : taken[w] = NoMid
    /\ up' = FALSE
    /\ db' = [db EXCEPT !.seq = next]
    /\ disk' = db'
    /\ UNCHANGED <<next, leased, taken>>

\* Mutant: markers kept apart from the messages survive the crash that loses them.
CrashKeepingMarkers ==
    /\ up
    /\ up' = FALSE
    /\ db' = [disk EXCEPT !.pend = db.pend]
    /\ taken' = [w \in Writers |-> NoMid]
    /\ UNCHANGED <<disk, next, leased>>

\* The process dies: what was not flushed is gone and so are the writers.
Crash ==
    /\ up
    /\ up' = FALSE
    /\ db' = disk
    /\ taken' = [w \in Writers |-> NoMid]
    /\ UNCHANGED <<disk, next, leased>>

DbNext ==
    \/ Open
    \/ \E w \in Writers : GenerateId(w)
    \/ \E w \in Writers, p \in Payload : ApplyBatch(w, p)
    \/ \E m \in db.pend : RemovePendingMarker(m)
    \/ Flush
    \/ Close
    \/ Crash

DbSpec == DbInit /\ [][DbNext]_dbVars

-----------------------------------------------------------------------------
IsTree(t) ==
    /\ DOMAIN t = {"seq", "msgs", "pend"}
    /\ t = [seq |-> t.seq, msgs |-> t.msgs, pend |-> t.pend]
    /\ t.seq \in Nat
    /\ DOMAIN t.msgs \subseteq Nat
    /\ t.msgs = [m \in DOMAIN t.msgs |-> t.msgs[m]]
    /\ \A m \in DOMAIN t.msgs : t.msgs[m] \in Payload
    /\ t.pend \subseteq DOMAIN t.msgs

\* The type of every variable; a marker never outlives the loss of its message.
DbTypeOK ==
    /\ IsTree(db)
    /\ IsTree(disk)
    /\ next \in Nat
    /\ leased \in Nat
    /\ up \in BOOLEAN
    /\ taken \in [Writers -> Nat]

\* An id that a writer has taken is its own: no other writer holds it and no
\* stored message has it, so the batch of send_to_* never overwrites a message,
\* whatever was leased, given back or lost by crashes before.
TakenIdIsFresh ==
    \A w \in Writers :
        taken[w] # NoMid =>
            /\ taken[w] \notin DOMAIN db.msgs
            /\ \A v \in Writers : taken[v] = taken[w] => v = w

\* The persisted sequence key is beyond every id in the same tree, in memory
\* and in what a crash leaves behind: a restart can lease from it.
KeyCoversStore ==
    /\ \A m \in DOMAIN db.msgs : m < db.seq
    /\ \A m \in DOMAIN disk.msgs : m < disk.seq

\* A message keeps its body for as long as its id is stored, restarts and
\* crashes included: readers that cached a message by mid never see another.
MessageImmutable ==
    [][\A m \in DOMAIN db.msgs :
          m \in DOMAIN db'.msgs => db'.msgs[m] = db.msgs[m]]_dbVars

-----------------------------------------------------------------------------
\* While the store is open the in-memory range ends at the persisted key, and
\* every id that is stored or taken lies below the next one.
RangeIsLeased ==
    up => /\ leased = db.seq
          /\ leased <= MaxSeq
          /\ next \in 1 .. leased
          /\ \A m \in DOMAIN db.msgs : m < next
          /\ \A w \in Writers : taken[w] < next

NothingTakenWhenClosed == ~up => \A w \in Writers : taken[w] = NoMid

\* What a crash leaves behind is a part of what readers see.
DiskIsPrefix ==
    \A m \in DOMAIN disk.msgs :
        m \in DOMAIN db.msgs /\ disk.msgs[m] = db.msgs[m]

\* The inductive invariant: freshness alone is not inductive, since renewing a
\* lease is safe only if the persisted key is beyond every id ever stored, and
\* a crash only if that holds of the flushed tree too.
DbInv ==
    /\ DbTypeOK
    /\ RangeIsLeased
    /\ NothingTakenWhenClosed
    /\ DiskIsPrefix
    /\ KeyCoversStore
    /\ TakenIdIsFresh

-----------------------------------------------------------------------------
\* The store implements the log its clients rely on.
Log == INSTANCE MessageLog
           WITH Mid <- 0 .. MaxSeq, log <- db.msgs, durable <- disk.msgs

\* Refinement: every step of the store is a step of MessageLog or a stutter.
ImplementsLog == Log!Spec
=============================================================================
