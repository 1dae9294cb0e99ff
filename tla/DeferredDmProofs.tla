-------------------------- MODULE DeferredDmProofs --------------------------
(***************************************************************************)
(* The message store is correct for any number of writers, any set of      *)
(* bodies and any bandwidth of the id lease (DbInv).                       *)
(*                                                                         *)
(* Deferred direct messages, for any number of requests, users, devices,   *)
(* crashes and errors: none is lost between the two stores (DmInv), what   *)
(* requests answer takes all of them into account (AnswerInv), and         *)
(* envelopes fit their rows (EnvelopeInv).                                 *)
(***************************************************************************)
EXTENDS DeferredDm, WellFoundedInduction, TLAPS

\* Changing the sequence key leaves a tree.
LEMMA SetSeqFacts ==
    ASSUME NEW t, IsTree(t), NEW n \in Nat
    PROVE  LET u == [t EXCEPT !.seq = n] IN
           /\ IsTree(u)
           /\ u.seq = n
           /\ u.msgs = t.msgs
           /\ u.pend = t.pend
BY DEF IsTree

\* The range that a lease hands out starts at the persisted key or at 1.
LEMMA LeaseStartFacts ==
    ASSUME DbInv
    PROVE  /\ LeaseStart \in Nat \ {0}
           /\ LeaseStart + SEQUENCE_BANDWIDTH \in Nat
           /\ LeaseStart < LeaseStart + SEQUENCE_BANDWIDTH
           /\ \A m \in DOMAIN db.msgs : m < LeaseStart
           /\ up => LeaseStart = leased
BY BandwidthAssumption
   DEF DbInv, DbTypeOK, IsTree, LeaseStart, NoKey, KeyCoversStore, RangeIsLeased

\* Initially the invariant holds: both trees are empty and the store closed.
LEMMA InitInv == DbInit => DbInv
<1> SUFFICES ASSUME DbInit PROVE DbInv
  OBVIOUS
<1>1. IsTree(EmptyTree) /\ DOMAIN EmptyTree.msgs = {}
  BY DEF IsTree, EmptyTree, NoKey
<1>2. DbTypeOK
  BY <1>1 DEF DbInit, DbTypeOK, NoMid
<1> QED
  BY <1>1, <1>2 DEF DbInit, DbInv, RangeIsLeased, NothingTakenWhenClosed,
     DiskIsPrefix, KeyCoversStore, TakenIdIsFresh, NoMid

\* The invariant is preserved by opening the store.
LEMMA OpenInv == ASSUME DbInv, Open PROVE DbInv'
<1>1. IsTree(db)
  BY DEF DbInv, DbTypeOK
<1>2. IsTree(db') /\ db'.msgs = db.msgs /\ db'.seq = LeaseStart + SEQUENCE_BANDWIDTH
  BY <1>1, SetSeqFacts, LeaseStartFacts DEF Open
<1>3. DbTypeOK'
  BY <1>2, LeaseStartFacts DEF Open, DbInv, DbTypeOK
<1>4. RangeIsLeased'
  BY <1>2, LeaseStartFacts
     DEF Open, CanLease, RangeIsLeased, DbInv, NothingTakenWhenClosed, NoMid
<1>5. (NothingTakenWhenClosed /\ DiskIsPrefix /\ TakenIdIsFresh)'
  BY <1>2 DEF Open, DbInv, NothingTakenWhenClosed, DiskIsPrefix, TakenIdIsFresh
<1>6. KeyCoversStore'
  <2>1. \A m \in DOMAIN db.msgs : m < LeaseStart + SEQUENCE_BANDWIDTH
    BY LeaseStartFacts, <1>1, BandwidthAssumption DEF IsTree
  <2> QED
    BY <2>1, <1>2 DEF Open, DbInv, KeyCoversStore
<1> QED
  BY <1>3, <1>4, <1>5, <1>6 DEF DbInv

\* The invariant is preserved by taking an id from the lease in memory.
LEMMA GenerateLeasedInv ==
    ASSUME DbInv, NEW w \in Writers, GenerateLeased(w) PROVE DbInv'
<1> USE DEF DbInv
<1>1. DbTypeOK'
  BY DEF GenerateLeased, DbTypeOK
<1>2. RangeIsLeased'
  BY DEF GenerateLeased, RangeIsLeased, DbTypeOK, IsTree
<1>3. (NothingTakenWhenClosed /\ DiskIsPrefix /\ KeyCoversStore)'
  BY DEF GenerateLeased, NothingTakenWhenClosed, DiskIsPrefix, KeyCoversStore
<1>4. TakenIdIsFresh'
  BY DEF GenerateLeased, TakenIdIsFresh, RangeIsLeased, DbTypeOK, IsTree, NoMid
<1> QED
  BY <1>1, <1>2, <1>3, <1>4

\* The invariant is preserved by taking an id from a renewed lease.
LEMMA GenerateRenewInv ==
    ASSUME DbInv, NEW w \in Writers, GenerateRenew(w) PROVE DbInv'
<1>1. IsTree(db)
  BY DEF DbInv, DbTypeOK
<1>2. IsTree(db') /\ db'.msgs = db.msgs /\ db'.seq = LeaseStart + SEQUENCE_BANDWIDTH
  BY <1>1, SetSeqFacts, LeaseStartFacts DEF GenerateRenew
<1>3. DbTypeOK'
  BY <1>2, LeaseStartFacts DEF GenerateRenew, DbInv, DbTypeOK
<1>4. up /\ LeaseStart = leased /\ next = leased
  BY LeaseStartFacts DEF GenerateRenew, DbInv, RangeIsLeased, DbTypeOK
<1>5. RangeIsLeased'
  <2>1. \A v \in Writers : taken'[v] < LeaseStart + 1
    BY <1>4, LeaseStartFacts DEF GenerateRenew, DbInv, RangeIsLeased, DbTypeOK
  <2>2. \A m \in DOMAIN db.msgs : m < LeaseStart + 1
    BY <1>1, LeaseStartFacts DEF IsTree
  <2> QED
    BY <1>2, <2>1, <2>2, LeaseStartFacts, BandwidthAssumption
       DEF GenerateRenew, CanLease, RangeIsLeased
<1>6. (NothingTakenWhenClosed /\ DiskIsPrefix)'
  BY <1>2, <1>4 DEF GenerateRenew, DbInv, NothingTakenWhenClosed, DiskIsPrefix
<1>7. KeyCoversStore'
  <2>1. \A m \in DOMAIN db.msgs : m < LeaseStart + SEQUENCE_BANDWIDTH
    BY LeaseStartFacts, <1>1, BandwidthAssumption DEF IsTree
  <2> QED
    BY <2>1, <1>2 DEF GenerateRenew, DbInv, KeyCoversStore
<1>8. TakenIdIsFresh'
  BY <1>1, <1>2, <1>4, LeaseStartFacts
     DEF GenerateRenew, DbInv, TakenIdIsFresh, RangeIsLeased, DbTypeOK, IsTree, NoMid
<1> QED
  BY <1>3, <1>5, <1>6, <1>7, <1>8 DEF DbInv

\* A batch adds one message under the id its writer took, and changes no other.
LEMMA ApplyBatchFacts ==
    ASSUME DbInv, NEW w \in Writers, NEW p \in Payload, ApplyBatch(w, p)
    PROVE  /\ IsTree(db')
           /\ db'.seq = db.seq
           /\ DOMAIN db'.msgs = DOMAIN db.msgs \cup {taken[w]}
           /\ taken[w] \notin DOMAIN db.msgs
           /\ \A m \in DOMAIN db.msgs : db'.msgs[m] = db.msgs[m]
           /\ db'.msgs = Put(db.msgs, taken[w], p)
<1> DEFINE f == Put(db.msgs, taken[w], p)
           q == IF p \in PendingPayload THEN db.pend \cup {taken[w]} ELSE db.pend
<1>1. IsTree(db) /\ taken[w] \in Nat /\ taken[w] \notin DOMAIN db.msgs
  BY DEF DbInv, DbTypeOK, TakenIdIsFresh, ApplyBatch
<1>2. db' = [seq |-> db.seq, msgs |-> f, pend |-> q]
  BY <1>1 DEF ApplyBatch, IsTree
<1>3. /\ DOMAIN f = DOMAIN db.msgs \cup {taken[w]}
      /\ f[taken[w]] = p
      /\ \A x \in DOMAIN db.msgs : x # taken[w] => f[x] = db.msgs[x]
      /\ f = [x \in DOMAIN f |-> f[x]]
  BY DEF Put
<1> HIDE DEF f
<1>4. /\ DOMAIN db' = {"seq", "msgs", "pend"}
      /\ db'.seq = db.seq /\ db'.msgs = f /\ db'.pend = q
  BY <1>2
<1>5. q \subseteq DOMAIN f
  BY <1>1, <1>3 DEF IsTree
<1>6. IsTree(db')
  BY <1>1, <1>2, <1>3, <1>4, <1>5 DEF IsTree
<1> QED
  BY <1>1, <1>3, <1>4, <1>6 DEF f

\* The invariant is preserved by writing a message.
LEMMA ApplyBatchInv ==
    ASSUME DbInv, NEW w \in Writers, NEW p \in Payload, ApplyBatch(w, p)
    PROVE  DbInv'
<1>0. /\ IsTree(db')
      /\ db'.seq = db.seq
      /\ DOMAIN db'.msgs = DOMAIN db.msgs \cup {taken[w]}
      /\ \A m \in DOMAIN db.msgs : db'.msgs[m] = db.msgs[m]
  BY ApplyBatchFacts
<1>1. DbTypeOK'
  BY <1>0 DEF ApplyBatch, DbInv, DbTypeOK, NoMid
<1>2. up /\ taken[w] < next /\ taken[w] < db.seq
  BY DEF ApplyBatch, DbInv, RangeIsLeased, DbTypeOK
<1>3. RangeIsLeased'
  BY <1>0, <1>2 DEF ApplyBatch, DbInv, RangeIsLeased, DbTypeOK, NoMid
<1>4. (NothingTakenWhenClosed /\ DiskIsPrefix)'
  BY <1>0, <1>2 DEF ApplyBatch, DbInv, NothingTakenWhenClosed, DiskIsPrefix
<1>5. KeyCoversStore'
  BY <1>0, <1>2 DEF ApplyBatch, DbInv, KeyCoversStore
<1>6. TakenIdIsFresh'
  BY <1>0 DEF ApplyBatch, DbInv, TakenIdIsFresh, DbTypeOK, NoMid
<1> QED
  BY <1>1, <1>3, <1>4, <1>5, <1>6 DEF DbInv

\* The invariant is preserved by removing a marker.
LEMMA RemovePendingMarkerInv ==
    ASSUME DbInv, NEW m, RemovePendingMarker(m) PROVE DbInv'
<1>1. IsTree(db)
  BY DEF DbInv, DbTypeOK
<1>2. IsTree(db') /\ db'.msgs = db.msgs /\ db'.seq = db.seq
  BY <1>1 DEF RemovePendingMarker, IsTree
<1> QED
  BY <1>2 DEF RemovePendingMarker, DbInv, DbTypeOK, RangeIsLeased,
     NothingTakenWhenClosed, DiskIsPrefix, KeyCoversStore, TakenIdIsFresh

\* The invariant is preserved by a flush.
LEMMA FlushInv == ASSUME DbInv, Flush PROVE DbInv'
BY DEF Flush, DbInv, DbTypeOK, RangeIsLeased, NothingTakenWhenClosed,
   DiskIsPrefix, KeyCoversStore, TakenIdIsFresh

\* The invariant is preserved by closing the store.
LEMMA CloseInv == ASSUME DbInv, Close PROVE DbInv'
<1>1. IsTree(db) /\ next \in Nat
  BY DEF DbInv, DbTypeOK
<1>2. IsTree(db') /\ db'.msgs = db.msgs /\ db'.seq = next /\ disk' = db'
  BY <1>1, SetSeqFacts DEF Close
<1>3. \A m \in DOMAIN db.msgs : m < next
  BY DEF Close, DbInv, RangeIsLeased
<1>4. DbTypeOK'
  BY <1>2 DEF Close, DbInv, DbTypeOK
<1> QED
  BY <1>2, <1>3, <1>4 DEF Close, DbInv, RangeIsLeased,
     NothingTakenWhenClosed, DiskIsPrefix, KeyCoversStore, TakenIdIsFresh

\* The invariant is preserved by a crash.
LEMMA CrashInv == ASSUME DbInv, Crash PROVE DbInv'
BY DEF Crash, DbInv, DbTypeOK, RangeIsLeased, NothingTakenWhenClosed,
   DiskIsPrefix, KeyCoversStore, TakenIdIsFresh, NoMid

\* Every step of the store preserves the invariant.
LEMMA NextInv == ASSUME DbInv, [DbNext]_dbVars PROVE DbInv'
<1>1. CASE UNCHANGED dbVars
  BY <1>1 DEF dbVars, DbInv, DbTypeOK, RangeIsLeased, NothingTakenWhenClosed,
     DiskIsPrefix, KeyCoversStore, TakenIdIsFresh
<1>2. CASE DbNext
  BY <1>2, OpenInv, GenerateLeasedInv, GenerateRenewInv, ApplyBatchInv,
     RemovePendingMarkerInv, FlushInv, CloseInv, CrashInv
     DEF DbNext, GenerateId
<1> QED
  BY <1>1, <1>2

\* The inductive invariant of the message store (crates/msgdb) holds in every
\* reachable state, for every bandwidth, number of writers and set of bodies.
THEOREM StoreInvariant == DbSpec => []DbInv
<1>1. DbInit => DbInv
  BY InitInv
<1>2. DbInv /\ [DbNext]_dbVars => DbInv'
  BY NextInv
<1> QED
  BY <1>1, <1>2, PTL DEF DbSpec

\* Type correctness of the message store.
THEOREM StoreTypeCorrect == DbSpec => []DbTypeOK
<1>1. DbInv => DbTypeOK
  BY DEF DbInv
<1> QED
  BY <1>1, StoreInvariant, PTL

\* An id taken by generate_msg_id is never the id of a stored message or of
\* another writer: no batch of send_to_* overwrites a message, across crashes.
THEOREM IdsAreFresh == DbSpec => []TakenIdIsFresh
<1>1. DbInv => TakenIdIsFresh
  BY DEF DbInv
<1> QED
  BY <1>1, StoreInvariant, PTL

-----------------------------------------------------------------------------
\* What a step does to the stored messages: nothing, a flush, one append, or a
\* return to what was flushed.
LEMMA StepOnMessages ==
    ASSUME DbInv, [DbNext]_dbVars
    PROVE  \/ UNCHANGED <<db.msgs, disk.msgs>>
           \/ UNCHANGED db.msgs /\ disk'.msgs = db.msgs
           \/ \E w \in Writers, p \in Payload : ApplyBatch(w, p)
           \/ Crash
<1>1. IsTree(db) /\ LeaseStart + SEQUENCE_BANDWIDTH \in Nat /\ next \in Nat
  BY LeaseStartFacts DEF DbInv, DbTypeOK
<1>2. CASE Open \/ \E w \in Writers : GenerateRenew(w)
  <2>1. /\ db' = [db EXCEPT !.seq = LeaseStart + SEQUENCE_BANDWIDTH]
        /\ UNCHANGED disk
    BY <1>2 DEF Open, GenerateRenew
  <2> QED
    BY <1>1, <2>1, SetSeqFacts
<1>3. CASE UNCHANGED dbVars \/ \E w \in Writers : GenerateLeased(w)
  BY <1>3 DEF dbVars, GenerateLeased
<1>4. CASE Flush
  BY <1>4 DEF Flush
<1>5. CASE Close
  BY <1>1, <1>5, SetSeqFacts DEF Close
<1>6. CASE \E m \in db.pend : RemovePendingMarker(m)
  BY <1>1, <1>6 DEF RemovePendingMarker, IsTree
<1> QED
  BY <1>2, <1>3, <1>4, <1>5, <1>6 DEF DbNext, GenerateId

\* A stored message keeps its body while its id is stored, over restarts and
\* crashes: what get(mid) returned once it returns always, or the id is gone.
THEOREM MessagesAreImmutable == DbSpec => MessageImmutable
<1> DEFINE Keeps == \A m \in DOMAIN db.msgs :
                       m \in DOMAIN db'.msgs => db'.msgs[m] = db.msgs[m]
<1>1. ASSUME DbInv, [DbNext]_dbVars PROVE Keeps
  <2>1. CASE UNCHANGED db.msgs
    BY <2>1
  <2>2. CASE \E w \in Writers, p \in Payload : ApplyBatch(w, p)
    BY <1>1, <2>2, ApplyBatchFacts
  <2>3. CASE Crash
    BY <1>1, <2>3 DEF Crash, DbInv, DiskIsPrefix
  <2> QED
    BY <1>1, <2>1, <2>2, <2>3, StepOnMessages
<1>2. DbInv /\ [DbNext]_dbVars => [Keeps]_dbVars
  BY <1>1
<1> QED
  BY <1>2, StoreInvariant, PTL DEF DbSpec, MessageImmutable

\* The store implements the log its clients rely on: ids are never reused for
\* another message, and a crash returns to what had been flushed.
THEOREM StoreImplementsLog == DbSpec => ImplementsLog
<1>1. DbInit => Log!Init
  <2>1. EmptyTree.msgs = Log!NoMessages
    BY DEF EmptyTree, Log!NoMessages
  <2> QED
    BY <2>1 DEF DbInit, Log!Init
<1>2. ASSUME DbInv, [DbNext]_dbVars PROVE [Log!Next]_Log!vars
  <2>1. CASE \E w \in Writers, p \in Payload : ApplyBatch(w, p)
    <3>1. PICK w \in Writers, p \in Payload : ApplyBatch(w, p)
      BY <2>1
    <3>2. /\ taken[w] \notin DOMAIN db.msgs
          /\ db'.msgs = Put(db.msgs, taken[w], p)
      BY <1>2, <3>1, ApplyBatchFacts
    <3>3. taken[w] \in 0 .. MaxSeq
      BY <1>2, <3>1, MaxSeqAssumption
         DEF ApplyBatch, DbInv, RangeIsLeased, DbTypeOK
    <3>4. Log!Append(taken[w], p)
      BY <3>1, <3>2 DEF ApplyBatch, Log!Append, Put
    <3> QED
      BY <3>3, <3>4 DEF Log!Next
  <2>2. CASE Crash
    BY <2>2 DEF Crash, Log!Next, Log!Lose
  <2>3. CASE UNCHANGED db.msgs /\ disk'.msgs = db.msgs
    BY <2>3 DEF Log!Next, Log!Persist
  <2>4. CASE UNCHANGED <<db.msgs, disk.msgs>>
    BY <2>4 DEF Log!vars
  <2> QED
    BY <1>2, <2>1, <2>2, <2>3, <2>4, StepOnMessages
<1>3. DbInv /\ [DbNext]_dbVars => [Log!Next]_Log!vars
  BY <1>2
<1> QED
  BY <1>1, <1>3, StoreInvariant, PTL DEF DbSpec, ImplementsLog, Log!Spec

-----------------------------------------------------------------------------
\* Deferred direct messages.

\* The marker that a request works on, as a function of its list.
Least(S) == CHOOSE m \in S : \A x \in S : m <= x

\* Removing the marker of this message loses nothing.
MayDrop(m) == Alive(db.msgs[m]) => Projected(m, db.msgs[m])

\* A request replays markers of stored messages; when it is about to remove
\* one, the row is there, and it stays until the user is deleted.
RequestOK(r) ==
    /\ todo[r] \subseteq DOMAIN db.msgs
    /\ pc[r] \in {"project", "remove"} => todo[r] # {}
    /\ pc[r] = "apply" => arg[r] \in Payload
    /\ pc[r] = "remove" => MayDrop(Least(todo[r]))

RequestsOK ==
    /\ DOMAIN pc = Request /\ DOMAIN todo = Request /\ DOMAIN arg = Request
    /\ \A r \in Request : RequestOK(r)

RowsTyped == \A m \in DOMAIN pending : pending[m] \in Row

\* The inductive invariant.  PendingNeverLost alone is not: a request that is
\* about to remove a marker must know the row to be there.
DmInv == DbInv /\ RequestsOK /\ RowsTyped /\ PendingNeverLost

\* Rows go with one of their users only, and users do not come back.
RowsStay ==
    /\ users' \subseteq users
    /\ \A m \in DOMAIN pending : {pending[m].from, pending[m].to} \subseteq users' =>
        /\ m \in DOMAIN pending'
        /\ pending'[m].from = pending[m].from
        /\ pending'[m].to = pending[m].to

-----------------------------------------------------------------------------
\* A set of ids that is not empty has a least one.
LEMMA LeastIsIn ==
    ASSUME NEW S \in SUBSET Nat, S # {}
    PROVE  Least(S) \in S
<1>1. PICK m \in S : \A x \in S : ~ (<<x, m>> \in OpToRel(<, Nat))
  BY NatLessThanWellFounded, WFMin
<1>2. \A x \in S : <<x, m>> \in Nat \X Nat
  OBVIOUS
<1>3. \A x \in S : ~ (x < m)
  BY <1>1, <1>2 DEF OpToRel
<1>4. \A x \in S : m <= x
  BY <1>3
<1> QED
  BY <1>4 DEF Least

\* The first of the markers left is the least of them.
LEMMA FirstLeftIsLeast == \A r : FirstLeft(r) = Least(todo[r])
BY DEF FirstLeft, Least

\* FirstLeft names a marker of the list, whose message is stored.
LEMMA FirstLeftFacts ==
    ASSUME DmInv, NEW r \in Request, pc[r] \in {"project", "remove"}
    PROVE  /\ FirstLeft(r) \in todo[r]
           /\ FirstLeft(r) \in DOMAIN db.msgs
           /\ db.msgs[FirstLeft(r)] \in DmMessage
<1>1. todo[r] # {} /\ todo[r] \subseteq DOMAIN db.msgs
  BY DEF DmInv, RequestsOK, RequestOK
<1>2. IsTree(db)
  BY DEF DmInv, DbInv, DbTypeOK
<1>3. todo[r] \in SUBSET Nat
  BY <1>1, <1>2 DEF IsTree
<1>4. FirstLeft(r) \in todo[r]
  BY <1>1, <1>3, LeastIsIn, FirstLeftIsLeast
<1> QED
  BY <1>1, <1>2, <1>4, DmPayloadAssumption DEF IsTree

\* A row that was there is there, as long as its users are.
LEMMA RowStays ==
    ASSUME RowsStay, NEW m, NEW p, Alive(p) => Projected(m, p), {p.from, p.to} \subseteq users'
    PROVE  m \in DOMAIN pending' /\ SamePair(pending'[m], p)
BY DEF RowsStay, Alive, Projected, SamePair

\* Requests that do not move are as good as before, if the messages are kept.
LEMMA OthersStayOK ==
    ASSUME DmInv, RowsStay, db'.msgs = db.msgs,
           NEW q \in Request, pc'[q] = pc[q], todo'[q] = todo[q], arg'[q] = arg[q]
    PROVE  RequestOK(q)'
<1>1. RequestOK(q)
  BY DEF DmInv, RequestsOK
<1>2. pc[q] = "remove" =>
        (Alive(db.msgs[Least(todo[q])])' => Projected(Least(todo[q]), db.msgs[Least(todo[q])])')
  BY <1>1, RowsStay DEF RequestOK, MayDrop, RowsStay, Alive, Projected, SamePair
<1> QED
  BY <1>1, <1>2 DEF RequestOK, MayDrop

\* A step that keeps the messages keeps the invariant, if rows stay, the request
\* that moves is left in order, and a marker that goes has its row.
LEMMA KeepsInv ==
    ASSUME DmInv, DbInv', RowsStay, RowsTyped',
           db'.msgs = db.msgs, disk' \in {disk, db, db'},
           \A m \in db.pend \ db'.pend : MayDrop(m),
           NEW r \in Request,
           RequestOK(r)',
           DOMAIN pc' = Request, DOMAIN todo' = Request, DOMAIN arg' = Request,
           \A q \in Request \ {r} : pc'[q] = pc[q] /\ todo'[q] = todo[q] /\ arg'[q] = arg[q]
    PROVE  DmInv'
<1>1. RequestsOK'
  BY OthersStayOK DEF RequestsOK
<1> DEFINE Kept(t, pend) ==
             \A m \in DOMAIN t.msgs : {t.msgs[m].from, t.msgs[m].to} \subseteq users' =>
               m \in pend \/ (m \in DOMAIN pending' /\ SamePair(pending'[m], t.msgs[m]))
<1>2. Kept(db, db'.pend)
  BY RowStays DEF DmInv, PendingNeverLost, MayDrop
<1>3. Kept(disk, disk.pend)
  BY RowStays DEF DmInv, PendingNeverLost
<1>4. Kept(db, db.pend)
  BY RowStays DEF DmInv, PendingNeverLost
<1>5. PendingNeverLost'
  BY <1>2, <1>3, <1>4 DEF PendingNeverLost, Alive, Projected
<1> QED
  BY <1>1, <1>5 DEF DmInv

-----------------------------------------------------------------------------
\* Entering a step, or leaving, moves one request and empties its list.
LEMMA EnterFacts ==
    ASSUME DmInv, NEW r \in Request, NEW o, NEW step, NEW a, Enter(r, o, step, a)
    PROVE  /\ DOMAIN pc' = Request /\ DOMAIN todo' = Request /\ DOMAIN arg' = Request
           /\ pc'[r] = step /\ todo'[r] = {} /\ arg'[r] = a
           /\ \A q \in Request \ {r} : pc'[q] = pc[q] /\ todo'[q] = todo[q] /\ arg'[q] = arg[q]
BY DEF Enter, DmInv, RequestsOK

\* A request that enters a harmless step keeps the invariant, if the stores do.
LEMMA EnterKeeps ==
    ASSUME DmInv, DbInv', RowsStay, RowsTyped',
           db'.msgs = db.msgs, disk' \in {disk, db, db'}, db'.pend = db.pend,
           NEW r \in Request, NEW o, NEW step \in {"idle", "scan", "finish", "notify"}, NEW a,
           Enter(r, o, step, a)
    PROVE  DmInv'
<1>1. /\ DOMAIN pc' = Request /\ DOMAIN todo' = Request /\ DOMAIN arg' = Request
      /\ pc'[r] = step /\ todo'[r] = {}
      /\ \A q \in Request \ {r} : pc'[q] = pc[q] /\ todo'[q] = todo[q] /\ arg'[q] = arg[q]
  BY EnterFacts
<1>2. RequestOK(r)'
  BY <1>1 DEF RequestOK
<1> QED
  BY <1>1, <1>2, KeepsInv

\* The store and the tables rest.
LEMMA AtRest ==
    ASSUME DmInv, UNCHANGED <<dbVars, users, pending>>
    PROVE  /\ DbInv' /\ RowsStay /\ RowsTyped'
           /\ db'.msgs = db.msgs /\ disk' = disk /\ db'.pend = db.pend
<1>1. DbInv'
  BY NextInv DEF DmInv
<1> QED
  BY <1>1 DEF RowsStay, RowsTyped, dbVars, DmInv

\* Requests that enter or leave while stores and tables rest.
LEMMA EnterAtRest ==
    ASSUME DmInv, UNCHANGED <<dbVars, users, pending>>,
           NEW r \in Request, NEW o, NEW step \in {"idle", "scan", "finish", "notify"}, NEW a,
           Enter(r, o, step, a)
    PROVE  DmInv'
BY AtRest, EnterKeeps

\* Steps that touch neither messages nor rows nor lists of markers.
LEMMA RestInv ==
    ASSUME DmInv, DbInv', RowsStay, RowsTyped',
           db'.msgs = db.msgs, disk' \in {disk, db, db'}, db'.pend = db.pend,
           UNCHANGED <<pc, todo, arg>>
    PROVE  DmInv'
<1>1. boot \in Request
  BY DEF Request
<1>2. RequestOK(boot)'
  BY <1>1, OthersStayOK
<1> QED
  BY <1>1, <1>2, KeepsInv DEF DmInv, RequestsOK

\* Taking an id moves the sequence key at most.
LEMMA GenerateFacts ==
    ASSUME DbInv, NEW w \in Writers, GenerateId(w)
    PROVE  DbInv' /\ db'.msgs = db.msgs /\ db'.pend = db.pend /\ disk' = disk
<1>1. DbInv'
  BY GenerateLeasedInv, GenerateRenewInv DEF GenerateId
<1>2. IsTree(db)
  BY DEF DbInv, DbTypeOK
<1>3. CASE GenerateLeased(w)
  BY <1>1, <1>3 DEF GenerateLeased
<1>4. CASE GenerateRenew(w)
  <2>1. db' = [db EXCEPT !.seq = LeaseStart + SEQUENCE_BANDWIDTH] /\ disk' = disk
    BY <1>4 DEF GenerateRenew
  <2>2. LeaseStart + SEQUENCE_BANDWIDTH \in Nat
    BY LeaseStartFacts
  <2> QED
    BY <1>1, <1>2, <2>1, <2>2, SetSeqFacts
<1> QED
  BY <1>3, <1>4 DEF GenerateId

\* Taking the id and the marker of a deferred message.
LEMMA BeginSendInv ==
    ASSUME DmInv, NEW r \in Writers, NEW p \in Payload, BeginSend(r, p)
    PROVE  DmInv'
<1>1. DbInv' /\ db'.msgs = db.msgs /\ db'.pend = db.pend /\ disk' = disk
  BY GenerateFacts DEF BeginSend, DmInv
<1>2. RowsStay /\ RowsTyped'
  BY DEF BeginSend, sqlVars, RowsStay, RowsTyped, DmInv
<1>3. r \in Request
  BY DEF Request
<1>4. Enter(r, "send", "apply", p)
  BY DEF BeginSend
<1>5. /\ DOMAIN pc' = Request /\ DOMAIN todo' = Request /\ DOMAIN arg' = Request
      /\ pc'[r] = "apply" /\ todo'[r] = {} /\ arg'[r] = p
      /\ \A q \in Request \ {r} : pc'[q] = pc[q] /\ todo'[q] = todo[q] /\ arg'[q] = arg[q]
  BY <1>3, <1>4, EnterFacts
<1>6. RequestOK(r)'
  BY <1>5 DEF RequestOK
<1> QED
  BY <1>1, <1>2, <1>3, <1>5, <1>6, KeepsInv

\* The batch: the message comes with its marker, under an id of its own.
LEMMA StoreMessageInv ==
    ASSUME DmInv, NEW r \in Writers, StoreMessage(r)
    PROVE  DmInv'
<1>1. r \in Request /\ arg[r] \in Payload /\ ApplyBatch(r, arg[r])
  BY DEF Request, StoreMessage, DmInv, RequestsOK, RequestOK
<1>2. DbInv
  BY DEF DmInv
<1>3. /\ DbInv'
      /\ DOMAIN db'.msgs = DOMAIN db.msgs \cup {taken[r]}
      /\ taken[r] \notin DOMAIN db.msgs
      /\ \A m \in DOMAIN db.msgs : db'.msgs[m] = db.msgs[m]
  BY <1>1, <1>2, ApplyBatchInv, ApplyBatchFacts
<1>4. db'.pend = db.pend \cup {taken[r]} /\ disk' = disk
  BY <1>1, <1>2, DmPayloadAssumption DEF ApplyBatch, DbInv, DbTypeOK, IsTree
<1>5. UNCHANGED <<users, pending>>
  BY DEF StoreMessage, sqlVars
<1>6. Enter(r, "send", "scan", taken[r]) \/ Enter(r, "none", "idle", NoArg)
  BY DEF StoreMessage, Leave
<1>7. /\ DOMAIN pc' = Request /\ DOMAIN todo' = Request /\ DOMAIN arg' = Request
      /\ pc'[r] \in {"scan", "idle"} /\ todo'[r] = {}
      /\ \A q \in Request \ {r} : pc'[q] = pc[q] /\ todo'[q] = todo[q] /\ arg'[q] = arg[q]
  BY <1>1, <1>6, EnterFacts
<1>8. RequestOK(r)'
  BY <1>7 DEF RequestOK
<1>9. ASSUME NEW q \in Request \ {r} PROVE RequestOK(q)'
  <2>1. RequestOK(q)
    BY DEF DmInv, RequestsOK
  <2>2. pc[q] = "remove" => Least(todo[q]) \in DOMAIN db.msgs
    BY FirstLeftFacts, FirstLeftIsLeast
  <2>3. pc[q] = "remove" => MayDrop(Least(todo[q]))'
    BY <1>3, <1>5, <1>7, <2>1, <2>2 DEF RequestOK, MayDrop, Alive, Projected
  <2> QED
    BY <1>3, <1>7, <2>1, <2>3 DEF RequestOK
<1>10. RequestsOK'
  BY <1>7, <1>8, <1>9 DEF RequestsOK
<1>11. RowsTyped'
  BY <1>5 DEF DmInv, RowsTyped
<1>12. PendingNeverLost'
  BY <1>3, <1>4, <1>5 DEF DmInv, PendingNeverLost, Alive, Projected
<1> QED
  BY <1>3, <1>10, <1>11, <1>12 DEF DmInv

\* Listing the markers.
LEMMA ScanInv ==
    ASSUME DmInv, NEW r \in Request, Scan(r)
    PROVE  DmInv'
<1>1. UNCHANGED <<dbVars, users, pending>>
  BY DEF Scan, sqlVars
<1>2. db.pend \subseteq DOMAIN db.msgs
  BY DEF DmInv, DbInv, DbTypeOK, IsTree
<1>3. /\ DOMAIN pc' = Request /\ DOMAIN todo' = Request /\ DOMAIN arg' = Request
      /\ pc'[r] = (IF db.pend = {} THEN "finish" ELSE "project")
      /\ todo'[r] = db.pend
      /\ \A q \in Request \ {r} : pc'[q] = pc[q] /\ todo'[q] = todo[q] /\ arg'[q] = arg[q]
  BY DEF Scan, DmInv, RequestsOK
<1>4. RequestOK(r)'
  BY <1>1, <1>2, <1>3 DEF RequestOK, dbVars
<1> QED
  BY <1>1, <1>3, <1>4, AtRest, KeepsInv

\* Projecting one: its row is there afterwards.
LEMMA ProjectInv ==
    ASSUME DmInv, NEW r \in Request, Project(r)
    PROVE  DmInv'
<1> DEFINE m == FirstLeft(r)
           row == [from |-> db.msgs[m].from, to |-> db.msgs[m].to, done |-> FALSE]
<1>1. /\ m \in todo[r] /\ m \in DOMAIN db.msgs /\ db.msgs[m] \in DmMessage
      /\ m = Least(todo[r])
  BY FirstLeftFacts, FirstLeftIsLeast DEF Project
<1>2. UNCHANGED <<dbVars, users, todo, arg>>
  BY DEF Project, GoTo
<1>3. row \in Row /\ row.from = db.msgs[m].from /\ row.to = db.msgs[m].to
  BY <1>1 DEF DmMessage, Row
<1>4. pending' = IF m \in DOMAIN pending THEN pending ELSE Put(pending, m, row)
  BY DEF Project
<1>5. m \in DOMAIN pending => SamePair(pending[m], db.msgs[m])
  BY DEF Project, CanProject
<1> HIDE DEF m, row
<1>6. /\ m \in DOMAIN pending' /\ SamePair(pending'[m], db.msgs[m])
      /\ \A k \in DOMAIN pending : k \in DOMAIN pending' /\ pending'[k] = pending[k]
      /\ \A k \in DOMAIN pending' : k \in DOMAIN pending \/ pending'[k] = row
  BY <1>3, <1>4, <1>5 DEF Put, SamePair
<1>7. RowsStay /\ RowsTyped'
  BY <1>2, <1>3, <1>6 DEF RowsStay, RowsTyped, DmInv
<1>8. DbInv' /\ db' = db /\ disk' = disk
  BY <1>2, NextInv DEF DmInv, dbVars
<1>9. /\ DOMAIN pc' = Request /\ DOMAIN todo' = Request /\ DOMAIN arg' = Request
      /\ pc'[r] = "remove"
      /\ \A q \in Request \ {r} : pc'[q] = pc[q] /\ todo'[q] = todo[q] /\ arg'[q] = arg[q]
  BY <1>2 DEF Project, GoTo, DmInv, RequestsOK
<1>10. RequestOK(r)'
  <2>1. todo[r] \subseteq DOMAIN db.msgs
    BY DEF DmInv, RequestsOK, RequestOK
  <2> QED
    BY <1>1, <1>2, <1>6, <1>8, <1>9, <2>1 DEF RequestOK, MayDrop, Projected
<1> QED
  BY <1>7, <1>8, <1>9, <1>10, KeepsInv

\* Removing one.
LEMMA DropMarkerInv ==
    ASSUME DmInv, NEW r \in Request, DropMarker(r)
    PROVE  DmInv'
<1> DEFINE m == FirstLeft(r)
<1>1. m \in todo[r] /\ m = Least(todo[r]) /\ MayDrop(m)
  BY FirstLeftFacts, FirstLeftIsLeast DEF DropMarker, DmInv, RequestsOK, RequestOK
<1>2. RemovePendingMarker(m)
  BY DEF DropMarker
<1> HIDE DEF m
<1>3. DbInv' /\ db'.msgs = db.msgs /\ db'.pend = db.pend \ {m} /\ disk' = disk
  BY <1>2, RemovePendingMarkerInv DEF DmInv, DbInv, DbTypeOK, IsTree, RemovePendingMarker
<1>4. RowsStay /\ RowsTyped'
  BY DEF DropMarker, sqlVars, RowsStay, RowsTyped, DmInv
<1>5. /\ DOMAIN pc' = Request /\ DOMAIN todo' = Request /\ DOMAIN arg' = Request
      /\ pc'[r] = (IF todo[r] = {m} THEN "finish" ELSE "project")
      /\ todo'[r] = todo[r] \ {m}
      /\ \A q \in Request \ {r} : pc'[q] = pc[q] /\ todo'[q] = todo[q] /\ arg'[q] = arg[q]
  BY DEF DropMarker, DmInv, RequestsOK, m
<1>6. RequestOK(r)'
  <2>1. todo[r] \subseteq DOMAIN db.msgs
    BY DEF DmInv, RequestsOK, RequestOK
  <2> QED
    BY <1>1, <1>3, <1>5, <2>1 DEF RequestOK
<1> QED
  BY <1>1, <1>3, <1>4, <1>5, <1>6, KeepsInv

-----------------------------------------------------------------------------
\* Closing the store flushes it.
LEMMA CloseFacts ==
    ASSUME DbInv, Close
    PROVE  DbInv' /\ db'.msgs = db.msgs /\ db'.pend = db.pend /\ disk' = db'
<1>1. DbInv'
  BY CloseInv
<1>2. IsTree(db) /\ next \in Nat
  BY DEF DbInv, DbTypeOK
<1> QED
  BY <1>1, <1>2, SetSeqFacts DEF Close

\* Opening it moves the sequence key only.
LEMMA OpenFacts ==
    ASSUME DbInv, Open
    PROVE  DbInv' /\ db'.msgs = db.msgs /\ db'.pend = db.pend /\ disk' = disk
<1>1. DbInv'
  BY OpenInv
<1>2. IsTree(db) /\ LeaseStart + SEQUENCE_BANDWIDTH \in Nat
  BY LeaseStartFacts DEF DbInv, DbTypeOK
<1> QED
  BY <1>1, <1>2, SetSeqFacts DEF Open

\* The start of the server, and its failures.
LEMMA BootInv ==
    ASSUME DmInv, Boot \/ BootRefused \/ BootFails
    PROVE  DmInv'
<1>1. boot \in Request /\ DbInv
  BY DEF Request, DmInv
<1>2. RowsStay /\ RowsTyped'
  BY DEF Boot, BootRefused, BootFails, sqlVars, RowsStay, RowsTyped, DmInv
<1>3. CASE Boot
  BY <1>1, <1>2, <1>3, OpenFacts, EnterKeeps DEF Boot
<1>4. CASE BootRefused \/ BootFails
  BY <1>1, <1>2, <1>4, CloseFacts, EnterKeeps DEF BootRefused, BootFails, Leave
<1> QED
  BY <1>3, <1>4

\* A crash: what was flushed had its markers or its rows.
LEMMA ServerCrashInv ==
    ASSUME DmInv, ServerCrash
    PROVE  DmInv'
<1>1. DbInv'
  BY CrashInv DEF ServerCrash, DmInv
<1>2. db' = disk /\ disk' = disk /\ UNCHANGED <<users, pending>>
  BY DEF ServerCrash, Crash, sqlVars
<1>3. RequestsOK'
  BY DEF ServerCrash, RequestsOK, RequestOK
<1>4. PendingNeverLost'
  BY <1>2 DEF DmInv, PendingNeverLost, Alive, Projected
<1> QED
  BY <1>1, <1>2, <1>3, <1>4 DEF DmInv, RowsTyped

\* A flush in the background makes what readers see the durable store.
LEMMA BackgroundFlushInv ==
    ASSUME DmInv, BackgroundFlush
    PROVE  DmInv'
<1>1. DbInv'
  BY FlushInv DEF BackgroundFlush, DmInv
<1>2. RowsStay /\ RowsTyped'
  BY DEF BackgroundFlush, sqlVars, RowsStay, RowsTyped, DmInv
<1> QED
  BY <1>1, <1>2, RestInv DEF BackgroundFlush, Flush, reqVars

-----------------------------------------------------------------------------
\* An envelope completes a row and keeps its pair.
LEMMA AppendEnvelopeInv ==
    ASSUME DmInv, NEW r \in Writers, AppendEnvelope(r)
    PROVE  DmInv'
<1>1. r \in Request /\ UNCHANGED <<dbVars, users>>
  BY DEF Request, AppendEnvelope
<1>2. DbInv' /\ db' = db /\ disk' = disk
  BY <1>1, NextInv DEF DmInv, dbVars
<1>3. pending' = pending
        \/ \E m \in DOMAIN pending : pending' = [pending EXCEPT ![m].done = TRUE]
  BY DEF AppendEnvelope, MayAppend
<1>4. \A m \in DOMAIN pending : pending[m] \in Row
  BY DEF RowsTyped, DmInv
<1>5. pending' = pending => RowsStay /\ RowsTyped'
  BY <1>1, <1>4 DEF RowsStay, RowsTyped
<1>6. ASSUME NEW m \in DOMAIN pending, pending' = [pending EXCEPT ![m].done = TRUE]
      PROVE  RowsStay /\ RowsTyped'
  <2>1. /\ DOMAIN pending' = DOMAIN pending
        /\ \A k \in DOMAIN pending : k # m => pending'[k] = pending[k]
        /\ pending'[m] = [pending[m] EXCEPT !.done = TRUE]
    BY <1>6
  <2>2. /\ pending'[m] \in Row /\ pending'[m].from = pending[m].from
        /\ pending'[m].to = pending[m].to
    BY <1>4, <2>1 DEF Row
  <2>3. RowsTyped'
    BY <1>4, <2>1, <2>2 DEF RowsTyped
  <2> QED
    BY <1>1, <2>1, <2>2, <2>3 DEF RowsStay
<1>7. RowsStay /\ RowsTyped'
  BY <1>3, <1>5, <1>6 DEF RowsTyped
<1> QED
  BY <1>1, <1>2, <1>7, EnterKeeps DEF AppendEnvelope, Leave

\* Deleting a user removes the rows of that user.
LEMMA DeleteUserInv ==
    ASSUME DmInv, NEW u, DeleteUser(u)
    PROVE  DmInv'
<1>1. UNCHANGED <<dbVars, pc, todo, arg>> /\ users' = users \ {u}
  BY DEF DeleteUser, reqVars
<1>2. DbInv' /\ db' = db /\ disk' = disk
  BY <1>1, NextInv DEF DmInv, dbVars
<1>3. RowsStay /\ RowsTyped'
  BY DEF DeleteUser, Involves, RowsStay, RowsTyped, DmInv
<1> QED
  BY <1>1, <1>2, <1>3, RestInv

\* Handlers that move a request and leave store, rows and users alone.
LEMMA QuietInv ==
    ASSUME DmInv, NEW r \in Request,
           \/ \E u, t \in User : BeginGetPending(r, u, t)
           \/ \E m \in DOMAIN db.msgs, sd, d \in Device : BeginPostEnvelope(r, m, sd, d)
           \/ \E d \in Device, changed \in BOOLEAN : PutIdentity(r, d, changed)
           \/ FinishSend(r) \/ FinishGetPending(r) \/ AppendRefused(r) \/ Notify(r)
           \/ ProjectRefused(r) \/ RequestCut(r) \/ (r = boot /\ FinishBoot)
    PROVE  DmInv'
<1>1. UNCHANGED <<dbVars, users, pending>>
  BY DEF BeginGetPending, BeginPostEnvelope, PutIdentity, FinishSend, FinishGetPending,
     AppendRefused, Notify, ProjectRefused, RequestCut, FinishBoot, sqlVars
<1>2. \E o, a : \/ Enter(r, o, "idle", a) \/ Enter(r, o, "scan", a)
                \/ Enter(r, o, "notify", a)
  BY DEF BeginGetPending, BeginPostEnvelope, PutIdentity, FinishSend, FinishGetPending,
     AppendRefused, Notify, ProjectRefused, RequestCut, FinishBoot, Leave
<1> QED
  BY <1>1, <1>2, EnterAtRest

\* Steps in which no request moves on.
LEMMA StillInv ==
    ASSUME DmInv,
           \/ \E d \in Device : Login(d) \/ RemoveDevice(d)
           \/ \E r \in Writers : HangUp(r)
           \/ UNCHANGED vars
    PROVE  DmInv'
<1>1. UNCHANGED <<dbVars, users, pending, pc, todo, arg>>
  BY DEF Login, RemoveDevice, HangUp, vars, sqlVars, reqVars
<1> QED
  BY <1>1, AtRest, RestInv

\* Every step of the program keeps the invariant.
LEMMA DmNextInv == ASSUME DmInv, [Next]_vars PROVE DmInv'
<1>1. Writers \subseteq Request /\ boot \in Request
  BY DEF Request
<1>2. CASE UNCHANGED vars
  BY <1>2, StillInv
<1>3. ASSUME NEW r \in Writers, RequestStep(r) PROVE DmInv'
  BY <1>1, <1>3, StoreMessageInv, AppendEnvelopeInv, QuietInv DEF RequestStep
<1>4. ASSUME NEW r \in Request, ReconcileStep(r) PROVE DmInv'
  BY <1>4, ScanInv, ProjectInv, DropMarkerInv DEF ReconcileStep
<1>5. CASE Next
  BY <1>1, <1>3, <1>4, <1>5, BeginSendInv, QuietInv, StillInv, BootInv, ServerCrashInv,
     BackgroundFlushInv, DeleteUserInv DEF Next
<1> QED
  BY <1>2, <1>5

\* Initially there is nothing to lose.
LEMMA DmInitInv == Init => DmInv
<1> SUFFICES ASSUME Init PROVE DmInv
  OBVIOUS
<1>1. DbInv
  BY InitInv DEF Init
<1>2. DOMAIN EmptyTree.msgs = {}
  BY DEF EmptyTree
<1>3. RequestsOK
  BY DEF Init, RequestsOK, RequestOK
<1> QED
  BY <1>1, <1>2, <1>3 DEF Init, DbInit, DmInv, RowsTyped, PendingNeverLost

\* The inductive invariant holds in every reachable state.
THEOREM DmInvariant == Spec => []DmInv
<1> QED
  BY DmInitInv, DmNextInv, PTL DEF Spec

\* reconcile_pending_dm_markers and project_pending_dm_marker lose no deferred
\* message while its users exist: it has its marker or its row, in what readers
\* see and in what a crash would leave, whatever requests replay the markers
\* together, are cut short, or fail.
THEOREM NoDeferredDmIsLost == Spec => []PendingNeverLost
<1>1. DmInv => PendingNeverLost
  BY DEF DmInv
<1> QED
  BY <1>1, DmInvariant, PTL

-----------------------------------------------------------------------------
\* The mids that a request must find in SQLite when it is done with its
\* markers: its own message, or what was stored when it came in.
AsksFor(r) ==
    IF op[r] = "get" THEN arg[r]
    ELSE IF op[r] = "send" /\ pc[r] # "apply" THEN {arg[r]} ELSE {}

\* Once the request has listed the markers, each of those mids is on its list
\* or was projected.
AnswerOK(r) ==
    /\ AsksFor(r) \subseteq DOMAIN db.msgs
    /\ pc[r] \in {"project", "remove", "finish"} =>
           \A m \in AsksFor(r) : m \in todo[r] \/ MayDrop(m)
    /\ pc[r] = "finish" => todo[r] = {}

\* What put_identity has read stays true until the senders are told.
NotifyOK(r) ==
    pc[r] = "notify" =>
        /\ arg[r].acked \subseteq DOMAIN db.msgs
        /\ \A m \in arg[r].acked : MayDrop(m)
        /\ \A m \in Unserved(arg[r], arg[r].acked) : db.msgs[m].from \in arg[r].waiting

Steps == {"idle", "apply", "scan", "project", "remove", "finish", "notify"}
Handlers == {"none", "send", "orphan", "get", "post", "publish", "boot"}

\* A send that was answered has its row.
AckedOK == acked \subseteq DOMAIN db.msgs /\ \A m \in acked : MayDrop(m)

\* The inductive invariant about answers.
AnswerInv ==
    /\ pc \in [Request -> Steps] /\ op \in [Request -> Handlers]
    /\ \A r \in Request : AnswerOK(r) /\ NotifyOK(r)
    /\ AckedOK

\* Messages stay as they are, and envelopes go with their rows only.
MessagesStay == \A m \in DOMAIN db.msgs : m \in DOMAIN db'.msgs /\ db'.msgs[m] = db.msgs[m]

EnvelopesStay ==
    \A e \in envelope :
        /\ e.mid \in DOMAIN pending
        /\ {pending[e.mid].from, pending[e.mid].to} \subseteq users'
        => e \in envelope'

Stays == RowsStay /\ MessagesStay /\ EnvelopesStay

\* What may be dropped stays so.
LEMMA MayDropStays ==
    ASSUME Stays
    PROVE  \A m \in DOMAIN db.msgs :
              MayDrop(m) => (Alive(db.msgs[m])' => Projected(m, db.msgs[m])')
BY DEF Stays, RowsStay, MessagesStay, MayDrop, Alive, Projected, SamePair

\* A request that does not move keeps what it has.
LEMMA AnswerStays ==
    ASSUME DmInv, AnswerInv, Stays, NEW q \in Request,
           pc'[q] = pc[q], op'[q] = op[q], todo'[q] = todo[q], arg'[q] = arg[q]
    PROVE  AnswerOK(q)' /\ NotifyOK(q)'
<1>1. AnswerOK(q) /\ NotifyOK(q)
  BY DEF AnswerInv
<1>2. AnswerOK(q)'
  <2>1. AsksFor(q)' = AsksFor(q)
    BY DEF AsksFor
  <2>2. \A m \in AsksFor(q) : m \in DOMAIN db.msgs /\ m \in DOMAIN db'.msgs
    BY <1>1 DEF AnswerOK, Stays, MessagesStay
  <2>3. ASSUME pc[q] \in {"project", "remove", "finish"}
        PROVE  \A m \in AsksFor(q) : m \in todo[q] \/ MayDrop(m)'
    BY <1>1, <2>2, <2>3, MayDropStays DEF AnswerOK, MayDrop
  <2> QED
    BY <1>1, <2>1, <2>2, <2>3 DEF AnswerOK
<1>3. NotifyOK(q)'
  <2> SUFFICES ASSUME pc[q] = "notify"
               PROVE  /\ arg[q].acked \subseteq DOMAIN db'.msgs
                      /\ \A m \in arg[q].acked : MayDrop(m)'
                      /\ \A m \in Unserved(arg[q], arg[q].acked)' :
                            db'.msgs[m].from \in arg[q].waiting
    BY DEF NotifyOK
  <2>1. /\ arg[q].acked \subseteq DOMAIN db.msgs
        /\ \A m \in arg[q].acked : MayDrop(m)
        /\ \A m \in Unserved(arg[q], arg[q].acked) : db.msgs[m].from \in arg[q].waiting
    BY <1>1 DEF NotifyOK
  <2>2. arg[q].acked \subseteq DOMAIN db'.msgs
    BY <2>1 DEF Stays, MessagesStay
  <2>3. \A m \in arg[q].acked : MayDrop(m)'
    BY <2>1, MayDropStays DEF MayDrop
  <2>4. ASSUME NEW m \in Unserved(arg[q], arg[q].acked)'
        PROVE  db'.msgs[m].from \in arg[q].waiting
    <3>1. /\ m \in arg[q].acked /\ m \in DOMAIN db.msgs /\ db'.msgs[m] = db.msgs[m]
          /\ db.msgs[m].to = Owner[arg[q].dev]
          /\ {db.msgs[m].from, db.msgs[m].to} \subseteq users'
          /\ ~ \E e \in envelope' : e.mid = m /\ e.dev = arg[q].dev /\ e.ver = arg[q].ver
      BY <2>1, <2>4 DEF Unserved, Alive, HasEnvelope, Stays, MessagesStay
    <3>2. Alive(db.msgs[m])
      BY <3>1 DEF Stays, RowsStay, Alive
    <3>3. m \in DOMAIN pending /\ SamePair(pending[m], db.msgs[m])
      BY <2>1, <3>1, <3>2 DEF MayDrop, Projected
    <3>4. ~HasEnvelope(m, arg[q].dev, arg[q].ver)
      BY <3>1, <3>3 DEF HasEnvelope, SamePair, Stays, EnvelopesStay
    <3>5. m \in Unserved(arg[q], arg[q].acked)
      BY <3>1, <3>2, <3>4 DEF Unserved
    <3> QED
      BY <2>1, <3>1, <3>5
  <2> QED
    BY <2>2, <2>3, <2>4
<1> QED
  BY <1>2, <1>3

\* A step that moves one request keeps the invariant if it leaves that request
\* in order.
LEMMA KeepsAnswers ==
    ASSUME DmInv, AnswerInv, Stays, NEW r \in Request,
           pc' \in [Request -> Steps], op' \in [Request -> Handlers],
           \A q \in Request \ {r} :
              pc'[q] = pc[q] /\ op'[q] = op[q] /\ todo'[q] = todo[q] /\ arg'[q] = arg[q],
           AnswerOK(r)' /\ NotifyOK(r)',
           \A m \in acked' : m \in acked \/ (m \in DOMAIN db.msgs /\ MayDrop(m))
    PROVE  AnswerInv'
<1>1. \A q \in Request : AnswerOK(q)' /\ NotifyOK(q)'
  BY AnswerStays
<1>2. acked' \subseteq DOMAIN db.msgs /\ \A m \in acked' : MayDrop(m)
  BY DEF AnswerInv, AckedOK
<1>3. AckedOK'
  BY <1>2, MayDropStays DEF AckedOK, MayDrop, Stays, MessagesStay
<1> QED
  BY <1>1, <1>3 DEF AnswerInv

\* Entering a step, for the answers.
LEMMA EnterMoves ==
    ASSUME DmInv, AnswerInv, NEW r \in Request, NEW o \in Handlers, NEW step \in Steps, NEW a,
           Enter(r, o, step, a)
    PROVE  /\ pc' \in [Request -> Steps] /\ op' \in [Request -> Handlers]
           /\ pc'[r] = step /\ op'[r] = o /\ todo'[r] = {} /\ arg'[r] = a
           /\ \A q \in Request \ {r} :
                pc'[q] = pc[q] /\ op'[q] = op[q] /\ todo'[q] = todo[q] /\ arg'[q] = arg[q]
BY DEF Enter, AnswerInv, DmInv, RequestsOK

\* A request that enters, and asks for what is stored, keeps the invariant.
LEMMA EnterKeepsAnswers ==
    ASSUME DmInv, AnswerInv, Stays, NEW r \in Request, NEW o \in Handlers,
           NEW step \in {"idle", "apply", "scan"}, NEW a,
           Enter(r, o, step, a),
           o = "get" => a \subseteq DOMAIN db'.msgs,
           o = "send" /\ step # "apply" => a \in DOMAIN db'.msgs,
           \A m \in acked' : m \in acked \/ (m \in DOMAIN db.msgs /\ MayDrop(m))
    PROVE  AnswerInv'
<1>1. /\ pc' \in [Request -> Steps] /\ op' \in [Request -> Handlers]
      /\ pc'[r] = step /\ op'[r] = o /\ todo'[r] = {} /\ arg'[r] = a
      /\ \A q \in Request \ {r} :
            pc'[q] = pc[q] /\ op'[q] = op[q] /\ todo'[q] = todo[q] /\ arg'[q] = arg[q]
  BY EnterMoves DEF Steps
<1>2. AsksFor(r)' \subseteq DOMAIN db'.msgs
  BY <1>1 DEF AsksFor
<1>3. AnswerOK(r)' /\ NotifyOK(r)'
  BY <1>1, <1>2 DEF AnswerOK, NotifyOK
<1> QED
  BY <1>1, <1>3, KeepsAnswers

\* The tables and the messages rest.
LEMMA StaysAtRest ==
    ASSUME db'.msgs = db.msgs, UNCHANGED <<users, pending, envelope>>
    PROVE  Stays
BY DEF Stays, RowsStay, MessagesStay, EnvelopesStay

-----------------------------------------------------------------------------
\* A send takes its id.
LEMMA BeginSendAnswers ==
    ASSUME DmInv, AnswerInv, NEW r \in Writers, NEW p \in Payload, BeginSend(r, p)
    PROVE  AnswerInv'
<1>1. db'.msgs = db.msgs
  BY GenerateFacts DEF BeginSend, DmInv
<1>2. Stays /\ acked' = acked
  BY <1>1, StaysAtRest DEF BeginSend, sqlVars
<1>3. r \in Request /\ Enter(r, "send", "apply", p)
  BY DEF Request, BeginSend
<1> QED
  BY <1>2, <1>3, EnterKeepsAnswers DEF Handlers

\* The batch: the mid that will be answered is stored.
LEMMA StoreMessageAnswers ==
    ASSUME DmInv, AnswerInv, NEW r \in Writers, StoreMessage(r)
    PROVE  AnswerInv'
<1>1. r \in Request /\ arg[r] \in Payload /\ ApplyBatch(r, arg[r])
  BY DEF Request, StoreMessage, DmInv, RequestsOK, RequestOK
<1>2. /\ DOMAIN db'.msgs = DOMAIN db.msgs \cup {taken[r]}
      /\ \A m \in DOMAIN db.msgs : db'.msgs[m] = db.msgs[m]
  BY <1>1, ApplyBatchFacts DEF DmInv
<1>3. Stays /\ acked' = acked
  BY <1>2 DEF StoreMessage, sqlVars, Stays, RowsStay, MessagesStay, EnvelopesStay
<1>4. CASE Enter(r, "send", "scan", taken[r])
  BY <1>1, <1>2, <1>3, <1>4, EnterKeepsAnswers DEF Handlers
<1>5. CASE Enter(r, "none", "idle", NoArg)
  BY <1>1, <1>3, <1>5, EnterKeepsAnswers DEF Handlers
<1> QED
  BY <1>4, <1>5 DEF StoreMessage, Leave

\* The client hangs up: nobody waits for an answer.
LEMMA HangUpAnswers ==
    ASSUME DmInv, AnswerInv, NEW r \in Writers, HangUp(r)
    PROVE  AnswerInv'
<1>1. /\ r \in Request /\ pc[r] = "apply" /\ op' = [op EXCEPT ![r] = "orphan"]
      /\ UNCHANGED <<pc, todo, arg, dbVars, users, pending, envelope, acked>>
  BY DEF Request, HangUp, sqlVars
<1>2. Stays
  BY <1>1, StaysAtRest DEF dbVars
<1>3. op' \in [Request -> Handlers] /\ op'[r] = "orphan" /\ \A q \in Request \ {r} : op'[q] = op[q]
  BY <1>1 DEF AnswerInv, Handlers
<1>4. AnswerOK(r)' /\ NotifyOK(r)'
  BY <1>1, <1>3 DEF AnswerOK, NotifyOK, AsksFor
<1> QED
  BY <1>1, <1>2, <1>3, <1>4, KeepsAnswers DEF AnswerInv

\* The markers are listed: a mid without its row is on the list.
LEMMA ScanAnswers ==
    ASSUME DmInv, AnswerInv, NEW r \in Request, Scan(r)
    PROVE  AnswerInv'
<1>1. /\ pc[r] = "scan" /\ UNCHANGED <<op, arg, dbVars, users, pending, envelope, acked>>
      /\ todo' = [todo EXCEPT ![r] = db.pend]
      /\ pc' = [pc EXCEPT ![r] = IF db.pend = {} THEN "finish" ELSE "project"]
  BY DEF Scan, sqlVars
<1>2. Stays /\ db' = db
  BY <1>1, StaysAtRest DEF dbVars
<1>3. /\ pc' \in [Request -> Steps] /\ op' \in [Request -> Handlers]
      /\ pc'[r] = (IF db.pend = {} THEN "finish" ELSE "project") /\ todo'[r] = db.pend
      /\ \A q \in Request \ {r} :
            pc'[q] = pc[q] /\ op'[q] = op[q] /\ todo'[q] = todo[q] /\ arg'[q] = arg[q]
  BY <1>1 DEF AnswerInv, Steps, DmInv, RequestsOK
<1>4. AsksFor(r)' = AsksFor(r)
  BY <1>1, <1>3 DEF AsksFor
<1>5. \A m \in AsksFor(r) : m \in DOMAIN db.msgs /\ (m \in db.pend \/ MayDrop(m))
  BY DEF AnswerInv, AnswerOK, DmInv, PendingNeverLost, MayDrop
<1>6. AnswerOK(r)' /\ NotifyOK(r)'
  BY <1>1, <1>2, <1>3, <1>4, <1>5 DEF AnswerOK, NotifyOK, MayDrop, Alive, Projected
<1> QED
  BY <1>1, <1>2, <1>3, <1>6, KeepsAnswers

\* One of them is projected.
LEMMA ProjectAnswers ==
    ASSUME DmInv, AnswerInv, NEW r \in Request, Project(r)
    PROVE  AnswerInv'
<1> DEFINE m == FirstLeft(r)
<1>1. /\ pc[r] = "project" /\ pc' = [pc EXCEPT ![r] = "remove"]
      /\ UNCHANGED <<op, arg, todo, dbVars, users, envelope, acked>>
      /\ \A k \in DOMAIN pending : k \in DOMAIN pending' /\ pending'[k] = pending[k]
  BY DEF Project, GoTo, Put
<1>2. Stays
  BY <1>1 DEF Stays, RowsStay, MessagesStay, EnvelopesStay, dbVars
<1>3. /\ pc' \in [Request -> Steps] /\ pc'[r] = "remove"
      /\ \A q \in Request \ {r} : pc'[q] = pc[q]
  BY <1>1 DEF AnswerInv, Steps
<1>4. AsksFor(r)' = AsksFor(r)
  BY <1>1, <1>3 DEF AsksFor
<1>5. \A k \in AsksFor(r) : k \in DOMAIN db.msgs /\ (k \in todo[r] \/ MayDrop(k))
  BY <1>1 DEF AnswerInv, AnswerOK
<1>6. \A k \in AsksFor(r) : k \in todo[r] \/ MayDrop(k)'
  BY <1>2, <1>5, MayDropStays DEF MayDrop
<1>7. AnswerOK(r)' /\ NotifyOK(r)'
  BY <1>1, <1>3, <1>4, <1>5, <1>6 DEF AnswerOK, NotifyOK, dbVars
<1> QED
  BY <1>1, <1>2, <1>3, <1>7, KeepsAnswers DEF AnswerInv

\* Its marker is removed.
LEMMA DropMarkerAnswers ==
    ASSUME DmInv, AnswerInv, NEW r \in Request, DropMarker(r)
    PROVE  AnswerInv'
<1> DEFINE m == FirstLeft(r)
<1>1. m \in todo[r] /\ MayDrop(m)
  BY FirstLeftFacts, FirstLeftIsLeast DEF DropMarker, DmInv, RequestsOK, RequestOK
<1>2. RemovePendingMarker(m) /\ pc[r] = "remove"
  BY DEF DropMarker
<1> HIDE DEF m
<1>3. db'.msgs = db.msgs
  BY <1>2 DEF DmInv, DbInv, DbTypeOK, IsTree, RemovePendingMarker
<1>4. /\ UNCHANGED <<op, arg, users, pending, envelope, acked>>
      /\ todo' = [todo EXCEPT ![r] = @ \ {m}]
      /\ pc' = [pc EXCEPT ![r] = IF todo[r] = {m} THEN "finish" ELSE "project"]
  BY DEF DropMarker, sqlVars, m
<1>5. Stays
  BY <1>3, <1>4, StaysAtRest
<1>6. /\ pc' \in [Request -> Steps] /\ op' \in [Request -> Handlers]
      /\ pc'[r] = (IF todo[r] = {m} THEN "finish" ELSE "project") /\ todo'[r] = todo[r] \ {m}
      /\ \A q \in Request \ {r} :
            pc'[q] = pc[q] /\ op'[q] = op[q] /\ todo'[q] = todo[q] /\ arg'[q] = arg[q]
  BY <1>4 DEF AnswerInv, Steps, DmInv, RequestsOK
<1>7. AsksFor(r)' = AsksFor(r)
  BY <1>2, <1>4, <1>6 DEF AsksFor
<1>8. \A k \in AsksFor(r) : k \in DOMAIN db.msgs /\ (k \in todo[r] \ {m} \/ MayDrop(k))
  BY <1>1, <1>2 DEF AnswerInv, AnswerOK
<1>9. \A k \in AsksFor(r) : k \in todo[r] \ {m} \/ MayDrop(k)'
  BY <1>5, <1>8, MayDropStays DEF MayDrop
<1>10. AnswerOK(r)' /\ NotifyOK(r)'
  BY <1>3, <1>6, <1>7, <1>8, <1>9 DEF AnswerOK, NotifyOK
<1> QED
  BY <1>4, <1>5, <1>6, <1>10, KeepsAnswers

\* The answer of a send: its row is there.
LEMMA FinishSendAnswers ==
    ASSUME DmInv, AnswerInv, NEW r \in Writers, FinishSend(r)
    PROVE  AnswerInv'
<1>1. /\ r \in Request /\ Enter(r, "none", "idle", NoArg) /\ acked' = acked \cup {arg[r]}
      /\ pc[r] = "finish" /\ op[r] = "send" /\ UNCHANGED <<dbVars, users, pending, envelope>>
  BY DEF Request, FinishSend, Leave, sqlVars
<1>2. Stays
  BY <1>1, StaysAtRest DEF dbVars
<1>3. AsksFor(r) = {arg[r]}
  BY <1>1 DEF AsksFor
<1>4. arg[r] \in DOMAIN db.msgs /\ MayDrop(arg[r])
  BY <1>1, <1>3 DEF AnswerInv, AnswerOK
<1> QED
  BY <1>1, <1>2, <1>4, EnterKeepsAnswers DEF Handlers

\* put_identity: a message that was answered has its row, and so the query for
\* waiting senders finds its sender.
LEMMA PutIdentityAnswers ==
    ASSUME DmInv, AnswerInv, NEW r \in Writers, NEW d \in Device, NEW changed \in BOOLEAN,
           PutIdentity(r, d, changed)
    PROVE  AnswerInv'
<1> DEFINE old == identity[d].ver
           v   == IF old = 0 \/ changed THEN old + 1 ELSE old
           a   == [dev |-> d, ver |-> v, waiting |-> WaitingSenders(d, v),
                   acked |-> acked, stored |-> DOMAIN db.msgs]
<1>1. /\ r \in Request /\ Enter(r, "publish", "notify", a)
      /\ UNCHANGED <<dbVars, users, pending, envelope, acked>>
  BY DEF Request, PutIdentity
<1>2. /\ a.dev = d /\ a.ver = v /\ a.waiting = WaitingSenders(d, v) /\ a.acked = acked
  OBVIOUS
<1> HIDE DEF a, v
<1>3. Stays /\ db' = db
  BY <1>1, StaysAtRest DEF dbVars
<1>4. /\ pc' \in [Request -> Steps] /\ op' \in [Request -> Handlers]
      /\ pc'[r] = "notify" /\ op'[r] = "publish" /\ todo'[r] = {} /\ arg'[r] = a
      /\ \A q \in Request \ {r} :
            pc'[q] = pc[q] /\ op'[q] = op[q] /\ todo'[q] = todo[q] /\ arg'[q] = arg[q]
  BY <1>1, EnterMoves DEF Steps, Handlers
<1>5. AnswerOK(r)'
  BY <1>4 DEF AnswerOK, AsksFor
<1>6. acked \subseteq DOMAIN db.msgs /\ \A m \in acked : MayDrop(m)
  BY DEF AnswerInv, AckedOK
<1>7. ASSUME NEW m \in acked, m \in DOMAIN db.msgs, db.msgs[m].to = Owner[d], Alive(db.msgs[m]),
             ~HasEnvelope(m, d, v)
      PROVE  db.msgs[m].from \in WaitingSenders(d, v)
  BY <1>6, <1>7 DEF MayDrop, Projected, SamePair, WaitingSenders
<1>8. arg'[r].dev = d /\ arg'[r].ver = v /\ arg'[r].acked = acked
      /\ arg'[r].waiting = WaitingSenders(d, v)
  BY <1>2, <1>4
<1>9. ASSUME NEW m \in Unserved(arg[r], arg[r].acked)'
      PROVE  db'.msgs[m].from \in arg'[r].waiting
  <2>1. /\ m \in acked /\ m \in DOMAIN db.msgs /\ db.msgs[m].to = Owner[d]
        /\ Alive(db.msgs[m]) /\ ~HasEnvelope(m, d, v)
    BY <1>1, <1>3, <1>8, <1>9 DEF Unserved, Alive, HasEnvelope
  <2> QED
    BY <1>3, <1>7, <1>8, <2>1
<1>10. NotifyOK(r)'
  <2>1. \A m \in arg'[r].acked : MayDrop(m)'
    BY <1>1, <1>3, <1>6, <1>8 DEF MayDrop, Alive, Projected
  <2> QED
    BY <1>3, <1>6, <1>8, <1>9, <2>1 DEF NotifyOK
<1> QED
  BY <1>1, <1>3, <1>4, <1>5, <1>10, KeepsAnswers

\* Requests that come in or end otherwise.
LEMMA QuietAnswers ==
    ASSUME DmInv, AnswerInv, NEW r \in Request,
           \/ \E u, t \in User : BeginGetPending(r, u, t)
           \/ \E m \in DOMAIN db.msgs, sd, d \in Device : BeginPostEnvelope(r, m, sd, d)
           \/ FinishGetPending(r) \/ AppendRefused(r) \/ Notify(r)
           \/ ProjectRefused(r) \/ RequestCut(r) \/ (r = boot /\ FinishBoot)
    PROVE  AnswerInv'
<1>1. UNCHANGED <<dbVars, users, pending, envelope, acked>>
  BY DEF BeginGetPending, BeginPostEnvelope, FinishGetPending,
     AppendRefused, Notify, ProjectRefused, RequestCut, FinishBoot, sqlVars
<1>2. Stays /\ db' = db
  BY <1>1, StaysAtRest DEF dbVars
<1>3. \/ \E u, t \in User : Enter(r, "get", "scan", Stored(u, t))
      \/ \E a : Enter(r, "post", "scan", a)
      \/ Enter(r, "none", "idle", NoArg)
  BY DEF BeginGetPending, BeginPostEnvelope, FinishGetPending,
     AppendRefused, Notify, ProjectRefused, RequestCut, FinishBoot, Leave
<1>4. \A u, t \in User : Stored(u, t) \subseteq DOMAIN db'.msgs
  BY <1>2 DEF Stored
<1> QED
  BY <1>1, <1>2, <1>3, <1>4, EnterKeepsAnswers DEF Handlers

\* The start of the server, and its failures.
LEMMA BootAnswers ==
    ASSUME DmInv, AnswerInv, Boot \/ BootRefused \/ BootFails
    PROVE  AnswerInv'
<1>1. /\ boot \in Request /\ UNCHANGED <<users, pending, envelope, acked>>
      /\ Enter(boot, "boot", "scan", NoArg) \/ Enter(boot, "none", "idle", NoArg)
  BY DEF Request, Boot, BootRefused, BootFails, sqlVars, Leave
<1>2. db'.msgs = db.msgs
  BY OpenFacts, CloseFacts DEF DmInv, Boot, BootRefused, BootFails
<1>3. Stays
  BY <1>1, <1>2, StaysAtRest
<1> QED
  BY <1>1, <1>3, EnterKeepsAnswers DEF Handlers

\* A crash: who was answered and is still stored has the row.
LEMMA CrashAnswers ==
    ASSUME DmInv, AnswerInv, ServerCrash
    PROVE  AnswerInv'
<1>1. /\ db' = disk /\ UNCHANGED <<users, pending>> /\ acked' = acked \cap DOMAIN disk.msgs
      /\ pc' = [r \in Request |-> "idle"] /\ op' = [r \in Request |-> "none"]
      /\ todo' = [r \in Request |-> {}]
  BY DEF ServerCrash, Crash, sqlVars
<1>2. \A m \in DOMAIN disk.msgs : m \in DOMAIN db.msgs /\ db.msgs[m] = disk.msgs[m]
  BY DEF DmInv, DbInv, DiskIsPrefix
<1>3. AckedOK'
  BY <1>1, <1>2 DEF AnswerInv, AckedOK, MayDrop, Alive, Projected
<1>4. \A r \in Request : AnswerOK(r)' /\ NotifyOK(r)'
  BY <1>1 DEF AnswerOK, NotifyOK, AsksFor
<1>5. pc' \in [Request -> Steps] /\ op' \in [Request -> Handlers]
  BY <1>1 DEF Steps, Handlers
<1> QED
  BY <1>3, <1>4, <1>5 DEF AnswerInv

\* An envelope is appended and nothing else.
LEMMA AppendAnswers ==
    ASSUME DmInv, AnswerInv, NEW r \in Writers, AppendEnvelope(r)
    PROVE  AnswerInv'
<1>1. /\ r \in Request /\ UNCHANGED <<dbVars, users, acked>> /\ envelope \subseteq envelope'
      /\ Enter(r, "none", "idle", NoArg)
  BY DEF Request, AppendEnvelope, Leave
<1>2. pending' = pending
        \/ \E m \in DOMAIN pending : pending' = [pending EXCEPT ![m].done = TRUE]
  BY DEF AppendEnvelope, MayAppend
<1>3. RowsStay
  <2>1. \A m \in DOMAIN pending : pending[m] \in Row
    BY DEF RowsTyped, DmInv
  <2>2. \A m \in DOMAIN pending :
            /\ m \in DOMAIN pending' /\ pending'[m].from = pending[m].from
            /\ pending'[m].to = pending[m].to
    BY <1>2, <2>1 DEF Row
  <2> QED
    BY <1>1, <2>2 DEF RowsStay
<1>4. Stays
  BY <1>1, <1>3 DEF Stays, MessagesStay, EnvelopesStay, dbVars
<1> QED
  BY <1>1, <1>4, EnterKeepsAnswers DEF Handlers

\* Steps in which no request moves on.
LEMMA StillAnswers ==
    ASSUME DmInv, AnswerInv, Stays, UNCHANGED <<pc, op, todo, arg, acked>>
    PROVE  AnswerInv'
<1>1. boot \in Request
  BY DEF Request
<1>2. AnswerOK(boot)' /\ NotifyOK(boot)'
  BY <1>1, AnswerStays
<1> QED
  BY <1>1, <1>2, KeepsAnswers DEF AnswerInv

\* Devices that come and go, a user who is deleted, a flush.
LEMMA OthersAnswers ==
    ASSUME DmInv, AnswerInv,
           \/ \E d \in Device : Login(d) \/ RemoveDevice(d)
           \/ \E u \in Deletable : DeleteUser(u)
           \/ BackgroundFlush
           \/ UNCHANGED vars
    PROVE  AnswerInv'
<1>1. UNCHANGED <<db, pc, op, todo, arg, acked>>
  BY DEF Login, RemoveDevice, DeleteUser, BackgroundFlush, Flush, vars, reqVars, dbVars
<1>2. Stays
  <2>1. CASE \E u \in Deletable : DeleteUser(u)
    BY <1>1, <2>1 DEF DeleteUser, Involves, Stays, RowsStay, MessagesStay, EnvelopesStay
  <2>2. CASE UNCHANGED <<users, pending, envelope>>
    BY <1>1, <2>2, StaysAtRest
  <2> QED
    BY <2>1, <2>2 DEF Login, RemoveDevice, BackgroundFlush, vars, sqlVars
<1> QED
  BY <1>1, <1>2, StillAnswers

\* Every step keeps the invariant about answers.
LEMMA AnswerNext == ASSUME DmInv, AnswerInv, [Next]_vars PROVE AnswerInv'
<1>1. Writers \subseteq Request /\ boot \in Request
  BY DEF Request
<1>2. ASSUME NEW r \in Writers, RequestStep(r) PROVE AnswerInv'
  BY <1>1, <1>2, StoreMessageAnswers, AppendAnswers, FinishSendAnswers, QuietAnswers
     DEF RequestStep
<1>3. ASSUME NEW r \in Request, ReconcileStep(r) PROVE AnswerInv'
  BY <1>3, ScanAnswers, ProjectAnswers, DropMarkerAnswers DEF ReconcileStep
<1>4. CASE UNCHANGED vars
  BY <1>4, OthersAnswers
<1>5. CASE Next
  BY <1>1, <1>2, <1>3, <1>5, BeginSendAnswers, PutIdentityAnswers, QuietAnswers, HangUpAnswers,
     BootAnswers, CrashAnswers, OthersAnswers DEF Next
<1> QED
  BY <1>4, <1>5

\* Initially nobody was answered.
LEMMA AnswerInit == Init => AnswerInv
BY DEF Init, DbInit, EmptyTree, AnswerInv, AnswerOK, NotifyOK, AsksFor, AckedOK, Steps, Handlers

\* The invariant about answers holds always.
LEMMA AnswersAreInv == Spec => []AnswerInv
BY DmInvariant, AnswerInit, AnswerNext, PTL DEF Spec

\* get_pending: when the query runs, every deferred message of the pair that was
\* stored when the request came in has its row.
THEOREM QueriesSeeWhatIsStored == Spec => []QuerySeesStored
<1>1. AnswerInv => QuerySeesStored
  BY DEF AnswerInv, AnswerOK, AsksFor, QuerySeesStored, MayDrop, Request
<1> QED
  BY <1>1, AnswersAreInv, PTL

\* put_identity: every sender whose deferred message was answered before is told.
THEOREM AckedSendersAreTold == Spec => []AckedSenderNotified
<1>1. AnswerInv => AckedSenderNotified
  BY DEF AnswerInv, NotifyOK, AckedSenderNotified, Request
<1> QED
  BY <1>1, AnswersAreInv, PTL

-----------------------------------------------------------------------------
\* A request to append an envelope knows a message and a device.
Post == [mid : Nat, sender : Device, dev : Device, wrapped : Nat]
PostsTyped == \A r \in Request : op[r] = "post" => arg[r] \in Post

TablesTyped ==
    /\ users \subseteq User
    /\ device \subseteq Device
    /\ identity \in [Device -> [ver : Nat, retired : BOOLEAN]]
    /\ DOMAIN pending \subseteq Nat
    /\ envelope \subseteq [mid : Nat, dev : Device, ver : Nat, wrapped : Nat]

\* The inductive invariant about envelopes.
EnvelopeInv == TablesTyped /\ PostsTyped /\ CompletedHasEnvelope /\ EnvelopeForTarget

\* Requests that enter do so with a message and a device, if it is to append.
LEMMA PostsStay ==
    ASSUME DmInv, AnswerInv, EnvelopeInv,
           NEW r \in Request, NEW o, NEW step, NEW a, Enter(r, o, step, a),
           o = "post" => a \in Post
    PROVE  PostsTyped'
BY DEF Enter, PostsTyped, EnvelopeInv, AnswerInv, DmInv, RequestsOK

\* The tables rest, but for users who go.
LEMMA TablesRest ==
    ASSUME EnvelopeInv, PostsTyped', UNCHANGED <<users, device, identity, pending, envelope>>
    PROVE  EnvelopeInv'
BY DEF EnvelopeInv, TablesTyped, CompletedHasEnvelope, EnvelopeForTarget

\* A new row has no envelope yet.
LEMMA ProjectEnvelopes ==
    ASSUME DmInv, AnswerInv, EnvelopeInv, NEW r \in Request, Project(r)
    PROVE  EnvelopeInv'
<1> DEFINE m == FirstLeft(r)
           row == [from |-> db.msgs[m].from, to |-> db.msgs[m].to, done |-> FALSE]
<1>1. m \in DOMAIN db.msgs /\ m \in Nat
  BY FirstLeftFacts DEF Project, DmInv, DbInv, DbTypeOK, IsTree
<1>2. /\ UNCHANGED <<op, arg, users, device, identity, envelope>>
      /\ pending' = IF m \in DOMAIN pending THEN pending ELSE Put(pending, m, row)
  BY DEF Project, GoTo
<1>3. row.done = FALSE
  OBVIOUS
<1> HIDE DEF m, row
<1>4. CASE m \in DOMAIN pending
  BY <1>2, <1>4, TablesRest DEF EnvelopeInv, PostsTyped
<1>5. CASE m \notin DOMAIN pending
  <2>1. /\ DOMAIN pending' = DOMAIN pending \cup {m} /\ pending'[m] = row
        /\ \A k \in DOMAIN pending : pending'[k] = pending[k]
    BY <1>2, <1>5 DEF Put
  <2>2. \A e \in envelope : e.mid # m
    BY <1>5 DEF EnvelopeInv, EnvelopeForTarget
  <2>3. CompletedHasEnvelope'
    BY <1>2, <1>3, <2>1, <2>2 DEF EnvelopeInv, CompletedHasEnvelope
  <2>4. EnvelopeForTarget'
    BY <1>2, <2>1 DEF EnvelopeInv, EnvelopeForTarget
  <2>5. TablesTyped' /\ PostsTyped'
    BY <1>1, <1>2, <2>1 DEF EnvelopeInv, TablesTyped, PostsTyped
  <2> QED
    BY <2>3, <2>4, <2>5 DEF EnvelopeInv
<1> QED
  BY <1>4, <1>5

\* An envelope is for the target of its row and completes it.
LEMMA AppendEnvelopes ==
    ASSUME DmInv, AnswerInv, EnvelopeInv, NEW r \in Writers, AppendEnvelope(r)
    PROVE  EnvelopeInv'
<1> DEFINE sent == arg[r]
           v    == identity[sent.dev].ver
           new  == [mid |-> sent.mid, dev |-> sent.dev, ver |-> v, wrapped |-> sent.wrapped]
<1>1. /\ r \in Request /\ Enter(r, "none", "idle", NoArg) /\ op[r] = "post" /\ MayAppend(sent)
      /\ UNCHANGED <<users, device, identity>>
      /\ IF HasEnvelope(sent.mid, sent.dev, v)
         THEN UNCHANGED <<envelope, pending>>
         ELSE envelope' = envelope \cup {new} /\ pending' = [pending EXCEPT ![sent.mid].done = TRUE]
  BY DEF Request, AppendEnvelope, Leave
<1>2. PostsTyped'
  BY <1>1, PostsStay
<1>3. sent \in Post
  BY <1>1 DEF EnvelopeInv, PostsTyped
<1>4. /\ sent.mid \in Nat /\ sent.dev \in Device /\ sent.wrapped \in Nat
  BY <1>3 DEF Post
<1>5. identity[sent.dev] \in [ver : Nat, retired : BOOLEAN]
  BY <1>4 DEF EnvelopeInv, TablesTyped
<1>6. v \in Nat /\ v \in 1 .. v
  BY <1>1, <1>5 DEF MayAppend, IsCurrent
<1>7. CASE HasEnvelope(sent.mid, sent.dev, v)
  BY <1>1, <1>2, <1>7, TablesRest
<1>8. CASE ~HasEnvelope(sent.mid, sent.dev, v)
  <2>1. /\ sent.mid \in DOMAIN pending /\ pending[sent.mid].to = Owner[sent.dev]
        /\ pending[sent.mid] \in Row
    BY <1>1 DEF MayAppend, DmInv, RowsTyped
  <2>2. /\ DOMAIN pending' = DOMAIN pending
        /\ \A k \in DOMAIN pending : k # sent.mid => pending'[k] = pending[k]
        /\ pending'[sent.mid].done = TRUE
        /\ pending'[sent.mid].to = pending[sent.mid].to
    BY <1>1, <1>8, <2>1 DEF Row
  <2>3. envelope' = envelope \cup {new}
    BY <1>1, <1>8
  <2>4. /\ new.mid = sent.mid /\ new.dev = sent.dev /\ new.ver = v
        /\ new \in [mid : Nat, dev : Device, ver : Nat, wrapped : Nat]
    BY <1>4, <1>6
  <2> HIDE DEF new, v, sent
  <2>5. CompletedHasEnvelope'
    BY <2>2, <2>3, <2>4 DEF EnvelopeInv, CompletedHasEnvelope
  <2>6. EnvelopeForTarget'
    <3> SUFFICES ASSUME NEW e \in envelope'
                 PROVE  /\ e.mid \in DOMAIN pending /\ Owner[e.dev] = pending'[e.mid].to
                        /\ e.ver \in 1 .. identity[e.dev].ver
      BY <1>1, <2>2 DEF EnvelopeForTarget
    <3>1. CASE e = new
      BY <1>6, <2>1, <2>2, <2>4, <3>1 DEF v
    <3>2. CASE e \in envelope
      BY <2>2, <3>2 DEF EnvelopeInv, EnvelopeForTarget
    <3> QED
      BY <2>3, <3>1, <3>2
  <2>7. TablesTyped'
    BY <1>1, <2>2, <2>3, <2>4 DEF EnvelopeInv, TablesTyped
  <2> QED
    BY <1>2, <2>5, <2>6, <2>7 DEF EnvelopeInv
<1> QED
  BY <1>7, <1>8

\* A version of an identity is never taken back while the account exists.
LEMMA VersionsGrow ==
    ASSUME EnvelopeInv, UNCHANGED <<pending, envelope>>, TablesTyped', PostsTyped',
           \A d \in Device : identity[d].ver <= identity'[d].ver
    PROVE  EnvelopeInv'
<1>1. EnvelopeForTarget'
  <2> SUFFICES ASSUME NEW e \in envelope PROVE e.ver \in 1 .. identity'[e.dev].ver
    BY DEF EnvelopeInv, EnvelopeForTarget
  <2>1. e \in [mid : Nat, dev : Device, ver : Nat, wrapped : Nat]
    BY DEF EnvelopeInv, TablesTyped
  <2>2. e.dev \in Device /\ e.ver \in Nat
    BY <2>1
  <2>3. identity[e.dev].ver \in Nat /\ identity'[e.dev].ver \in Nat
    BY <2>2 DEF EnvelopeInv, TablesTyped
  <2>4. e.ver \in 1 .. identity[e.dev].ver
    BY DEF EnvelopeInv, EnvelopeForTarget
  <2> QED
    BY <2>2, <2>3, <2>4
<1> QED
  BY <1>1 DEF EnvelopeInv, CompletedHasEnvelope

\* put_identity.
LEMMA PutIdentityEnvelopes ==
    ASSUME DmInv, AnswerInv, EnvelopeInv, NEW r \in Writers, NEW d \in Device,
           NEW changed \in BOOLEAN, PutIdentity(r, d, changed)
    PROVE  EnvelopeInv'
<1> DEFINE old == identity[d].ver
           v   == IF old = 0 \/ changed THEN old + 1 ELSE old
<1>1. /\ r \in Request /\ \E a : Enter(r, "publish", "notify", a)
      /\ UNCHANGED <<users, device, pending, envelope>>
      /\ identity' = [identity EXCEPT ![d] = [ver |-> v, retired |-> FALSE]]
  BY DEF Request, PutIdentity
<1>2. PostsTyped'
  BY <1>1, PostsStay
<1>3. old \in Nat
  BY DEF EnvelopeInv, TablesTyped
<1>4. v \in Nat /\ old <= v
  BY <1>3
<1> HIDE DEF v
<1>5. TablesTyped'
  BY <1>1, <1>4 DEF EnvelopeInv, TablesTyped
<1>6. \A x \in Device : identity[x].ver \in Nat
  BY DEF EnvelopeInv, TablesTyped
<1>7. \A x \in Device : identity[x].ver <= identity'[x].ver
  BY <1>1, <1>4, <1>6 DEF EnvelopeInv, TablesTyped
<1> QED
  BY <1>1, <1>2, <1>5, <1>7, VersionsGrow

\* Devices come back and go; the identity of one that goes is retired.
LEMMA DevicesEnvelopes ==
    ASSUME DmInv, AnswerInv, EnvelopeInv, NEW d \in Device, Login(d) \/ RemoveDevice(d)
    PROVE  EnvelopeInv'
<1>1. UNCHANGED <<users, pending, envelope, op, arg>> /\ PostsTyped'
  BY DEF Login, RemoveDevice, reqVars, EnvelopeInv, PostsTyped
<1>2. device' \subseteq Device
  BY DEF Login, RemoveDevice, EnvelopeInv, TablesTyped
<1>3. \A x \in Device : identity[x].ver \in Nat /\ identity[x].ver <= identity[x].ver
  BY DEF EnvelopeInv, TablesTyped
<1>4. CASE Login(d)
  <2>1. identity' = identity
    BY <1>4 DEF Login
  <2>2. TablesTyped'
    BY <1>1, <1>2, <2>1 DEF EnvelopeInv, TablesTyped
  <2> QED
    BY <1>1, <1>3, <2>1, <2>2, VersionsGrow
<1>5. CASE RemoveDevice(d)
  <2>1. identity' = [identity EXCEPT ![d].retired = (identity[d].ver > 0)]
    BY <1>5 DEF RemoveDevice
  <2>2. identity \in [Device -> [ver : Nat, retired : BOOLEAN]]
    BY DEF EnvelopeInv, TablesTyped
  <2>3. identity' = [identity EXCEPT ![d].retired = TRUE]
          \/ identity' = [identity EXCEPT ![d].retired = FALSE]
    <3> DEFINE published == identity[d].ver > 0
    <3>1. published = TRUE \/ published = FALSE
      OBVIOUS
    <3>2. identity' = [identity EXCEPT ![d].retired = published]
      BY <2>1
    <3> HIDE DEF published
    <3> QED
      BY <3>1, <3>2
  <2>4. identity' \in [Device -> [ver : Nat, retired : BOOLEAN]]
    BY <2>2, <2>3
  <2>5. \A x \in Device : identity'[x].ver = identity[x].ver
    BY <2>2, <2>3
  <2>6. TablesTyped'
    BY <1>1, <1>2, <2>4 DEF EnvelopeInv, TablesTyped
  <2> QED
    BY <1>1, <1>3, <2>5, <2>6, VersionsGrow
<1> QED
  BY <1>4, <1>5

\* A user goes with the rows and envelopes that name the user.
LEMMA DeleteUserEnvelopes ==
    ASSUME DmInv, AnswerInv, EnvelopeInv, NEW u, DeleteUser(u)
    PROVE  EnvelopeInv'
<1> DEFINE kept == {m \in DOMAIN pending : ~Involves(pending[m], u)}
<1>1. /\ users' = users \ {u} /\ device' = {d \in device : Owner[d] # u}
      /\ identity' = [d \in Device |-> IF Owner[d] = u THEN NoIdentity ELSE identity[d]]
      /\ pending' = [m \in kept |-> pending[m]]
      /\ envelope' = {e \in envelope : e.mid \in kept}
      /\ UNCHANGED <<op, arg>>
  BY DEF DeleteUser, reqVars
<1>2. NoIdentity \in [ver : Nat, retired : BOOLEAN]
  BY DEF NoIdentity
<1>3. identity' \in [Device -> [ver : Nat, retired : BOOLEAN]]
  BY <1>1, <1>2 DEF EnvelopeInv, TablesTyped
<1>4. TablesTyped' /\ PostsTyped'
  BY <1>1, <1>3 DEF EnvelopeInv, TablesTyped, PostsTyped
<1>5. CompletedHasEnvelope'
  BY <1>1 DEF EnvelopeInv, CompletedHasEnvelope
<1>6. EnvelopeForTarget'
  <2> SUFFICES ASSUME NEW e \in envelope'
               PROVE  /\ e.mid \in DOMAIN pending' /\ Owner[e.dev] = pending'[e.mid].to
                      /\ e.ver \in 1 .. identity'[e.dev].ver
    BY DEF EnvelopeForTarget
  <2>1. /\ e \in envelope /\ e.mid \in kept /\ e.mid \in DOMAIN pending
        /\ pending[e.mid].to # u /\ pending'[e.mid] = pending[e.mid]
    BY <1>1 DEF Involves
  <2>2. Owner[e.dev] = pending[e.mid].to /\ e.ver \in 1 .. identity[e.dev].ver
    BY <2>1 DEF EnvelopeInv, EnvelopeForTarget
  <2>3. e.dev \in Device
    BY <2>1 DEF EnvelopeInv, TablesTyped
  <2>4. identity'[e.dev] = identity[e.dev]
    BY <1>1, <2>1, <2>2, <2>3
  <2> QED
    BY <1>1, <2>1, <2>2, <2>4
<1> QED
  BY <1>4, <1>5, <1>6 DEF EnvelopeInv

\* Requests that come in, move on or end, and leave the tables as they are.
LEMMA RequestsEnvelopes ==
    ASSUME DmInv, AnswerInv, EnvelopeInv,
           UNCHANGED <<users, device, identity, pending, envelope>>,
           \/ UNCHANGED <<op, arg>>
           \/ \E r \in Request : \E o, step, a :
                 Enter(r, o, step, a) /\ (o = "post" => a \in Post)
    PROVE  EnvelopeInv'
<1>1. CASE UNCHANGED <<op, arg>>
  BY <1>1, TablesRest DEF EnvelopeInv, PostsTyped
<1>2. CASE \E r \in Request : \E o, step, a : Enter(r, o, step, a) /\ (o = "post" => a \in Post)
  BY <1>2, PostsStay, TablesRest
<1> QED
  BY <1>1, <1>2

\* A request to append an envelope comes in.
LEMMA BeginPostEnvelopes ==
    ASSUME DmInv, AnswerInv, EnvelopeInv, NEW r \in Writers, NEW m \in DOMAIN db.msgs,
           NEW sd \in Device, NEW d \in Device, BeginPostEnvelope(r, m, sd, d)
    PROVE  EnvelopeInv'
<1> DEFINE a == [mid |-> m, sender |-> sd, dev |-> d, wrapped |-> identity[d].ver]
<1>1. m \in Nat /\ identity[d].ver \in Nat
  BY DEF DmInv, DbInv, DbTypeOK, IsTree, EnvelopeInv, TablesTyped
<1>2. a \in Post
  BY <1>1 DEF Post
<1>3. /\ r \in Request /\ Enter(r, "post", "scan", a)
      /\ UNCHANGED <<users, device, identity, pending, envelope>>
  BY DEF Request, BeginPostEnvelope, sqlVars
<1> HIDE DEF a
<1> QED
  BY <1>2, <1>3, RequestsEnvelopes

\* The other steps of a request.
LEMMA QuietEnvelopes ==
    ASSUME DmInv, AnswerInv, EnvelopeInv, NEW r \in Request,
           \/ \E p \in Payload : BeginSend(r, p)
           \/ \E u, t \in User : BeginGetPending(r, u, t)
           \/ StoreMessage(r) \/ FinishSend(r) \/ FinishGetPending(r) \/ AppendRefused(r)
           \/ Notify(r) \/ ProjectRefused(r) \/ RequestCut(r)
           \/ (r = boot /\ (Boot \/ FinishBoot \/ BootRefused \/ BootFails))
    PROVE  EnvelopeInv'
<1>1. UNCHANGED <<users, device, identity, pending, envelope>>
  BY DEF BeginSend, BeginGetPending, StoreMessage, FinishSend, FinishGetPending, AppendRefused,
     Notify, ProjectRefused, RequestCut, Boot, FinishBoot, BootRefused, BootFails, sqlVars
<1>2. \E o, step, a : Enter(r, o, step, a) /\ o # "post"
  BY DEF BeginSend, BeginGetPending, StoreMessage, FinishSend, FinishGetPending, AppendRefused,
     Notify, ProjectRefused, RequestCut, Boot, FinishBoot, BootRefused, BootFails, Leave
<1> QED
  BY <1>1, <1>2, RequestsEnvelopes

\* Steps that no table sees.
LEMMA UnseenEnvelopes ==
    ASSUME DmInv, AnswerInv, EnvelopeInv,
           \/ \E r \in Request : Scan(r) \/ DropMarker(r)
           \/ \E r \in Writers : HangUp(r)
           \/ ServerCrash \/ BackgroundFlush
           \/ UNCHANGED vars
    PROVE  EnvelopeInv'
<1>1. UNCHANGED <<users, device, identity, pending, envelope>>
  BY DEF Scan, DropMarker, HangUp, ServerCrash, BackgroundFlush, vars, sqlVars
<1>2. PostsTyped'
  <2>1. CASE UNCHANGED <<op, arg>>
    BY <2>1 DEF EnvelopeInv, PostsTyped
  <2>2. CASE ServerCrash
    BY <2>2 DEF ServerCrash, PostsTyped
  <2>3. CASE \E r \in Writers : HangUp(r)
    BY <2>3 DEF HangUp, EnvelopeInv, PostsTyped, AnswerInv
  <2> QED
    BY <2>1, <2>2, <2>3 DEF Scan, DropMarker, BackgroundFlush, vars, reqVars
<1> QED
  BY <1>1, <1>2, TablesRest

\* Every step keeps the invariant about envelopes.
LEMMA EnvelopeNext == ASSUME DmInv, AnswerInv, EnvelopeInv, [Next]_vars PROVE EnvelopeInv'
<1>1. Writers \subseteq Request /\ boot \in Request
  BY DEF Request
<1>2. ASSUME NEW r \in Writers, RequestStep(r) PROVE EnvelopeInv'
  BY <1>1, <1>2, AppendEnvelopes, QuietEnvelopes DEF RequestStep
<1>3. ASSUME NEW r \in Request, ReconcileStep(r) PROVE EnvelopeInv'
  BY <1>3, ProjectEnvelopes, UnseenEnvelopes DEF ReconcileStep
<1>4. CASE UNCHANGED vars
  BY <1>4, UnseenEnvelopes
<1>5. CASE Next
  BY <1>1, <1>2, <1>3, <1>5, PutIdentityEnvelopes, BeginPostEnvelopes, QuietEnvelopes,
     UnseenEnvelopes, DevicesEnvelopes, DeleteUserEnvelopes DEF Next
<1> QED
  BY <1>4, <1>5

\* Initially there are no envelopes.
LEMMA EnvelopeInit == Init => EnvelopeInv
<1> SUFFICES ASSUME Init PROVE EnvelopeInv
  OBVIOUS
<1>1. NoIdentity \in [ver : Nat, retired : BOOLEAN]
  BY DEF NoIdentity
<1> QED
  BY <1>1 DEF Init, EnvelopeInv, TablesTyped, PostsTyped, CompletedHasEnvelope, EnvelopeForTarget

\* append_envelopes, put_identity, delete_device and delete_user: an envelope
\* belongs to the target of a live row and to a published version, and a row is
\* complete exactly when it has one.
THEOREM EnvelopesAlwaysFit == Spec => []EnvelopesFit
<1>1. Spec => []EnvelopeInv
  BY DmInvariant, AnswersAreInv, EnvelopeInit, EnvelopeNext, PTL DEF Spec
<1>2. DmInv /\ AnswerInv /\ EnvelopeInv => EnvelopesFit
  BY DEF DmInv, RowsTyped, RequestsOK, RequestOK, AnswerInv, AckedOK, Steps, Handlers,
     EnvelopeInv, TablesTyped, EnvelopesFit, TypeOK, DbInv
<1> QED
  BY <1>1, <1>2, DmInvariant, AnswersAreInv, PTL
=============================================================================
