------------------------------- MODULE MlsProofs ------------------------------
(***************************************************************************)
(* The order of MLS records, for any number of requests, devices, commits, *)
(* epochs and generations; below, the delivery service, and the ratchet of *)
(* two devices.                                                            *)
(*                                                                         *)
(* SlotStoredOnce is not inductive: it must be known that a request that   *)
(* has booked a slot is the only one to hold it and that its record is not *)
(* stored yet, in the log or in what a crash brings back.  SlotInv adds    *)
(* that, and the keys of the three tables.                                 *)
(***************************************************************************)
EXTENDS MlsSequence, MlsDelivery, Ratchet, Integers, TLAPS

\* The primary keys of e2e_v2_mls_commit, _welcome and _application.
RowsUnique == \A x, y \in reserved : SameSlot(x, y) => x = y

\* A foreign key: a welcome's commit exists.
WelcomeHasCommit ==
    \A w \in RowsOf("welcome") :
        \E c \in RowsOf("commit") : c.epoch = w.epoch /\ c.cid = w.cid

\* What is stored was booked, and is stored once.
TreeFollowsRows(t) ==
    /\ \A m \in DOMAIN t : t[m].via = "send" => t[m].rec \in reserved
    /\ \A m, n \in DOMAIN t :
          t[m].via = "send" /\ t[n].via = "send" /\ t[m].rec = t[n].rec => m = n

NotStoredIn(x, t) == \A m \in DOMAIN t : t[m].via = "send" => t[m].rec # x

\* A record under way is booked, by one request, and stored nowhere.
UnderWayIsBooked ==
    \A r \in Request : sending[r] # Idle =>
        /\ sending[r] \in reserved
        /\ \A q \in Request : sending[q] = sending[r] => q = r
        /\ NotStoredIn(sending[r], log)
        /\ NotStoredIn(sending[r], durable)

\* The inductive invariant.
SlotInv ==
    /\ TypeOK
    /\ RowsUnique
    /\ WelcomeHasCommit
    /\ TreeFollowsRows(log)
    /\ TreeFollowsRows(durable)
    /\ UnderWayIsBooked
    /\ NoSlotSkipped

-----------------------------------------------------------------------------
\* What the fields of a record may be.
LEMMA RecordFields ==
    ASSUME NEW x \in Record
    PROVE  /\ x.class \in {"commit", "welcome", "application"}
           /\ x.epoch \in Nat
           /\ x.gen \in Nat
           /\ x # Idle
  BY SlotBoundAssumption DEF Record, Handshake, Application, Idle

\* reserve_mls_sequence never books a slot that has a row.
LEMMA FitsIsFresh ==
    ASSUME reserved \subseteq Record, NEW x \in Record, Fits(x),
           NEW y \in reserved
    PROVE  ~SameSlot(x, y)
  <1>1. x.epoch \in Nat /\ y.epoch \in Nat /\ x.gen \in Nat /\ y.gen \in Nat
    BY RecordFields
  <1>2. CASE x.class = "commit"
    <2>1. CommitFits(x)
      BY <1>2 DEF Fits
    <2>2. y.class = "commit" => y.epoch <= x.epoch - 1
      BY <2>1 DEF CommitFits, IsCurrentEpoch, RowsOf
    <2>3. QED
      BY <1>1, <1>2, <2>2 DEF SameSlot
  <1>3. CASE x.class = "welcome"
    <2>1. WelcomeFits(x)
      BY <1>3 DEF Fits
    <2>2. y.class = "welcome" => ~(y.epoch = x.epoch /\ y.cid = x.cid)
      BY <2>1 DEF WelcomeFits, RowsOf
    <2>3. QED
      BY <1>3, <2>2 DEF SameSlot
  <1>4. CASE x.class = "application"
    <2>1. ApplicationFits(x)
      BY <1>4 DEF Fits
    <2>2. y.class = "application" /\ y.epoch = x.epoch /\ y.dev = x.dev
              => y.gen < x.gen
      BY <2>1 DEF ApplicationFits, IsNextGeneration, Generations, RowsOf
    <2>3. QED
      BY <1>1, <1>4, <2>2 DEF SameSlot
  <1>5. QED
    BY <1>2, <1>3, <1>4, RecordFields

\* Taking the same slot is reflexive and symmetric.
LEMMA SameSlotProperties ==
    /\ \A x \in Record : SameSlot(x, x)
    /\ \A x, y \in Record : SameSlot(x, y) => SameSlot(y, x)
  BY DEF SameSlot

\* Booking the slot that is next leaves no gap behind.
LEMMA FitsLeavesNoGap ==
    ASSUME reserved \subseteq Record, NoSlotSkipped, NEW x \in Record, Fits(x),
           reserved' = reserved \cup {x}
    PROVE  NoSlotSkipped'
  <1> USE DEF RowsOf
  <1>1. x.epoch \in Nat /\ x.gen \in Nat
    BY RecordFields
  <1>2. \A k : RowsOf(k) \subseteq RowsOf(k)'
    OBVIOUS
  <1>3. \A e, d : Generations(e, d) \subseteq Generations(e, d)'
    BY <1>2 DEF Generations
  <1>4. ASSUME NEW y \in reserved
        PROVE  /\ \A e \in 1 .. y.epoch : \E c \in RowsOf("commit")' : c.epoch = e
               /\ y.class = "application" =>
                     \A g \in 0 .. y.gen : g \in Generations(y.epoch, y.dev)'
    BY <1>2, <1>3 DEF NoSlotSkipped
  <1>5. ASSUME NEW k \in Nat, IsCurrentEpoch(k), NEW e \in 1 .. k
        PROVE  \E c \in RowsOf("commit") : c.epoch = e
    <2>1. PICK c \in RowsOf("commit") : c.epoch = k
      BY <1>5 DEF IsCurrentEpoch
    <2>2. QED
      BY <2>1, <1>5 DEF NoSlotSkipped
  <1>6. \A e \in 1 .. x.epoch : \E c \in RowsOf("commit")' : c.epoch = e
    <2>1. CASE x.class = "commit"
      <3>1. IsCurrentEpoch(x.epoch - 1)
        BY <2>1 DEF Fits, CommitFits
      <3>2. x.epoch # 0
        <4>1. ASSUME x.epoch = 0 PROVE FALSE
          <5>1. PICK c \in RowsOf("commit") : c.epoch = -1
            BY <3>1, <4>1 DEF IsCurrentEpoch
          <5>2. QED
            BY <5>1, RecordFields
        <4>2. QED
          BY <4>1
      <3>3. x.epoch - 1 \in Nat
        BY <3>2, <1>1
      <3>4. \A e \in 1 .. x.epoch - 1 : \E c \in RowsOf("commit") : c.epoch = e
        BY <3>1, <3>3, <1>5
      <3>5. x \in RowsOf("commit")'
        BY <2>1
      <3>6. QED
        BY <3>4, <3>5, <1>1, <1>2
    <2>2. CASE x.class = "welcome"
      <3>1. PICK c \in RowsOf("commit") : c.epoch = x.epoch
        BY <2>2 DEF Fits, WelcomeFits
      <3>2. QED
        BY <3>1, <1>4
    <2>3. CASE x.class = "application"
      <3>1. IsCurrentEpoch(x.epoch)
        BY <2>3 DEF Fits, ApplicationFits
      <3>2. QED
        BY <3>1, <1>1, <1>5, <1>2
    <2>4. QED
      BY <2>1, <2>2, <2>3, RecordFields
  <1>7. ASSUME x.class = "application", NEW g \in 0 .. x.gen
        PROVE  g \in Generations(x.epoch, x.dev)'
    <2>1. IsNextGeneration(x.epoch, x.dev, x.gen)
      BY <1>7 DEF Fits, ApplicationFits
    <2>2. x.gen \in Generations(x.epoch, x.dev)'
      BY <1>7 DEF Generations
    <2>3. CASE g = x.gen
      BY <2>2, <2>3
    <2>4. CASE g # x.gen
      <3>1. x.gen - 1 \in Generations(x.epoch, x.dev) /\ g \in 0 .. x.gen - 1
        BY <2>1, <2>4, <1>1 DEF IsNextGeneration
      <3>2. PICK y \in reserved : /\ y.class = "application" /\ y.epoch = x.epoch
                                  /\ y.dev = x.dev /\ y.gen = x.gen - 1
        BY <3>1 DEF Generations
      <3>3. QED
        BY <3>1, <3>2, <1>4
    <2>5. QED
      BY <2>3, <2>4
  <1>8. QED
    BY <1>4, <1>6, <1>7 DEF NoSlotSkipped

-----------------------------------------------------------------------------
\* Initially nothing is booked and nothing is stored.
LEMMA InitSlotInv == Init => SlotInv
  <1> SUFFICES ASSUME Init PROVE SlotInv
    OBVIOUS
  <1> USE DEF Init, Log!Init, Log!NoMessages
  <1>1. TypeOK
    BY DEF TypeOK
  <1>2. RowsUnique /\ WelcomeHasCommit /\ NoSlotSkipped
    BY DEF RowsUnique, WelcomeHasCommit, RowsOf, NoSlotSkipped
  <1>3. TreeFollowsRows(log) /\ TreeFollowsRows(durable)
    BY DEF TreeFollowsRows
  <1>4. UnderWayIsBooked
    BY DEF UnderWayIsBooked
  <1>5. QED
    BY <1>1, <1>2, <1>3, <1>4 DEF SlotInv

\* Appending to the log adds one entry and keeps the others.
LEMMA AppendKeeps ==
    ASSUME NEW m, NEW p, Log!Append(m, p)
    PROVE  /\ m \notin DOMAIN log
           /\ DOMAIN log' = DOMAIN log \cup {m}
           /\ log'[m] = p
           /\ \A k \in DOMAIN log : log'[k] = log[k]
           /\ durable' = durable
  BY DEF Log!Append

\* A step that leaves the booked rows alone keeps what is said of them.
LEMMA RowsUnchanged ==
    ASSUME SlotInv, reserved' = reserved
    PROVE  RowsUnique' /\ WelcomeHasCommit' /\ NoSlotSkipped'
  BY DEF SlotInv, RowsUnique, WelcomeHasCommit, RowsOf, NoSlotSkipped, Generations

\* Reserve books a slot nobody has, for a record stored nowhere.
LEMMA ReserveKeepsSlotInv ==
    ASSUME SlotInv, NEW r \in Request, NEW x \in Record, Reserve(r, x)
    PROVE  SlotInv'
  <1> USE DEF SlotInv
  <1>1. /\ sending[r] = Idle
        /\ Fits(x)
        /\ reserved' = reserved \cup {x}
        /\ sending' = [sending EXCEPT ![r] = x]
        /\ UNCHANGED <<member, log, durable>>
    BY DEF Reserve
  <1>2. x # Idle
    BY RecordFields
  <1>3. TypeOK'
    BY <1>1 DEF TypeOK
  <1>4. x \notin reserved /\ \A y \in reserved : ~SameSlot(x, y) /\ ~SameSlot(y, x)
    BY <1>1, FitsIsFresh, SameSlotProperties DEF TypeOK
  <1>5. RowsUnique'
    BY <1>1, <1>4 DEF RowsUnique, TypeOK, SameSlot
  <1>6. WelcomeHasCommit'
    <2>1. x.class = "welcome" =>
            \E c \in RowsOf("commit") : c.epoch = x.epoch /\ c.cid = x.cid
      BY <1>1 DEF Fits, WelcomeFits
    <2>2. QED
      BY <1>1, <2>1 DEF WelcomeHasCommit, RowsOf
  <1>7. TreeFollowsRows(log)' /\ TreeFollowsRows(durable)'
    BY <1>1 DEF TreeFollowsRows
  <1>8. UnderWayIsBooked'
    <2> SUFFICES ASSUME NEW q \in Request, sending'[q] # Idle
                 PROVE  /\ sending'[q] \in reserved'
                        /\ \A p \in Request : sending'[p] = sending'[q] => p = q
                        /\ NotStoredIn(sending'[q], log)
                        /\ NotStoredIn(sending'[q], durable)
      BY <1>1 DEF UnderWayIsBooked, NotStoredIn
    <2>1. \A p \in Request : p # r => sending'[p] = sending[p]
      BY <1>1 DEF TypeOK
    <2>2. sending'[r] = x
      BY <1>1 DEF TypeOK
    <2>3. \A p \in Request : p # r => sending'[p] # x
      BY <1>2, <1>4, <2>1 DEF UnderWayIsBooked
    <2>4. NotStoredIn(x, log) /\ NotStoredIn(x, durable)
      BY <1>4 DEF NotStoredIn, TreeFollowsRows
    <2>5. CASE q = r
      BY <1>1, <2>2, <2>3, <2>4, <2>5
    <2>6. CASE q # r
      BY <1>1, <2>1, <2>2, <2>3, <2>6 DEF UnderWayIsBooked
    <2>7. QED
      BY <2>5, <2>6
  <1>9. NoSlotSkipped'
    BY <1>1, FitsLeavesNoGap DEF TypeOK
  <1>10. QED
    BY <1>3, <1>5, <1>6, <1>7, <1>8, <1>9

\* Storing the record of a request moves it from under way to stored.
LEMMA StoreKeepsSlotInv ==
    ASSUME SlotInv, NEW r \in Request, NEW m \in Mid, StoreRecord(r, m)
    PROVE  SlotInv'
  <1> USE DEF SlotInv
  <1> DEFINE e == [rec |-> sending[r], via |-> "send"]
  <1>1. /\ sending[r] # Idle
        /\ Log!Append(m, e)
        /\ sending' = [sending EXCEPT ![r] = Idle]
        /\ UNCHANGED <<reserved, member>>
    BY DEF StoreRecord, Release
  <1>2. /\ DOMAIN log' = DOMAIN log \cup {m}
        /\ m \notin DOMAIN log
        /\ log'[m] = e
        /\ \A k \in DOMAIN log : log'[k] = log[k]
        /\ durable' = durable
    BY <1>1, AppendKeeps
  <1>3. e.rec = sending[r] /\ e.via = "send"
    OBVIOUS
  <1> HIDE DEF e
  <1>4. \A p \in Request : sending'[p] = IF p = r THEN Idle ELSE sending[p]
    BY <1>1 DEF TypeOK
  <1>5. TypeOK'
    <2>1. e \in [rec : Record, via : {"send", "reply"}]
      BY <1>1 DEF TypeOK, e
    <2>2. sending' \in [Request -> Record \cup {Idle}]
      BY <1>1 DEF TypeOK
    <2>3. QED
      BY <1>1, <1>2, <2>1, <2>2 DEF TypeOK
  <1>6. RowsUnique' /\ WelcomeHasCommit' /\ NoSlotSkipped'
    BY <1>1, RowsUnchanged
  <1>7. TreeFollowsRows(log)'
    <2>1. e.rec \in reserved /\ NotStoredIn(e.rec, log)
      BY <1>1, <1>3 DEF UnderWayIsBooked
    <2>2. QED
      BY <1>1, <1>2, <2>1 DEF TreeFollowsRows, NotStoredIn
  <1>8. TreeFollowsRows(durable)'
    BY <1>1, <1>2 DEF TreeFollowsRows
  <1>9. UnderWayIsBooked'
    <2> SUFFICES ASSUME NEW q \in Request, sending'[q] # Idle
                 PROVE  /\ sending'[q] \in reserved'
                        /\ \A p \in Request : sending'[p] = sending'[q] => p = q
                        /\ NotStoredIn(sending'[q], log')
                        /\ NotStoredIn(sending'[q], durable')
      BY DEF UnderWayIsBooked, NotStoredIn
    <2>1. q # r /\ sending'[q] = sending[q] /\ sending[q] # sending[r]
      BY <1>1, <1>4 DEF UnderWayIsBooked
    <2>2. NotStoredIn(sending[q], log')
      BY <1>2, <1>3, <2>1 DEF UnderWayIsBooked, NotStoredIn
    <2>3. QED
      BY <1>1, <1>2, <1>4, <2>1, <2>2 DEF UnderWayIsBooked
  <1>10. QED
    BY <1>5, <1>6, <1>7, <1>8, <1>9

\* A reply adds an entry that is not a sent one.
LEMMA ReplyKeepsSlotInv ==
    ASSUME SlotInv, NEW m \in Mid, NEW x \in Record, NEW d \in Device,
           StoreReply(m, x, d)
    PROVE  SlotInv'
  <1> USE DEF SlotInv
  <1>1. /\ Log!Append(m, [rec |-> x, via |-> "reply"])
        /\ UNCHANGED <<reserved, sending, member>>
    BY DEF StoreReply
  <1>2. /\ DOMAIN log' = DOMAIN log \cup {m}
        /\ log'[m] = [rec |-> x, via |-> "reply"]
        /\ log'[m].via # "send"
        /\ \A k \in DOMAIN log : log'[k] = log[k]
        /\ durable' = durable
    <2> DEFINE e == [rec |-> x, via |-> "reply"]
    <2>1. e.via # "send" /\ Log!Append(m, e)
      BY <1>1
    <2> HIDE DEF e
    <2>2. /\ DOMAIN log' = DOMAIN log \cup {m} /\ log'[m] = e
          /\ \A k \in DOMAIN log : log'[k] = log[k]
          /\ durable' = durable
      BY <2>1, AppendKeeps
    <2> QED
      BY <2>1, <2>2 DEF e
  <1>3. TypeOK'
    BY <1>1, <1>2 DEF TypeOK
  <1>4. RowsUnique' /\ WelcomeHasCommit' /\ NoSlotSkipped'
    BY <1>1, RowsUnchanged
  <1>5. TreeFollowsRows(log)' /\ TreeFollowsRows(durable)'
    BY <1>1, <1>2 DEF TreeFollowsRows
  <1>6. UnderWayIsBooked'
    BY <1>1, <1>2 DEF UnderWayIsBooked, NotStoredIn
  <1>7. QED
    BY <1>3, <1>4, <1>5, <1>6

\* Every step keeps the invariant.
LEMMA NextSlotInv == SlotInv /\ [Next]_vars => SlotInv'
  <1> SUFFICES ASSUME SlotInv, [Next]_vars PROVE SlotInv'
    OBVIOUS
  <1>1. ASSUME NEW r \in Request, NEW x \in Record, Reserve(r, x)
        PROVE  SlotInv'
    BY <1>1, ReserveKeepsSlotInv
  <1>2. ASSUME NEW r \in Request, SendEnds(r)
        PROVE  SlotInv'
    <2>1. /\ sending' = [sending EXCEPT ![r] = Idle]
          /\ UNCHANGED <<reserved, member, log, durable>>
      BY <1>2 DEF SendEnds, Release
    <2>2. \A p \in Request : sending'[p] = IF p = r THEN Idle ELSE sending[p]
      BY <2>1 DEF SlotInv, TypeOK
    <2>3. TypeOK'
      BY <2>1 DEF SlotInv, TypeOK
    <2>4. RowsUnique' /\ WelcomeHasCommit' /\ NoSlotSkipped'
      BY <2>1, RowsUnchanged
    <2>5. TreeFollowsRows(log)' /\ TreeFollowsRows(durable)'
      BY <2>1 DEF SlotInv, TreeFollowsRows
    <2>6. UnderWayIsBooked'
      BY <2>1, <2>2 DEF SlotInv, UnderWayIsBooked, NotStoredIn
    <2>7. QED
      BY <2>3, <2>4, <2>5, <2>6 DEF SlotInv
  <1>3. ASSUME NEW r \in Request, NEW m \in Mid, StoreRecord(r, m)
        PROVE  SlotInv'
    BY <1>3, StoreKeepsSlotInv
  <1>4. ASSUME NEW m \in Mid, NEW x \in Replied, NEW d \in Device, StoreReply(m, x, d)
        PROVE  SlotInv'
    BY <1>4, ReplyKeepsSlotInv, RepliedAssumption
  <1>5. ASSUME NEW s \in SUBSET Device, ChangeMembers(s)
        PROVE  SlotInv'
    BY <1>5 DEF ChangeMembers, SlotInv, TypeOK, RowsUnique, WelcomeHasCommit, RowsOf,
                TreeFollowsRows, UnderWayIsBooked, NotStoredIn, NoSlotSkipped, Generations
  <1>6. CASE BackgroundFlush
    BY <1>6 DEF BackgroundFlush, Log!Persist, SlotInv, TypeOK, RowsUnique, WelcomeHasCommit,
                RowsOf, TreeFollowsRows, UnderWayIsBooked, NotStoredIn, NoSlotSkipped,
                Generations
  <1>7. CASE Crash
    BY <1>7 DEF Crash, Log!Lose, SlotInv, TypeOK, RowsUnique, WelcomeHasCommit, RowsOf,
                TreeFollowsRows, UnderWayIsBooked, NotStoredIn, NoSlotSkipped, Generations
  <1>8. CASE UNCHANGED vars
    BY <1>8 DEF vars, SlotInv, TypeOK, RowsUnique, WelcomeHasCommit, RowsOf,
                TreeFollowsRows, UnderWayIsBooked, NotStoredIn, NoSlotSkipped, Generations
  <1>9. QED
    BY <1>1, <1>2, <1>3, <1>4, <1>5, <1>6, <1>7, <1>8 DEF Next

-----------------------------------------------------------------------------
\* SlotInv holds in every reachable state.
THEOREM SlotInvariant == Spec => []SlotInv
  BY InitSlotInv, NextSlotInv, PTL DEF Spec

\* Every variable keeps its type.
THEOREM SlotTypeCorrect == Spec => []TypeOK
  <1>1. SlotInv => TypeOK
    BY DEF SlotInv
  <1>2. QED
    BY <1>1, SlotInvariant, PTL

\* No slot of the group's order is stored twice by /send: whichever requests
\* reserve_mls_sequence and send_message interleave, whatever crashes.
THEOREM SlotsAreStoredOnce == Spec => []SlotStoredOnce
  <1>1. SlotInv => SlotStoredOnce
    BY DEF SlotInv, SlotStoredOnce, Sent, TreeFollowsRows, RowsUnique
  <1>2. QED
    BY <1>1, SlotInvariant, PTL

\* A record stored by /send was booked, and a welcome names the commit that won.
THEOREM RecordsAreReserved == Spec => []StoredAsReserved
  <1>1. SlotInv => StoredAsReserved
    BY DEF SlotInv, StoredAsReserved, Sent, TreeFollowsRows, WelcomeHasCommit, RowsOf
  <1>2. QED
    BY <1>1, SlotInvariant, PTL

\* Epochs and generations are booked without gaps.
THEOREM SlotsAreContiguous == Spec => []NoSlotSkipped
  <1>1. SlotInv => NoSlotSkipped
    BY DEF SlotInv
  <1>2. QED
    BY <1>1, SlotInvariant, PTL

(***************************************************************************)
(* The delivery service: key packages, the route and the lease, for any    *)
(* number of requests, devices and packages and any clock.                 *)
(***************************************************************************)
\* A package that was handed out is marked, or gone with its device, and its id
\* was used.
GivenIsConsumed ==
    \A p \in Package : given[p] > 0 =>
        p <= lastPackage /\ (p \in DOMAIN package => package[p].consumed)

\* A request whose snapshot holds has a package that nobody else took.
FoundIsFree ==
    \A r \in DeliveryRequest : pc[r] = "consume" =>
        /\ found[r] \in Package /\ found[r] <= lastPackage
        /\ r \in fresh => found[r] \in DOMAIN package /\ ~package[found[r]].consumed

IdsBelowLast == \A p \in DOMAIN package : p <= lastPackage

\* Nobody was answered with another token than the one that is stored, which
\* goes with the group only.
AnsweredIsRoute ==
    /\ \A r \in DeliveryRequest : answer[r] # NoRoute /\ group => answer[r] = route
    /\ ~group => route = NoRoute

\* Who was told of a lease that is not over is the initializer, and what it was
\* told is no longer than what is stored.
ClaimIsLease ==
    /\ now > 0
    /\ \A d \in MlsDevice : claim[d] >= now =>
          d = initializer /\ (~initialized => claim[d] <= lease)

MarkedOnce == marked = IF initialized THEN {initializer} ELSE {}

PackageInv == IdsBelowLast /\ GivenIsConsumed /\ FoundIsFree /\ PackageGivenOnce
RouteInv == AnsweredIsRoute /\ RouteAgreed
LeaseInv == ClaimIsLease /\ MarkedOnce

\* The inductive invariant.
DeliveryInv == DeliveryTypeOK /\ PackageInv /\ RouteInv /\ LeaseInv

-----------------------------------------------------------------------------
\* The invariant is as strong as the two properties.
LEMMA DeliveryInvKept == DeliveryInv => RouteAndPackages /\ LeaseKept
<1> SUFFICES ASSUME DeliveryInv PROVE RouteAndPackages /\ LeaseKept
  OBVIOUS
<1>1. LeaseExclusive
  BY DEF DeliveryInv, LeaseInv, ClaimIsLease, LeaseExclusive
<1>2. SetUpByHolder
  BY DEF DeliveryInv, LeaseInv, ClaimIsLease, MarkedOnce, SetUpByHolder
<1> QED
  BY <1>1, <1>2 DEF DeliveryInv, PackageInv, RouteInv, RouteAndPackages, LeaseKept

\* Initially the tables are empty.
LEMMA DeliveryInitInv == DeliveryInit => DeliveryInv
<1> SUFFICES ASSUME DeliveryInit PROVE DeliveryInv
  OBVIOUS
<1> USE DEF DeliveryInit
<1>1. DeliveryTypeOK
  BY DEF DeliveryTypeOK
<1>2. PackageInv
  BY DEF PackageInv, IdsBelowLast, GivenIsConsumed, FoundIsFree, PackageGivenOnce
<1>3. RouteInv
  BY DEF RouteInv, AnsweredIsRoute, RouteAgreed
<1>4. LeaseInv
  BY DEF LeaseInv, ClaimIsLease, MarkedOnce
<1> QED
  BY <1>1, <1>2, <1>3, <1>4 DEF DeliveryInv

\* What a step keeps that does not touch the packages.
LEMMA PackagesStay ==
    ASSUME PackageInv, UNCHANGED <<package, lastPackage, given, found>>, fresh' \subseteq fresh,
           \A r \in DeliveryRequest : pc'[r] = "consume" => pc[r] = "consume"
    PROVE  PackageInv'
BY DEF PackageInv, IdsBelowLast, GivenIsConsumed, FoundIsFree, PackageGivenOnce

\* What a step keeps that does not touch the route.
LEMMA RouteStays == ASSUME RouteInv, UNCHANGED <<routeVars, group>> PROVE RouteInv'
BY DEF routeVars, RouteInv, AnsweredIsRoute, RouteAgreed

\* What a step keeps that does not touch the lease.
LEMMA LeaseStays == ASSUME LeaseInv, UNCHANGED <<leaseVars, now>> PROVE LeaseInv'
BY DEF leaseVars, LeaseInv, ClaimIsLease, MarkedOnce

\* A device is registered.
LEMMA PutCredentialInv ==
    ASSUME DeliveryInv, NEW d \in MlsDevice, PutCredential(d) PROVE DeliveryInv'
<1> USE DEF DeliveryInv, PutCredential, Written
<1>1. DeliveryTypeOK'
  BY DEF DeliveryTypeOK, routeVars, leaseVars, worldVars
<1>2. PackageInv'
  BY PackagesStay
<1>3. RouteInv' /\ LeaseInv'
  BY RouteStays, LeaseStays DEF worldVars
<1> QED
  BY <1>1, <1>2, <1>3

\* A package is published, under an id that was not used.
LEMMA PublishInv ==
    ASSUME DeliveryInv, NEW d \in MlsDevice, NEW p \in Package, PublishKeyPackage(d, p)
    PROVE  DeliveryInv'
<1> USE DEF DeliveryInv, PublishKeyPackage, Written
<1>1. /\ DOMAIN package' = DOMAIN package \cup {p}
      /\ package'[p] = [dev |-> d, consumed |-> FALSE]
      /\ \A q \in DOMAIN package : q # p => package'[q] = package[q]
  OBVIOUS
<1>2. DeliveryTypeOK'
  BY <1>1 DEF DeliveryTypeOK, routeVars, leaseVars, worldVars
<1>3. p \in Nat /\ lastPackage \in Nat /\ lastPackage' = p /\ lastPackage < p
  BY PackageAssumption DEF DeliveryTypeOK
<1>4. PackageInv'
  <2>1. IdsBelowLast'
    <3> SUFFICES ASSUME NEW q \in DOMAIN package \cup {p} PROVE q <= p
      BY <1>1, <1>3 DEF IdsBelowLast
    <3>1. CASE q # p
      <4>1. q <= lastPackage /\ q \in Package
        BY <3>1 DEF PackageInv, IdsBelowLast, DeliveryTypeOK
      <4>2. q \in Nat
        BY <4>1, PackageAssumption
      <4> HIDE DEF DeliveryInv, PublishKeyPackage
      <4> QED
        BY <4>1, <4>2, <1>3
    <3> QED
      BY <3>1, <1>3
  <2>2. GivenIsConsumed'
    BY <1>1, <1>3, PackageAssumption DEF PackageInv, GivenIsConsumed
  <2>3. FoundIsFree'
    <3> SUFFICES ASSUME NEW r \in DeliveryRequest, pc[r] = "consume"
                 PROVE  found[r] \in Package /\ found[r] <= p
      BY <1>3 DEF FoundIsFree
    <3>1. found[r] \in Package /\ found[r] <= lastPackage
      BY DEF PackageInv, FoundIsFree
    <3>2. found[r] \in Nat
      BY <3>1, PackageAssumption
    <3> HIDE DEF DeliveryInv, PublishKeyPackage
    <3> QED
      BY <3>1, <3>2, <1>3
  <2>4. PackageGivenOnce'
    BY DEF PackageInv, PackageGivenOnce
  <2> QED
    BY <2>1, <2>2, <2>3, <2>4 DEF PackageInv
<1>5. RouteInv' /\ LeaseInv'
  BY RouteStays, LeaseStays DEF worldVars
<1> QED
  BY <1>2, <1>4, <1>5

\* A request reads the oldest free package of a device.
LEMMA ReadKeyPackageInv ==
    ASSUME DeliveryInv, NEW r \in DeliveryRequest, NEW d \in MlsDevice, ReadKeyPackage(r, d)
    PROVE  DeliveryInv'
<1> USE DEF DeliveryInv, ReadKeyPackage, GoTo
<1>1. PICK p \in DOMAIN package : FirstUnconsumed(d, p) /\ found' = [found EXCEPT ![r] = p]
  OBVIOUS
<1>2. p \in Package /\ ~package[p].consumed
  BY <1>1 DEF FirstUnconsumed, DeliveryTypeOK
<1>3. DeliveryTypeOK'
  BY <1>1, <1>2 DEF DeliveryTypeOK, routeVars, leaseVars, worldVars
<1>4. PackageInv'
  BY <1>1, <1>2
  DEF PackageInv, IdsBelowLast, GivenIsConsumed, FoundIsFree, PackageGivenOnce, DeliveryTypeOK
<1>5. RouteInv' /\ LeaseInv'
  BY RouteStays, LeaseStays DEF worldVars
<1> QED
  BY <1>3, <1>4, <1>5

\* It takes the package in the snapshot in which it read it: nobody else has.
LEMMA ConsumeInv ==
    ASSUME DeliveryInv, NEW r \in DeliveryRequest, ConsumeKeyPackage(r) PROVE DeliveryInv'
<1> USE DEF DeliveryInv, ConsumeKeyPackage, Written, GoTo
<1> DEFINE p == found[r]
<1>1. /\ p \in Package /\ p <= lastPackage /\ p \in DOMAIN package /\ ~package[p].consumed
  BY DEF PackageInv, FoundIsFree
<1>2. /\ DOMAIN package' = DOMAIN package /\ package'[p].consumed
      /\ DOMAIN package'[p] = {"dev", "consumed"} /\ package'[p].dev = package[p].dev
      /\ \A q \in DOMAIN package : q # p => package'[q] = package[q]
  BY <1>1 DEF DeliveryTypeOK
<1>3. given[p] = 0
  BY <1>1 DEF PackageInv, GivenIsConsumed, DeliveryTypeOK
<1>4. given' \in [Package -> Nat] /\ given'[p] = 1
      /\ \A q \in Package : q # p => given'[q] = given[q]
  BY <1>1, <1>3 DEF DeliveryTypeOK
<1>5. DeliveryTypeOK'
  BY <1>1, <1>2, <1>4 DEF DeliveryTypeOK, routeVars, leaseVars, worldVars
<1>6. PackageInv'
  <2>1. IdsBelowLast' /\ PackageGivenOnce'
    BY <1>1, <1>2, <1>4 DEF PackageInv, IdsBelowLast, PackageGivenOnce
  <2>2. GivenIsConsumed'
    BY <1>1, <1>2, <1>4 DEF PackageInv, GivenIsConsumed
  <2>3. FoundIsFree'
    BY <1>1 DEF PackageInv, FoundIsFree, DeliveryTypeOK
  <2> QED
    BY <2>1, <2>2, <2>3 DEF PackageInv
<1>7. RouteInv' /\ LeaseInv'
  BY RouteStays, LeaseStays DEF worldVars
<1> QED
  BY <1>5, <1>6, <1>7

\* Somebody has written in between, and it fails.
LEMMA ConsumeFailsInv ==
    ASSUME DeliveryInv, NEW r \in DeliveryRequest, ConsumeFails(r) PROVE DeliveryInv'
<1> USE DEF DeliveryInv, ConsumeFails, GoTo
<1>1. DeliveryTypeOK'
  BY DEF DeliveryTypeOK, routeVars, leaseVars, worldVars
<1>2. PackageInv'
  BY DEF PackageInv, IdsBelowLast, GivenIsConsumed, FoundIsFree, PackageGivenOnce, DeliveryTypeOK
<1>3. RouteInv' /\ LeaseInv'
  BY RouteStays, LeaseStays DEF worldVars
<1> QED
  BY <1>1, <1>2, <1>3

-----------------------------------------------------------------------------
\* The three statements of a request for the route.
LEMMA FindRouteInv ==
    ASSUME DeliveryInv, NEW r \in DeliveryRequest, NEW d \in MlsDevice, FindRoute(r, d)
    PROVE  DeliveryInv'
<1> USE DEF DeliveryInv, FindRoute, GoTo
<1>1. DeliveryTypeOK'
  BY DEF DeliveryTypeOK, packageVars, leaseVars, worldVars
<1>2. PackageInv'
  BY PackagesStay DEF packageVars, DeliveryTypeOK
<1>3. RouteInv'
  BY NoneAssumption DEF RouteInv, AnsweredIsRoute, RouteAgreed, DeliveryTypeOK, worldVars
<1>4. LeaseInv'
  BY LeaseStays DEF worldVars
<1> QED
  BY <1>1, <1>2, <1>3, <1>4

\* The token that is there stays: it is the one of all answers.
LEMMA InsertRouteInv ==
    ASSUME DeliveryInv, NEW r \in DeliveryRequest, InsertRoute(r) PROVE DeliveryInv'
<1> USE DEF DeliveryInv, InsertRoute, Written, GoTo
<1>1. DeliveryTypeOK'
  BY DEF DeliveryTypeOK, packageVars, leaseVars, worldVars
<1>2. PackageInv'
  BY PackagesStay DEF packageVars, DeliveryTypeOK
<1>3. RouteInv'
  BY NoneAssumption DEF RouteInv, AnsweredIsRoute, RouteAgreed, DeliveryTypeOK, worldVars
<1>4. LeaseInv'
  BY LeaseStays DEF worldVars
<1> QED
  BY <1>1, <1>2, <1>3, <1>4

\* What is there is the answer.
LEMMA RereadRouteInv ==
    ASSUME DeliveryInv, NEW r \in DeliveryRequest, RereadRoute(r) PROVE DeliveryInv'
<1> USE DEF DeliveryInv, RereadRoute, GoTo
<1>1. DeliveryTypeOK'
  BY DEF DeliveryTypeOK, packageVars, leaseVars, worldVars
<1>2. PackageInv'
  BY PackagesStay DEF packageVars, DeliveryTypeOK
<1>3. RouteInv'
  BY NoneAssumption DEF RouteInv, AnsweredIsRoute, RouteAgreed, DeliveryTypeOK, worldVars
<1>4. LeaseInv'
  BY LeaseStays DEF worldVars
<1> QED
  BY <1>1, <1>2, <1>3, <1>4

-----------------------------------------------------------------------------
\* A lease is given when no other one is running.
LEMMA ClaimInv ==
    ASSUME DeliveryInv, NEW d \in MlsDevice, ClaimInitialization(d) PROVE DeliveryInv'
<1> USE DEF DeliveryInv, ClaimInitialization, Written
<1>1. DeliveryTypeOK /\ lease \in Nat /\ now \in Nat /\ claim \in [MlsDevice -> Nat]
  BY DEF DeliveryTypeOK
<1>2. DeliveryTypeOK'
  BY LeaseAssumption DEF DeliveryTypeOK, packageVars, routeVars, worldVars
<1>3. PackageInv' /\ RouteInv'
  BY PackagesStay, RouteStays DEF packageVars, worldVars
<1>4. CASE ~initialized /\ MayClaim(d)
  <2>1. /\ initializer' = d /\ lease' = now + LeaseTime /\ ~initialized'
        /\ claim' = [claim EXCEPT ![d] = now + LeaseTime] /\ now' = now /\ marked' = marked
    BY <1>4 DEF worldVars
  <2>2. \A e \in MlsDevice \ {d} : ~(claim[e] >= now)
    BY <1>1, <1>4, NoneAssumption DEF MayClaim, LeaseInv, ClaimIsLease
  <2>3. \A e \in MlsDevice \ {d} : claim'[e] = claim[e]
    BY <1>1, <2>1
  <2>4. claim'[d] = lease' /\ lease' \in Nat
    BY <1>1, <2>1, LeaseAssumption
  <2>5. ClaimIsLease'
    BY <1>1, <2>1, <2>2, <2>3, <2>4 DEF LeaseInv, ClaimIsLease
  <2>6. MarkedOnce'
    BY <1>4, <2>1 DEF LeaseInv, MarkedOnce
  <2> QED
    BY <1>2, <1>3, <2>5, <2>6 DEF LeaseInv
<1>5. CASE ~(~initialized /\ MayClaim(d))
  <2>1. /\ claim' = [claim EXCEPT ![d] = 0] /\ now' = now /\ marked' = marked
        /\ initializer' = initializer /\ lease' = lease /\ initialized' = initialized
    BY <1>5 DEF worldVars
  <2>2. LeaseInv'
    BY <1>1, <2>1 DEF LeaseInv, ClaimIsLease, MarkedOnce
  <2> QED
    BY <1>2, <1>3, <2>2
<1> QED
  BY <1>4, <1>5

\* The group is set up by the initializer, once.
LEMMA MarkInv ==
    ASSUME DeliveryInv, NEW d \in MlsDevice, MarkInitialized(d) PROVE DeliveryInv'
<1> USE DEF DeliveryInv, MarkInitialized, Written
<1>1. DeliveryTypeOK'
  BY DEF DeliveryTypeOK, packageVars, routeVars, worldVars
<1>2. PackageInv' /\ RouteInv'
  BY PackagesStay, RouteStays DEF packageVars, worldVars
<1>3. LeaseInv'
  BY DEF LeaseInv, ClaimIsLease, MarkedOnce, worldVars
<1> QED
  BY <1>1, <1>2, <1>3

-----------------------------------------------------------------------------
\* Time passes.
LEMMA TickInv == ASSUME DeliveryInv, Tick PROVE DeliveryInv'
<1> USE DEF DeliveryInv, Tick
<1>1. DeliveryTypeOK'
  BY DEF DeliveryTypeOK, packageVars, routeVars, leaseVars
<1>2. PackageInv' /\ RouteInv'
  BY PackagesStay, RouteStays DEF packageVars
<1>3. LeaseInv'
  BY DEF LeaseInv, ClaimIsLease, MarkedOnce, leaseVars, DeliveryTypeOK
<1> QED
  BY <1>1, <1>2, <1>3

\* The members of the group change.
LEMMA ChangeAllowedInv ==
    ASSUME DeliveryInv, NEW s \in SUBSET alive, ChangeAllowed(s) PROVE DeliveryInv'
<1> USE DEF DeliveryInv, ChangeAllowed, Written
<1>1. DeliveryTypeOK'
  BY DEF DeliveryTypeOK, packageVars, routeVars, leaseVars
<1>2. PackageInv' /\ RouteInv' /\ LeaseInv'
  BY PackagesStay, RouteStays, LeaseStays DEF packageVars
<1> QED
  BY <1>1, <1>2

\* A user is deleted, with the devices and their packages.
LEMMA DeleteUserInv ==
    ASSUME DeliveryInv, NEW d \in MlsDevice, DeleteUser(d) PROVE DeliveryInv'
<1> USE DEF DeliveryInv, DeleteUser, Written
<1>1. /\ DOMAIN package' \subseteq DOMAIN package
      /\ \A p \in DOMAIN package' : package'[p] = package[p] /\ package[p].dev # d
  OBVIOUS
<1>2. DeliveryTypeOK'
  BY <1>1 DEF DeliveryTypeOK, routeVars, leaseVars
<1>3. PackageInv'
  BY <1>1 DEF PackageInv, IdsBelowLast, GivenIsConsumed, FoundIsFree, PackageGivenOnce
<1>4. RouteInv' /\ LeaseInv'
  BY RouteStays, LeaseStays
<1> QED
  BY <1>2, <1>3, <1>4

\* The group is deleted, with its route and its lease.
LEMMA DeleteGroupInv == ASSUME DeliveryInv, DeleteGroup PROVE DeliveryInv'
<1> USE DEF DeliveryInv, DeleteGroup, Written
<1>1. DeliveryTypeOK'
  BY DEF DeliveryTypeOK, packageVars
<1>2. PackageInv'
  BY PackagesStay DEF packageVars
<1>3. RouteInv'
  BY DEF RouteInv, AnsweredIsRoute, RouteAgreed
<1>4. LeaseInv'
  BY DEF LeaseInv, ClaimIsLease, MarkedOnce, DeliveryTypeOK
<1> QED
  BY <1>1, <1>2, <1>3, <1>4

\* Every step keeps the invariant.
LEMMA DeliveryNextInv == ASSUME DeliveryInv, [DeliveryNext]_deliveryVars PROVE DeliveryInv'
<1>1. CASE UNCHANGED deliveryVars
  <2>1. UNCHANGED <<packageVars, routeVars, leaseVars, worldVars, pc, fresh>>
    BY <1>1 DEF deliveryVars
  <2>2. DeliveryTypeOK'
    BY <2>1 DEF DeliveryInv, DeliveryTypeOK, packageVars, routeVars, leaseVars, worldVars
  <2> QED
    BY <2>1, <2>2, PackagesStay, RouteStays, LeaseStays DEF DeliveryInv, packageVars, worldVars
<1>2. CASE DeliveryNext
  BY <1>2, PutCredentialInv, PublishInv, ReadKeyPackageInv, ConsumeInv, ConsumeFailsInv,
     FindRouteInv, InsertRouteInv, RereadRouteInv, ClaimInv, MarkInv, TickInv,
     ChangeAllowedInv, DeleteUserInv, DeleteGroupInv
  DEF DeliveryNext
<1> QED
  BY <1>1, <1>2

\* The inductive invariant holds in every state.
LEMMA DeliveryInvariant == DeliverySpec => []DeliveryInv
BY DeliveryInitInv, DeliveryNextInv, PTL DEF DeliverySpec

\* However many requests read a key package and mark it in two statements, it is
\* handed to one of them; and however many make up a token of their own for a
\* group, all are answered with one (consume_key_package, route_for_group).
THEOREM PackagesAndRouteKept == DeliverySpec => []RouteAndPackages
BY DeliveryInvariant, DeliveryInvKept, PTL

\* No two devices believe that they may set the group up, and it is set up once,
\* by the one that has the lease or had it last, with the lease running out, users
\* and the group deleted in between (claim_initialization, mark_initialized).
THEOREM LeaseIsKept == DeliverySpec => []LeaseKept
BY DeliveryInvariant, DeliveryInvKept, PTL

-----------------------------------------------------------------------------
(***************************************************************************)
(* MessagesStayReadable of Ratchet, for any MaxSkip and number of messages.*)
(*                                                                         *)
(* The keys of the two parties alternate: Bob's signed prekey, Alice's     *)
(* first key, Bob's next, and so on.  The place of its own key so says     *)
(* what keys a session is made of, and RatchetInv adds which messages it   *)
(* has gone over: it has read them or put their keys aside.                *)
(***************************************************************************)
DhKey == [of : Party, made : Nat]

\* The place of a key among those of both.
Place(k) == 2 * k.made + (IF k.of = "alice" THEN 1 ELSE 0)

\* The root key of a place: all agreements of neighbours up to it.
RootAt(t) ==
    [j \in 1 .. t |-> {k \in [of : Party, made : 0 .. j] : Place(k) = j - 1 \/ Place(k) = j}]

DhOf(p, i) == [of |-> p, made |-> i]

\* The other's keys that come before and after one's own.
Heard(p, i) == IF p = "alice" THEN DhOf("bob", i)
               ELSE IF i = 0 THEN NoKey ELSE DhOf("alice", i - 1)
Answer(p, i) == IF p = "alice" THEN DhOf("bob", i + 1) ELSE DhOf("alice", i)

\* A session is its own key, three counters, and the keys it has put aside.
SessionAt(p, i, ns, nr, pn, aside) ==
    [dhs |-> DhOf(p, i), dhr |-> Heard(p, i), rk |-> RootAt(Place(DhOf(p, i))),
     cks |-> [root |-> RootAt(Place(DhOf(p, i))), at |-> ns],
     ckr |-> [root |-> RootAt(Place(DhOf(p, i)) - 1), at |-> nr],
     ns |-> ns, nr |-> nr, pn |-> pn, skipped |-> aside]

MessageAt(p, no, i, pn, n, initial) ==
    [from |-> p, no |-> no, header |-> [dh |-> DhOf(p, i), pn |-> pn, n |-> n],
     key |-> [root |-> RootAt(Place(DhOf(p, i))), at |-> n], initial |-> initial]

\* The key that is put aside for a message.
AsideKey(m) == [dh |-> m.header.dh, n |-> m.header.n, key |-> m.key]

\* Of a key's chain, exactly the messages with a number below n were sent.
Whole(k, n) ==
    /\ \A m \in wire : m.header.dh = k => m.header.n < n
    /\ \A j \in 0 .. n - 1 : \E m \in wire : m.header.dh = k /\ m.header.n = j

\* The chain of the key before had n messages.
BeforeWhole(p, i, n) == IF i = 0 THEN n = 0 ELSE Whole(DhOf(p, i - 1), n)

PlaceOf(p) == IF session[p] = NoSession THEN 0 ELSE Place(session[p].dhs)

\* A session of a party, where the turns of the ratchet put it.
InTurn(p, s) ==
    /\ s.dhs.made \in Nat /\ s.ns \in Nat /\ s.nr \in Nat /\ s.pn \in Nat
    /\ s = SessionAt(p, s.dhs.made, s.ns, s.nr, s.pn, s.skipped)

SessionsInTurn ==
    /\ DOMAIN session = Party
    /\ \A p \in Party : session[p] # NoSession =>
        InTurn(p, session[p]) /\ (p = "bob" => session[p].dhs.made > 0)
    /\ PlaceOf("alice") <= PlaceOf("bob") + 1 /\ PlaceOf("bob") <= PlaceOf("alice") + 1

\* A chain is sent from its first message on, and a header tells how long the
\* chain before it was.
ChainsAreWhole ==
    \A p \in Party : session[p] # NoSession =>
        /\ Whole(session[p].dhs, session[p].ns)
        /\ BeforeWhole(p, session[p].dhs.made, session[p].pn)

MessageOK(m) ==
    LET p == m.from
        i == m.header.dh.made IN
    /\ p \in Party /\ i \in Nat /\ m.header.pn \in Nat /\ m.header.n \in Nat
    /\ m = MessageAt(p, m.no, i, m.header.pn, m.header.n, m.initial)
    /\ p = "bob" => i > 0
    /\ session[p] # NoSession /\ i <= session[p].dhs.made
    /\ BeforeWhole(p, i, m.header.pn)

MessagesInTurn ==
    /\ \A m \in wire : MessageOK(m)
    /\ \A m, o \in wire : m.header.dh = o.header.dh /\ m.header.n = o.header.n => m = o

\* The receiver has gone over the message.
Passed(s, m) ==
    /\ Place(m.header.dh) < Place(s.dhs)
    /\ m.header.dh = s.dhr => m.header.n < s.nr

Unread(p) == {m \in wire \ opened[p] : m.from = Other(p)}

\* What a receiver has gone over it has read or put aside, and nothing else.
Reads(p, s) ==
    /\ opened[p] \subseteq {m \in wire : m.from = Other(p)}
    /\ \A m \in opened[p] : Passed(s, m)
    /\ IF Place(s.dhs) <= 1 THEN s.nr = 0
       ELSE \E m \in opened[p] : m.header.dh = s.dhr /\ m.header.n + 1 = s.nr
    /\ s.skipped = {AsideKey(m) : m \in {o \in Unread(p) : Passed(s, o)}}

ReadOrAside ==
    /\ DOMAIN opened = Party /\ repeated = FALSE
    /\ \A p \in Party : IF session[p] = NoSession THEN opened[p] = {} ELSE Reads(p, session[p])

\* The inductive invariant.
RatchetInv == SessionsInTurn /\ ChainsAreWhole /\ MessagesInTurn /\ ReadOrAside

-----------------------------------------------------------------------------
\* Every party has one other.
LEMMA Parties ==
    /\ Other("alice") = "bob" /\ Other("bob") = "alice"
    /\ \A p \in Party : Other(p) \in Party /\ Other(p) # p /\ Other(Other(p)) = p
BY DEF Other, Party

\* A key is its owner and its number.
LEMMA DhFacts ==
    ASSUME NEW p \in Party, NEW i \in Nat
    PROVE  /\ DhOf(p, i) \in DhKey /\ DhOf(p, i).of = p /\ DhOf(p, i).made = i
           /\ DhOf(p, i) # NoKey
           /\ Place(DhOf(p, i)) \in Nat
           /\ Place(DhOf(p, i)) = (IF p = "alice" THEN 2 * i + 1 ELSE 2 * i)
           /\ p = "bob" => Place(DhOf(p, i)) = 2 * i
BY DEF DhOf, DhKey, Place, NoKey, Party

\* No two keys have one place.
LEMMA PlaceIsKey ==
    ASSUME NEW p \in Party, NEW i \in Nat, NEW q \in Party, NEW j \in Nat,
           Place(DhOf(p, i)) = Place(DhOf(q, j))
    PROVE  p = q /\ i = j
<1>1. /\ Place(DhOf(p, i)) = (IF p = "alice" THEN 2 * i + 1 ELSE 2 * i)
      /\ Place(DhOf(q, j)) = (IF q = "alice" THEN 2 * j + 1 ELSE 2 * j)
  BY DhFacts
<1>2. (IF p = "alice" THEN 2 * i + 1 ELSE 2 * i) = (IF q = "alice" THEN 2 * j + 1 ELSE 2 * j)
  BY <1>1
<1>3. (p = "alice" \/ p = "bob") /\ (q = "alice" \/ q = "bob")
  BY DEF Party
<1> QED BY <1>2, <1>3

\* The keys before and after a key have the places before and after it.
LEMMA HeardFacts ==
    ASSUME NEW p \in Party, NEW i \in Nat
    PROVE  /\ Answer(p, i) \in DhKey /\ Place(Answer(p, i)) = Place(DhOf(p, i)) + 1
           /\ Answer(p, i) = DhOf(Other(p), Answer(p, i).made) /\ Answer(p, i).made \in Nat
           /\ Heard(p, i + 1) = Answer(p, i)
           /\ Place(DhOf(p, i + 1)) = Place(DhOf(p, i)) + 2
           /\ Place(DhOf(p, i)) >= 1 =>
                /\ Heard(p, i) \in DhKey /\ Place(Heard(p, i)) = Place(DhOf(p, i)) - 1
                /\ Heard(p, i).made \in Nat
                /\ Heard(p, i) = DhOf(Other(p), Heard(p, i).made)
           /\ Place(DhOf(p, i)) = 0 => Heard(p, i) = NoKey
           /\ Answer(p, i).made > 0 =>
                /\ Place(DhOf(p, i)) >= 1
                /\ Heard(p, i) = DhOf(Other(p), Answer(p, i).made - 1)
           /\ Answer(p, i).made = 0 => Place(DhOf(p, i)) = 0
<1>1. CASE p = "alice"
  BY <1>1, Parties, DhFacts DEF Answer, Heard, DhOf, DhKey, Place, Party
<1>2. CASE p = "bob"
  BY <1>2, Parties, DhFacts DEF Answer, Heard, DhOf, DhKey, Place, Party
<1> QED BY <1>1, <1>2 DEF Party

\* A root key is as long as its place, and so tells it.
LEMMA RootFacts ==
    ASSUME NEW t \in Int
    PROVE  /\ RootAt(t) \in Seq(SUBSET DhKey) \/ t < 0
           /\ t >= 0 => Len(RootAt(t)) = t
           /\ t <= 0 => RootAt(t) = <<>>
           /\ t >= 1 => RootAt(t) # <<>>
           /\ \A u \in Nat : t >= 0 /\ RootAt(u) = RootAt(t) => u = t
<1>1. ASSUME t <= 0 PROVE RootAt(t) = <<>>
  <2>1. 1 .. t = {}
    BY <1>1
  <2> QED BY <2>1 DEF RootAt
<1>2. ASSUME NEW u \in Nat PROVE RootAt(u) \in Seq(SUBSET DhKey) /\ Len(RootAt(u)) = u
  <2>1. ASSUME NEW j \in 1 .. u PROVE RootAt(u)[j] \in SUBSET DhKey
    BY <2>1 DEF RootAt, DhKey
  <2>2. RootAt(u) \in [1 .. u -> SUBSET DhKey]
    BY <2>1 DEF RootAt
  <2> QED BY <2>2
<1>3. t >= 0 => t \in Nat
  OBVIOUS
<1>4. t >= 1 => RootAt(t) # <<>>
  <2>1. Len(<<>>) = 0
    OBVIOUS
  <2> QED BY <1>2, <1>3, <2>1
<1> QED BY <1>1, <1>2, <1>3, <1>4

\* The next agreement gives the next root key.
LEMMA RootAppend ==
    ASSUME NEW k \in DhKey, NEW l \in DhKey, NEW t \in Nat, Place(k) = t, Place(l) = t + 1
    PROVE  Append(RootAt(t), {k, l}) = RootAt(t + 1) /\ Append(RootAt(t), {l, k}) = RootAt(t + 1)
<1>1. RootAt(t) \in Seq(SUBSET DhKey) /\ Len(RootAt(t)) = t
  BY RootFacts
<1>2. RootAt(t + 1) \in Seq(SUBSET DhKey) /\ Len(RootAt(t + 1)) = t + 1
  BY RootFacts
<1>3. \A j \in 1 .. t : RootAt(t + 1)[j] = RootAt(t)[j]
  BY DEF RootAt
<1>4. RootAt(t + 1)[t + 1] = {k, l}
  <2> DEFINE both == {d \in [of : Party, made : 0 .. t + 1] :
                         Place(d) = t + 1 - 1 \/ Place(d) = t + 1}
  <2>1. RootAt(t + 1)[t + 1] = both
    BY DEF RootAt
  <2>2. k.made \in 0 .. t + 1 /\ l.made \in 0 .. t + 1
    BY DEF Place, DhKey
  <2>3. k \in both /\ l \in both
    BY <2>2 DEF DhKey
  <2>4. ASSUME NEW d \in both PROVE d = k \/ d = l
    <3>1. /\ d \in DhKey /\ d.of \in Party /\ d.made \in Nat /\ d = DhOf(d.of, d.made)
          /\ k.of \in Party /\ k.made \in Nat /\ k = DhOf(k.of, k.made)
          /\ l.of \in Party /\ l.made \in Nat /\ l = DhOf(l.of, l.made)
      BY DEF DhKey, DhOf
    <3>2. CASE Place(d) = t
      BY <3>1, <3>2, PlaceIsKey
    <3>3. CASE Place(d) = t + 1
      BY <3>1, <3>3, PlaceIsKey
    <3> QED BY <2>4, <3>2, <3>3
  <2> HIDE DEF both
  <2> QED BY <2>1, <2>3, <2>4
<1>5. ASSUME NEW x \in SUBSET DhKey, x = {k, l} PROVE Append(RootAt(t), x) = RootAt(t + 1)
  <2>1. /\ Append(RootAt(t), x) \in Seq(SUBSET DhKey) /\ Len(Append(RootAt(t), x)) = t + 1
        /\ \A j \in 1 .. t : Append(RootAt(t), x)[j] = RootAt(t)[j]
        /\ Append(RootAt(t), x)[t + 1] = x
    BY <1>1
  <2>2. \A j \in 1 .. t + 1 : Append(RootAt(t), x)[j] = RootAt(t + 1)[j]
    <3>1. \A j \in 1 .. t + 1 : j \in 1 .. t \/ j = t + 1
      OBVIOUS
    <3> QED BY <1>3, <1>4, <1>5, <2>1, <3>1
  <2> QED BY <1>2, <2>1, <2>2
<1>6. {k, l} \in SUBSET DhKey /\ {k, l} = {l, k}
  OBVIOUS
<1> QED BY <1>5, <1>6

-----------------------------------------------------------------------------
\* What a session is made of.
LEMMA SessionFields ==
    ASSUME NEW p \in Party, NEW s, InTurn(p, s)
    PROVE  /\ s.dhs.made \in Nat /\ s.ns \in Nat /\ s.nr \in Nat /\ s.pn \in Nat
           /\ s = SessionAt(p, s.dhs.made, s.ns, s.nr, s.pn, s.skipped)
           /\ s.dhs = DhOf(p, s.dhs.made) /\ s.dhr = Heard(p, s.dhs.made)
           /\ s.rk = RootAt(Place(s.dhs)) /\ s.cks = [root |-> RootAt(Place(s.dhs)), at |-> s.ns]
           /\ s.ckr = [root |-> RootAt(Place(s.dhs) - 1), at |-> s.nr]
           /\ Place(s.dhs) \in Nat
           /\ s # NoSession
<1> DEFINE i == s.dhs.made
<1>1. /\ i \in Nat /\ s.ns \in Nat /\ s.nr \in Nat /\ s.pn \in Nat
      /\ s = SessionAt(p, i, s.ns, s.nr, s.pn, s.skipped)
  BY DEF InTurn
<1>2. /\ s.dhs = DhOf(p, i) /\ s.dhr = Heard(p, i) /\ s.rk = RootAt(Place(DhOf(p, i)))
      /\ s.cks = [root |-> RootAt(Place(DhOf(p, i))), at |-> s.ns]
      /\ s.ckr = [root |-> RootAt(Place(DhOf(p, i)) - 1), at |-> s.nr]
  <2> DEFINE t == SessionAt(p, i, s.ns, s.nr, s.pn, s.skipped)
  <2>1. /\ t.dhs = DhOf(p, i) /\ t.dhr = Heard(p, i) /\ t.rk = RootAt(Place(DhOf(p, i)))
        /\ t.cks = [root |-> RootAt(Place(DhOf(p, i))), at |-> s.ns]
        /\ t.ckr = [root |-> RootAt(Place(DhOf(p, i)) - 1), at |-> s.nr]
    BY DEF SessionAt
  <2> QED BY <1>1, <2>1
<1>3. DhOf(p, i) # NoKey /\ Place(DhOf(p, i)) \in Nat
  BY <1>1, DhFacts
<1>4. NoSession.dhs = NoKey
  BY DEF NoSession, Session
<1> HIDE DEF i
<1>5. s # NoSession
  BY <1>2, <1>3, <1>4
<1> QED BY <1>1, <1>2, <1>3, <1>5 DEF i

\* What a session at a place is made of.
LEMMA SessionAtFields ==
    ASSUME NEW p \in Party, NEW i \in Nat, NEW ns \in Nat, NEW nr \in Nat, NEW pn \in Nat,
           NEW aside, NEW s, s = SessionAt(p, i, ns, nr, pn, aside)
    PROVE  /\ InTurn(p, s)
           /\ s.dhs = DhOf(p, i) /\ s.dhs.made = i /\ s.ns = ns /\ s.nr = nr /\ s.pn = pn
           /\ s.skipped = aside /\ s.dhr = Heard(p, i)
<1>1. /\ s.dhs = DhOf(p, i) /\ s.ns = ns /\ s.nr = nr /\ s.pn = pn
      /\ s.skipped = aside /\ s.dhr = Heard(p, i)
  BY DEF SessionAt
<1>2. s.dhs.made = i
  BY <1>1, DhFacts
<1> QED BY <1>1, <1>2 DEF InTurn

\* The keys of the numbers from m to below n, of the chain of a key.
KeysFrom(k, m, n) ==
    {[dh |-> k, n |-> j, key |-> [root |-> RootAt(Place(k)), at |-> j]] : j \in m .. n - 1}

\* The fields that change when a receiver goes ahead.
AheadTo(s, more, ahead, until) == [s EXCEPT !.skipped = more, !.ckr = ahead, !.nr = until]

\* So changed, a session stays at its place.
LEMMA AheadRecord ==
    ASSUME NEW p, NEW i, NEW ns, NEW nr, NEW pn, NEW aside, NEW until, NEW more, NEW s,
           s = SessionAt(p, i, ns, nr, pn, aside), NEW ahead,
           ahead = [root |-> RootAt(Place(DhOf(p, i)) - 1), at |-> until]
    PROVE  AheadTo(s, more, ahead, until) = SessionAt(p, i, ns, until, pn, more)
<1> DEFINE x == [s EXCEPT !.skipped = more, !.ckr = ahead, !.nr = until]
           y == SessionAt(p, i, ns, until, pn, more)
           fields == {"dhs", "dhr", "rk", "cks", "ckr", "ns", "nr", "pn", "skipped"}
<1>1. DOMAIN s = fields /\ DOMAIN y = fields
  BY DEF SessionAt
<1>2. /\ s.dhs = y.dhs /\ s.dhr = y.dhr /\ s.rk = y.rk /\ s.cks = y.cks /\ s.ns = y.ns
      /\ s.pn = y.pn /\ y.skipped = more /\ y.ckr = ahead /\ y.nr = until
  BY DEF SessionAt
<1> HIDE DEF y
<1>3. x = [f \in fields |-> IF f = "skipped" THEN more ELSE IF f = "ckr" THEN ahead
                            ELSE IF f = "nr" THEN until ELSE s[f]]
  BY <1>1
<1>4. \A f \in fields : x[f] = y[f]
  BY <1>2, <1>3
<1>5. y = [f \in fields |-> y[f]]
  BY <1>1 DEF y, SessionAt
<1> HIDE DEF x, fields
<1>6. x = y
  BY <1>3, <1>4, <1>5
<1> QED BY <1>6 DEF x, y, AheadTo

\* Going ahead in a chain puts its keys aside.
LEMMA SkipForm ==
    ASSUME NEW p \in Party, NEW s, InTurn(p, s), Place(s.dhs) >= 2, NEW until \in Nat
    PROVE  SkipKeys(s, until) =
             IF until <= s.nr THEN s
             ELSE SessionAt(p, s.dhs.made, s.ns, until, s.pn,
                            s.skipped \cup KeysFrom(s.dhr, s.nr, until))
<1> DEFINE i == s.dhs.made
           nr == s.nr
           root == RootAt(Place(DhOf(p, i)) - 1)
<1>1. /\ i \in Nat /\ s.ns \in Nat /\ nr \in Nat /\ s.pn \in Nat
      /\ s = SessionAt(p, i, s.ns, nr, s.pn, s.skipped)
      /\ s.dhs = DhOf(p, i) /\ s.dhr = Heard(p, i) /\ s.ckr = [root |-> root, at |-> nr]
      /\ Place(DhOf(p, i)) \in Nat
  BY SessionFields
<1>2. root # <<>> /\ s.ckr # NoChain
  BY <1>1, RootFacts DEF NoChain
<1>3. Place(s.dhr) = Place(DhOf(p, i)) - 1
  BY <1>1, HeardFacts
<1> DEFINE keys == {[dh |-> s.dhr, n |-> j, key |-> [s.ckr EXCEPT !.at = @ + (j - s.nr)]] :
                      j \in s.nr .. until - 1}
<1>4. keys = KeysFrom(s.dhr, nr, until)
  <2>1. ASSUME NEW j \in nr .. until - 1
        PROVE  [s.ckr EXCEPT !.at = @ + (j - nr)] = [root |-> RootAt(Place(s.dhr)), at |-> j]
    <3>1. nr + (j - nr) = j
      BY <1>1
    <3> QED BY <1>1, <1>3, <3>1
  <2> QED BY <2>1 DEF KeysFrom
<1>5. CASE until <= nr
  BY <1>5 DEF SkipKeys
<1>6. CASE ~(until <= nr)
  <2>1. SkipKeys(s, until) =
            [s EXCEPT !.skipped = @ \cup keys, !.ckr.at = @ + (until - nr), !.nr = until]
    BY <1>2, <1>6 DEF SkipKeys
  <2>2. nr + (until - nr) = until
    BY <1>1
  <2>3. [s.ckr EXCEPT !.at = @ + (until - nr)] = [root |-> root, at |-> until]
    BY <1>1, <2>2
  <2> HIDE DEF keys, root
  <2>4. [s EXCEPT !.skipped = @ \cup keys, !.ckr.at = @ + (until - nr), !.nr = until]
          = SessionAt(p, i, s.ns, until, s.pn, s.skipped \cup keys)
    <3> DEFINE e == SessionAt(p, i, s.ns, until, s.pn, s.skipped \cup keys)
    <3>1. s = SessionAt(p, i, s.ns, nr, s.pn, s.skipped)
      BY <1>1
    <3>2. [s EXCEPT !.skipped = s.skipped \cup keys, !.ckr = [root |-> root, at |-> until],
                    !.nr = until] = e
      <4>1. AheadTo(s, s.skipped \cup keys, [root |-> root, at |-> until], until) = e
        BY <3>1, AheadRecord DEF root
      <4> QED BY <4>1 DEF AheadTo
    <3> QED BY <2>3, <3>2
  <2> QED BY <1>4, <1>6, <2>1, <2>4
<1> QED BY <1>5, <1>6

\* Nothing is skipped where nothing came yet.
LEMMA SkipNone ==
    ASSUME NEW p \in Party, NEW s, InTurn(p, s), Place(s.dhs) <= 1, s.nr = 0, NEW until
    PROVE  SkipKeys(s, until) = s
<1>1. s.ckr = [root |-> RootAt(Place(s.dhs) - 1), at |-> 0] /\ Place(s.dhs) \in Nat
  BY SessionFields
<1>2. RootAt(Place(s.dhs) - 1) = <<>>
  BY <1>1, RootFacts
<1> QED BY <1>1, <1>2 DEF SkipKeys, NoChain

\* A turn takes a session two places on.
LEMMA TurnForm ==
    ASSUME NEW p \in Party, NEW s, InTurn(p, s), NEW remote, remote = Answer(p, s.dhs.made)
    PROVE  Turn(s, remote) = SessionAt(p, s.dhs.made + 1, 0, 0, s.ns, s.skipped)
<1> DEFINE i == s.dhs.made
           t == Place(DhOf(p, i))
           mine == DhOf(p, i + 1)
<1>1. /\ i \in Nat /\ s.ns \in Nat /\ s.nr \in Nat /\ s.pn \in Nat
      /\ s = SessionAt(p, i, s.ns, s.nr, s.pn, s.skipped)
      /\ s.dhs = DhOf(p, i) /\ s.dhr = Heard(p, i) /\ s.rk = RootAt(t)
      /\ t \in Nat
  BY SessionFields
<1>2. /\ remote \in DhKey /\ Place(remote) = t + 1 /\ Heard(p, i + 1) = remote
      /\ Place(mine) = t + 2 /\ mine \in DhKey /\ DhOf(p, i) \in DhKey
  <2> HIDE DEF i
  <2>1. i + 1 \in Nat
    BY <1>1
  <2>2. /\ Answer(p, i) \in DhKey /\ Place(Answer(p, i)) = Place(DhOf(p, i)) + 1
        /\ Heard(p, i + 1) = Answer(p, i) /\ Place(DhOf(p, i + 1)) = Place(DhOf(p, i)) + 2
    BY <1>1, HeardFacts
  <2>3. DhOf(p, i) \in DhKey /\ DhOf(p, i + 1) \in DhKey
    BY <1>1, <2>1, DhFacts
  <2> QED BY <2>2, <2>3 DEF i
<1>3. [s.dhs EXCEPT !.made = @ + 1] = mine
  BY <1>1 DEF DhOf
<1>4. Agree(s.rk, s.dhs, remote) = RootAt(t + 1)
  BY <1>1, <1>2, RootAppend DEF Agree
<1>5. Agree(RootAt(t + 1), mine, remote) = RootAt(t + 2)
  <2>1. t + 1 \in Nat /\ (t + 1) + 1 = t + 2
    BY <1>1
  <2> HIDE DEF t, mine
  <2>2. Append(RootAt(t + 1), {mine, remote}) = RootAt((t + 1) + 1)
    BY <1>2, <2>1, RootAppend
  <2> QED BY <2>1, <2>2 DEF Agree
<1>6. Turn(s, remote) = [s EXCEPT !.pn = s.ns, !.ns = 0, !.nr = 0, !.dhr = remote, !.dhs = mine,
                                  !.rk = RootAt(t + 2), !.ckr = ChainOf(RootAt(t + 1)),
                                  !.cks = ChainOf(RootAt(t + 2))]
  <2> HIDE DEF mine, t
  <2> QED BY <1>3, <1>4, <1>5 DEF Turn
<1>7. RootAt(Place(mine)) = RootAt(t + 2) /\ RootAt(Place(mine) - 1) = RootAt(t + 1)
  <2>1. Place(mine) = t + 2 /\ Place(mine) - 1 = t + 1
    BY <1>1, <1>2
  <2> QED BY <2>1
<1> HIDE DEF t, mine
<1>8. SessionAt(p, i + 1, 0, 0, s.ns, s.skipped) =
        [dhs |-> mine, dhr |-> remote, rk |-> RootAt(t + 2),
         cks |-> [root |-> RootAt(t + 2), at |-> 0], ckr |-> [root |-> RootAt(t + 1), at |-> 0],
         ns |-> 0, nr |-> 0, pn |-> s.ns, skipped |-> s.skipped]
  BY <1>2, <1>7 DEF SessionAt, mine
<1>9. DOMAIN s = {"dhs", "dhr", "rk", "cks", "ckr", "ns", "nr", "pn", "skipped"}
  <2>1. DOMAIN SessionAt(p, i, s.ns, s.nr, s.pn, s.skipped)
          = {"dhs", "dhr", "rk", "cks", "ckr", "ns", "nr", "pn", "skipped"}
    BY DEF SessionAt
  <2> QED BY <1>1, <2>1
<1> QED BY <1>1, <1>6, <1>8 DEF ChainOf, SessionAt

-----------------------------------------------------------------------------
\* Nothing lies between a number and itself.
LEMMA KeysFromNone == ASSUME NEW k, NEW n \in Int PROVE KeysFrom(k, n, n) = {}
<1>1. n .. n - 1 = {}
  OBVIOUS
<1> QED BY <1>1 DEF KeysFrom

\* Going ahead to a number that was not reached yet.
LEMMA SkipAhead ==
    ASSUME NEW p \in Party, NEW s, InTurn(p, s), Place(s.dhs) >= 2, NEW n \in Nat, s.nr <= n
    PROVE  SkipKeys(s, n) = SessionAt(p, s.dhs.made, s.ns, n, s.pn,
                                      s.skipped \cup KeysFrom(s.dhr, s.nr, n))
<1>1. s.nr \in Nat /\ s = SessionAt(p, s.dhs.made, s.ns, s.nr, s.pn, s.skipped)
  BY SessionFields
<1>2. CASE n = s.nr
  <2>1. KeysFrom(s.dhr, s.nr, n) = {}
    BY <1>1, <1>2, KeysFromNone
  <2>2. SkipKeys(s, n) = s
    BY <1>1, <1>2, SkipForm
  <2>3. s.skipped \cup KeysFrom(s.dhr, s.nr, n) = s.skipped
    BY <2>1
  <2> QED BY <1>1, <1>2, <2>2, <2>3
<1>3. CASE n # s.nr
  BY <1>1, <1>3, SkipForm
<1> QED BY <1>2, <1>3

\* The chain moves on by the message that is read.
MovedOn(s) == [s EXCEPT !.ckr.at = @ + 1, !.nr = @ + 1]

\* It moves on in its place.
LEMMA MoveOn ==
    ASSUME NEW p \in Party, NEW i \in Nat, NEW ns, NEW n \in Nat, NEW pn, NEW aside,
           NEW s, s = SessionAt(p, i, ns, n, pn, aside)
    PROVE  MovedOn(s) = SessionAt(p, i, ns, n + 1, pn, aside)
<1> DEFINE ahead == [root |-> RootAt(Place(DhOf(p, i)) - 1), at |-> n + 1]
<1>1. /\ s.ckr = [root |-> RootAt(Place(DhOf(p, i)) - 1), at |-> n] /\ s.nr = n
      /\ s.skipped = aside
      /\ DOMAIN s = {"dhs", "dhr", "rk", "cks", "ckr", "ns", "nr", "pn", "skipped"}
  BY DEF SessionAt
<1>2. [s.ckr EXCEPT !.at = @ + 1] = ahead
  BY <1>1
<1>3. AheadTo(s, aside, ahead, n + 1) = SessionAt(p, i, ns, n + 1, pn, aside)
  BY AheadRecord
<1> HIDE DEF ahead
<1>4. MovedOn(s) = [s EXCEPT !.ckr = ahead, !.nr = n + 1]
  BY <1>1, <1>2 DEF MovedOn
<1>5. [s EXCEPT !.ckr = ahead, !.nr = n + 1] = AheadTo(s, aside, ahead, n + 1)
  BY <1>1 DEF AheadTo
<1> QED BY <1>3, <1>4, <1>5

\* No key lies aside for a header.
NothingAside(s, h) == \A k \in s.skipped : ~(k.dh = h.dh /\ k.n = h.n)

\* A message whose key lies aside.
LEMMA StagedAside ==
    ASSUME NEW s, NEW h, NEW k \in s.skipped, k.dh = h.dh, k.n = h.n,
           \A l \in s.skipped : l.dh = h.dh /\ l.n = h.n => l = k
    PROVE  /\ Staged(s, h).ok /\ Staged(s, h).key = k.key
           /\ Staged(s, h).session = WithoutKey(s, k)
<1> DEFINE aside == {l \in s.skipped : l.dh = h.dh /\ l.n = h.n}
<1>1. aside = {k}
  OBVIOUS
<1> HIDE DEF aside
<1>2. aside # {} /\ (CHOOSE l \in aside : TRUE) = k
  BY <1>1
<1>3. Staged(s, h) = [ok |-> TRUE, key |-> k.key, session |-> WithoutKey(s, k)]
  BY <1>2 DEF Staged, aside
<1> QED BY <1>3

\* Any other goes by the chain.
LEMMA StagedByChain ==
    ASSUME NEW s, NEW h, NothingAside(s, h), NEW turned, NEW ahead,
           turned = (IF h.dh = s.dhr THEN s ELSE Turn(SkipKeys(s, h.pn), h.dh)),
           ahead = SkipKeys(turned, h.n)
    PROVE  Staged(s, h) =
             IF (h.dh # s.dhr => h.pn <= s.nr + MaxSkip) /\ h.n <= turned.nr + MaxSkip
                 /\ ahead.ckr # NoChain
             THEN [ok |-> TRUE, key |-> ahead.ckr, session |-> MovedOn(ahead)]
             ELSE Failed
<1>1. {l \in s.skipped : l.dh = h.dh /\ l.n = h.n} = {}
  BY DEF NothingAside
<1> QED BY <1>1 DEF Staged, InReach, MovedOn

\* A message of the chain that is being read, not passed yet.
LEMMA StagedAhead ==
    ASSUME NEW p \in Party, NEW s, InTurn(p, s), Place(s.dhs) >= 2,
           NEW h, NothingAside(s, h), h.dh = s.dhr, h.n \in Nat, s.nr <= h.n
    PROVE  Staged(s, h) =
             IF h.n <= s.nr + MaxSkip
             THEN [ok |-> TRUE, key |-> [root |-> RootAt(Place(h.dh)), at |-> h.n],
                   session |-> SessionAt(p, s.dhs.made, s.ns, h.n + 1, s.pn,
                                         s.skipped \cup KeysFrom(h.dh, s.nr, h.n))]
             ELSE Failed
<1> DEFINE i == s.dhs.made
           more == s.skipped \cup KeysFrom(h.dh, s.nr, h.n)
           ahead == SkipKeys(s, h.n)
<1>1. /\ i \in Nat /\ s.dhs = DhOf(p, i) /\ s.dhr = Heard(p, i) /\ Place(s.dhs) \in Nat
      /\ s.ns \in Nat /\ s.pn \in Nat
  BY SessionFields
<1>2. Place(h.dh) = Place(DhOf(p, i)) - 1
  <2> HIDE DEF i
  <2> QED BY <1>1, HeardFacts
<1>3. ahead = SessionAt(p, i, s.ns, h.n, s.pn, more)
  BY SkipAhead
<1> HIDE DEF more, i, ahead
<1>4. ahead.ckr = [root |-> RootAt(Place(h.dh)), at |-> h.n]
  BY <1>2, <1>3 DEF SessionAt
<1>5. ahead.ckr # NoChain
  <2>1. RootAt(Place(h.dh)) # <<>>
    BY <1>1, <1>2, RootFacts
  <2> QED BY <1>4, <2>1 DEF NoChain
<1>6. MovedOn(ahead) = SessionAt(p, i, s.ns, h.n + 1, s.pn, more)
  BY <1>1, <1>3, MoveOn
<1>7. Staged(s, h) =
        IF (h.dh # s.dhr => h.pn <= s.nr + MaxSkip) /\ h.n <= s.nr + MaxSkip /\ ahead.ckr # NoChain
        THEN [ok |-> TRUE, key |-> ahead.ckr, session |-> MovedOn(ahead)] ELSE Failed
  BY StagedByChain DEF ahead
<1> QED BY <1>4, <1>5, <1>6, <1>7 DEF i, more

\* The keys a turn puts aside of the chain it ends.
LeftAside(s, h) ==
    IF Place(s.dhs) <= 1 THEN s.skipped ELSE s.skipped \cup KeysFrom(s.dhr, s.nr, h.pn)

\* The first message that comes of the other's next key.
LEMMA StagedTurn ==
    ASSUME NEW p \in Party, NEW s, InTurn(p, s), NEW h, NothingAside(s, h),
           h.dh = Answer(p, s.dhs.made), h.n \in Nat, h.pn \in Nat,
           IF Place(s.dhs) <= 1 THEN s.nr = 0 ELSE s.nr <= h.pn
    PROVE  Staged(s, h) =
             IF h.pn <= s.nr + MaxSkip /\ h.n <= MaxSkip
             THEN [ok |-> TRUE, key |-> [root |-> RootAt(Place(h.dh)), at |-> h.n],
                   session |-> SessionAt(p, s.dhs.made + 1, 0, h.n + 1, s.ns,
                                         LeftAside(s, h) \cup KeysFrom(h.dh, 0, h.n))]
             ELSE Failed
<1> DEFINE i == s.dhs.made
           ended == SkipKeys(s, h.pn)
           turned == Turn(ended, h.dh)
           ahead == SkipKeys(turned, h.n)
           left == LeftAside(s, h)
           more == left \cup KeysFrom(h.dh, 0, h.n)
<1>1. /\ i \in Nat /\ s.dhs = DhOf(p, i) /\ s.dhr = Heard(p, i) /\ Place(s.dhs) \in Nat
      /\ s.ns \in Nat /\ s.nr \in Nat /\ s.pn \in Nat
      /\ s = SessionAt(p, i, s.ns, s.nr, s.pn, s.skipped)
  BY SessionFields
<1>2. \E nr \in Nat : ended = SessionAt(p, i, s.ns, nr, s.pn, left)
  <2>1. CASE Place(s.dhs) <= 1
    <3>1. ended = s /\ left = s.skipped
      BY <2>1, SkipNone DEF LeftAside
    <3> QED BY <1>1, <3>1
  <2>2. CASE ~(Place(s.dhs) <= 1)
    <3>1. Place(s.dhs) >= 2 /\ left = s.skipped \cup KeysFrom(s.dhr, s.nr, h.pn)
      BY <1>1, <2>2 DEF LeftAside
    <3>2. ended = SessionAt(p, i, s.ns, h.pn, s.pn, left)
      BY <2>2, <3>1, SkipAhead
    <3> QED BY <3>2
  <2> QED BY <2>1, <2>2
<1> HIDE DEF i, ended, left
<1>3. /\ InTurn(p, ended) /\ ended.dhs.made = i /\ ended.ns = s.ns /\ ended.skipped = left
  <2>1. PICK nr \in Nat : ended = SessionAt(p, i, s.ns, nr, s.pn, left)
    BY <1>2
  <2> QED BY <1>1, <2>1, SessionAtFields
<1>4. turned = SessionAt(p, i + 1, 0, 0, s.ns, left)
  <2>1. h.dh = Answer(p, ended.dhs.made)
    BY <1>3 DEF i
  <2> QED BY <1>3, <2>1, TurnForm
<1> HIDE DEF turned
<1>5. /\ InTurn(p, turned) /\ turned.dhs = DhOf(p, i + 1) /\ turned.dhs.made = i + 1
      /\ turned.ns = 0
      /\ turned.nr = 0 /\ turned.pn = s.ns /\ turned.skipped = left /\ turned.dhr = Heard(p, i + 1)
  <2>1. i + 1 \in Nat /\ 0 \in Nat
    BY <1>1
  <2> QED BY <1>1, <1>4, <2>1, SessionAtFields
<1>6. /\ Place(turned.dhs) = Place(DhOf(p, i)) + 2 /\ turned.dhr = h.dh
      /\ Place(h.dh) = Place(turned.dhs) - 1 /\ Place(DhOf(p, i)) \in Nat
  <2>1. /\ Place(DhOf(p, i + 1)) = Place(DhOf(p, i)) + 2 /\ Heard(p, i + 1) = Answer(p, i)
        /\ Place(Answer(p, i)) = Place(DhOf(p, i)) + 1 /\ Place(DhOf(p, i)) \in Nat
    BY <1>1, HeardFacts, DhFacts
  <2> QED BY <1>5, <2>1 DEF i
<1>7. ahead = SessionAt(p, i + 1, 0, h.n, s.ns, more)
  <2>1. Place(turned.dhs) >= 2 /\ turned.nr <= h.n
    BY <1>5, <1>6
  <2>2. SkipKeys(turned, h.n) = SessionAt(p, turned.dhs.made, turned.ns, h.n, turned.pn,
                                  turned.skipped \cup KeysFrom(turned.dhr, turned.nr, h.n))
    BY <1>5, <2>1, SkipAhead
  <2> QED BY <1>5, <1>6, <2>2
<1> HIDE DEF ahead, more
<1>8. ahead.ckr = [root |-> RootAt(Place(h.dh)), at |-> h.n]
  <2>1. Place(DhOf(p, i + 1)) - 1 = Place(h.dh)
    BY <1>5, <1>6
  <2> QED BY <1>7, <2>1 DEF SessionAt
<1>9. ahead.ckr # NoChain
  <2>1. RootAt(Place(h.dh)) # <<>>
    BY <1>6, RootFacts
  <2> QED BY <1>8, <2>1 DEF NoChain
<1>10. MovedOn(ahead) = SessionAt(p, i + 1, 0, h.n + 1, s.ns, more)
  <2>1. i + 1 \in Nat
    BY <1>1
  <2> QED BY <1>7, <2>1, MoveOn
<1>11. h.dh # s.dhr
  <2>1. CASE Place(DhOf(p, i)) = 0
    <3>1. Heard(p, i) = NoKey /\ Answer(p, i) \in DhKey
      BY <1>1, <2>1, HeardFacts
    <3> QED BY <1>1, <3>1 DEF i, DhKey, NoKey, Party
  <2>2. CASE Place(DhOf(p, i)) # 0
    <3>1. Place(Heard(p, i)) = Place(DhOf(p, i)) - 1
      BY <1>1, <1>6, <2>2, HeardFacts
    <3> QED BY <1>1, <1>6, <3>1
  <2> QED BY <2>1, <2>2
<1>12. Staged(s, h) =
         IF (h.dh # s.dhr => h.pn <= s.nr + MaxSkip) /\ h.n <= turned.nr + MaxSkip
             /\ ahead.ckr # NoChain
         THEN [ok |-> TRUE, key |-> ahead.ckr, session |-> MovedOn(ahead)] ELSE Failed
  BY <1>11, StagedByChain DEF turned, ahead, ended
<1>13. 0 + MaxSkip = MaxSkip
  BY RatchetAssumption
<1> QED BY <1>5, <1>8, <1>9, <1>10, <1>11, <1>12, <1>13 DEF i, more, left

\* What was passed and lies not aside has no key any more.
LEMMA StagedAgain ==
    ASSUME NEW p \in Party, NEW s, InTurn(p, s), NEW h, NothingAside(s, h),
           h.dh \in DhKey, h.n \in Nat, h.pn \in Nat,
           Place(h.dh) < Place(s.dhs), h.dh = s.dhr => h.n < s.nr,
           IF Place(s.dhs) <= 1 THEN s.nr = 0 ELSE TRUE
    PROVE  ~(Staged(s, h).ok /\ Staged(s, h).key = [root |-> RootAt(Place(h.dh)), at |-> h.n])
<1> DEFINE i == s.dhs.made
           t == Place(s.dhs)
           ended == SkipKeys(s, h.pn)
           turned == IF h.dh = s.dhr THEN s ELSE Turn(ended, h.dh)
           ahead == SkipKeys(turned, h.n)
<1>1. /\ i \in Nat /\ s.dhs = DhOf(p, i) /\ s.dhr = Heard(p, i) /\ t \in Nat
      /\ s.ns \in Nat /\ s.nr \in Nat /\ s.pn \in Nat
      /\ s = SessionAt(p, i, s.ns, s.nr, s.pn, s.skipped)
      /\ s.ckr = [root |-> RootAt(t - 1), at |-> s.nr]
  BY SessionFields
<1>2. Place(h.dh) \in Nat
  BY DEF DhKey, Place
<1>3. Staged(s, h) =
        IF (h.dh # s.dhr => h.pn <= s.nr + MaxSkip) /\ h.n <= turned.nr + MaxSkip
            /\ ahead.ckr # NoChain
        THEN [ok |-> TRUE, key |-> ahead.ckr, session |-> MovedOn(ahead)] ELSE Failed
  BY StagedByChain
<1>4. CASE h.dh = s.dhr
  <2>1. ahead = s /\ h.n # s.nr
    BY <1>1, <1>4 DEF SkipKeys
  <2>2. ahead.ckr.at # h.n
    BY <1>1, <2>1
  <2> HIDE DEF ahead, turned
  <2>3. ahead.ckr # [root |-> RootAt(Place(h.dh)), at |-> h.n]
    BY <2>2
  <2> QED BY <1>3, <2>3 DEF Failed
<1>5. CASE h.dh # s.dhr
  <2>1. ended.rk = RootAt(t)
    <3>1. s.rk = RootAt(t)
      BY SessionFields
    <3>2. ended.rk = s.rk
      BY <1>1 DEF SkipKeys, SessionAt
    <3> QED BY <3>1, <3>2
  <2> DEFINE root == Agree(ended.rk, ended.dhs, h.dh)
  <2>2. Len(root) = t + 1
    <3>1. ended.rk \in Seq(SUBSET DhKey) /\ Len(ended.rk) = t
      BY <1>1, <2>1, RootFacts
    <3>2. ended.dhs = s.dhs
      BY <1>1 DEF SkipKeys, SessionAt
    <3>3. {ended.dhs, h.dh} \in SUBSET DhKey
      BY <1>1, <3>2, DhFacts
    <3> QED BY <3>1, <3>3 DEF Agree
  <2>3. turned.ckr = [root |-> root, at |-> 0] /\ turned.nr = 0
    <3>1. DOMAIN ended = {"dhs", "dhr", "rk", "cks", "ckr", "ns", "nr", "pn", "skipped"}
      <4>1. DOMAIN s = {"dhs", "dhr", "rk", "cks", "ckr", "ns", "nr", "pn", "skipped"}
        <5>1. DOMAIN SessionAt(p, i, s.ns, s.nr, s.pn, s.skipped)
                = {"dhs", "dhr", "rk", "cks", "ckr", "ns", "nr", "pn", "skipped"}
          BY DEF SessionAt
        <5> QED BY <1>1, <5>1
      <4> QED BY <4>1 DEF SkipKeys
    <3> HIDE DEF ended
    <3>2. turned = Turn(ended, h.dh)
      BY <1>5
    <3> HIDE DEF turned
    <3> QED BY <3>1, <3>2 DEF Turn, ChainOf
  <2> HIDE DEF root, turned
  <2>4. ahead.ckr.root = root
    <3>1. DOMAIN turned.ckr = {"root", "at"} /\ turned.ckr.root = root
      BY <2>3
    <3>2. CASE turned.ckr = NoChain \/ h.n <= turned.nr
      BY <3>1, <3>2 DEF SkipKeys
    <3>3. CASE ~(turned.ckr = NoChain \/ h.n <= turned.nr)
      <4>1. "ckr" \in DOMAIN turned
        <5>1. DOMAIN turned = DOMAIN ended
          BY <1>5 DEF turned, Turn
        <5>2. DOMAIN ended = DOMAIN s
          BY DEF SkipKeys
        <5>3. "ckr" \in DOMAIN SessionAt(p, i, s.ns, s.nr, s.pn, s.skipped)
          BY DEF SessionAt
        <5> QED BY <1>1, <5>1, <5>2, <5>3
      <4>2. ahead.ckr = [turned.ckr EXCEPT !.at = @ + (h.n - turned.nr)]
        BY <3>3, <4>1 DEF SkipKeys
      <4> QED BY <3>1, <4>2
    <3> QED BY <3>2, <3>3
  <2>5. RootAt(Place(h.dh)) # root
    <3>1. Len(RootAt(Place(h.dh))) = Place(h.dh)
      BY <1>2, RootFacts
    <3> QED BY <1>1, <1>2, <2>2, <3>1
  <2> HIDE DEF ahead
  <2>6. ahead.ckr # [root |-> RootAt(Place(h.dh)), at |-> h.n]
    BY <2>4, <2>5
  <2> QED BY <1>3, <2>6 DEF Failed
<1> QED BY <1>4, <1>5

-----------------------------------------------------------------------------
\* Nobody has sent or read anything.
LEMMA RatchetInitInv == ASSUME RatchetInit PROVE RatchetInv
<1>1. /\ DOMAIN session = Party /\ \A p \in Party : session[p] = NoSession
      /\ wire = {} /\ DOMAIN opened = Party /\ (\A p \in Party : opened[p] = {})
      /\ repeated = FALSE
  BY DEF RatchetInit
<1>2. PlaceOf("alice") = 0 /\ PlaceOf("bob") = 0
  BY <1>1 DEF PlaceOf, Party
<1>3. SessionsInTurn
  BY <1>1, <1>2 DEF SessionsInTurn
<1>4. ChainsAreWhole /\ MessagesInTurn
  BY <1>1 DEF ChainsAreWhole, MessagesInTurn
<1>5. ReadOrAside
  BY <1>1 DEF ReadOrAside
<1> QED BY <1>3, <1>4, <1>5 DEF RatchetInv

\* What a message says.
LEMMA MessageFacts ==
    ASSUME RatchetInv, NEW m \in wire
    PROVE  /\ m.from \in Party /\ m.header.dh.made \in Nat /\ m.header.pn \in Nat
           /\ m.header.n \in Nat
           /\ m.header.dh = DhOf(m.from, m.header.dh.made) /\ m.header.dh \in DhKey
           /\ m.header.dh.of = m.from
           /\ m.key = [root |-> RootAt(Place(m.header.dh)), at |-> m.header.n]
           /\ Place(m.header.dh) \in Nat /\ Place(m.header.dh) >= 1
           /\ session[m.from] # NoSession /\ m.header.dh.made <= session[m.from].dhs.made
           /\ BeforeWhole(m.from, m.header.dh.made, m.header.pn)
<1> DEFINE i == m.header.dh.made
<1>1. MessageOK(m)
  BY DEF RatchetInv, MessagesInTurn
<1>2. /\ m.from \in Party /\ i \in Nat /\ m.header.pn \in Nat /\ m.header.n \in Nat
      /\ m = MessageAt(m.from, m.no, i, m.header.pn, m.header.n, m.initial)
      /\ m.from = "bob" => i > 0
      /\ session[m.from] # NoSession /\ i <= session[m.from].dhs.made
      /\ BeforeWhole(m.from, i, m.header.pn)
  BY <1>1 DEF MessageOK
<1>3. /\ m.header.dh = DhOf(m.from, i)
      /\ m.key = [root |-> RootAt(Place(DhOf(m.from, i))), at |-> m.header.n]
  <2> DEFINE o == MessageAt(m.from, m.no, i, m.header.pn, m.header.n, m.initial)
  <2>1. /\ o.header.dh = DhOf(m.from, i)
        /\ o.key = [root |-> RootAt(Place(DhOf(m.from, i))), at |-> m.header.n]
    BY DEF MessageAt
  <2> QED BY <1>2, <2>1
<1> HIDE DEF i
<1>4. /\ DhOf(m.from, i) \in DhKey /\ DhOf(m.from, i).of = m.from
      /\ Place(DhOf(m.from, i)) = (IF m.from = "alice" THEN 2 * i + 1 ELSE 2 * i)
  BY <1>2, DhFacts
<1>5. Place(DhOf(m.from, i)) \in Nat /\ Place(DhOf(m.from, i)) >= 1
  <2>1. CASE m.from = "alice"
    BY <1>2, <1>4, <2>1
  <2>2. CASE m.from = "bob"
    BY <1>2, <1>4, <2>2
  <2> QED BY <1>2, <2>1, <2>2 DEF Party
<1> QED BY <1>2, <1>3, <1>4, <1>5 DEF i

\* Where the sender of a message is: at the message's place, or further.
LEMMA SenderPlace ==
    ASSUME RatchetInv, NEW m \in wire
    PROVE  /\ PlaceOf(m.from) \in Nat /\ Place(m.header.dh) <= PlaceOf(m.from)
           /\ InTurn(m.from, session[m.from])
           /\ PlaceOf(m.from) = Place(session[m.from].dhs)
           /\ PlaceOf(m.from) = Place(m.header.dh)
                + 2 * (session[m.from].dhs.made - m.header.dh.made)
<1> DEFINE q == m.from
           i == m.header.dh.made
           j == session[q].dhs.made
<1>1. /\ q \in Party /\ i \in Nat /\ m.header.dh = DhOf(q, i) /\ session[q] # NoSession /\ i <= j
  BY MessageFacts
<1>2. InTurn(q, session[q])
  BY <1>1 DEF RatchetInv, SessionsInTurn
<1>3. j \in Nat /\ session[q].dhs = DhOf(q, j)
  BY <1>1, <1>2, SessionFields
<1>4. PlaceOf(q) = Place(session[q].dhs)
  BY <1>1 DEF PlaceOf
<1> HIDE DEF q, i, j
<1>5. /\ Place(DhOf(q, i)) = (IF q = "alice" THEN 2 * i + 1 ELSE 2 * i)
      /\ Place(DhOf(q, j)) = (IF q = "alice" THEN 2 * j + 1 ELSE 2 * j)
  BY <1>1, <1>3, DhFacts
<1>6. /\ Place(DhOf(q, j)) \in Nat /\ Place(DhOf(q, i)) <= Place(DhOf(q, j))
      /\ Place(DhOf(q, j)) = Place(DhOf(q, i)) + 2 * (j - i)
  BY <1>1, <1>3, <1>5
<1> QED BY <1>1, <1>2, <1>3, <1>4, <1>6 DEF q, i, j

\* No two messages have one key.
LEMMA OneKeyOneMessage ==
    ASSUME RatchetInv, NEW m \in wire, NEW o \in wire
    PROVE  /\ m.header.dh = o.header.dh /\ m.header.n = o.header.n => m = o
           /\ AsideKey(m) = AsideKey(o) => m = o
           /\ m.key = o.key => m = o
<1>1. m.header.dh = o.header.dh /\ m.header.n = o.header.n => m = o
  BY DEF RatchetInv, MessagesInTurn
<1>2. AsideKey(m) = AsideKey(o) => m = o
  <2>1. /\ AsideKey(m).dh = m.header.dh /\ AsideKey(m).n = m.header.n
        /\ AsideKey(o).dh = o.header.dh /\ AsideKey(o).n = o.header.n
    BY DEF AsideKey
  <2> QED BY <1>1, <2>1
<1>3. ASSUME m.key = o.key PROVE m = o
  <2>1. /\ m.header.dh = DhOf(m.from, m.header.dh.made) /\ m.from \in Party
        /\ m.header.dh.made \in Nat /\ Place(m.header.dh) \in Nat
        /\ m.key.root = RootAt(Place(m.header.dh)) /\ m.key.at = m.header.n
    <3>1. m.key = [root |-> RootAt(Place(m.header.dh)), at |-> m.header.n]
      BY MessageFacts
    <3>2. /\ m.key.root = RootAt(Place(m.header.dh)) /\ m.key.at = m.header.n
      BY <3>1
    <3> QED BY <3>2, MessageFacts
  <2>2. /\ o.header.dh = DhOf(o.from, o.header.dh.made) /\ o.from \in Party
        /\ o.header.dh.made \in Nat /\ Place(o.header.dh) \in Nat
        /\ o.key.root = RootAt(Place(o.header.dh)) /\ o.key.at = o.header.n
    <3>1. o.key = [root |-> RootAt(Place(o.header.dh)), at |-> o.header.n]
      BY MessageFacts
    <3>2. /\ o.key.root = RootAt(Place(o.header.dh)) /\ o.key.at = o.header.n
      BY <3>1
    <3> QED BY <3>2, MessageFacts
  <2>3. Place(m.header.dh) = Place(o.header.dh)
    BY <1>3, <2>1, <2>2, RootFacts
  <2>4. m.from = o.from /\ m.header.dh.made = o.header.dh.made
    BY <2>1, <2>2, <2>3, PlaceIsKey
  <2> QED BY <1>1, <1>3, <2>1, <2>2, <2>4
<1> QED BY <1>1, <1>2, <1>3

\* Below a message of one of the sender's last two chains, none is missing.
LEMMA ChainBelow ==
    ASSUME RatchetInv, NEW m \in wire, PlaceOf(m.from) <= Place(m.header.dh) + 2
    PROVE  \A j \in 0 .. m.header.n - 1 :
              \E o \in wire : o.header.dh = m.header.dh /\ o.header.n = j
<1> DEFINE q == m.from
           i == m.header.dh.made
           s == session[q]
<1>1. /\ q \in Party /\ i \in Nat /\ m.header.dh = DhOf(q, i) /\ s # NoSession
      /\ i <= s.dhs.made /\ m.header.n \in Nat /\ Place(m.header.dh) \in Nat
  BY MessageFacts
<1>2. /\ InTurn(q, s) /\ PlaceOf(q) = Place(m.header.dh) + 2 * (s.dhs.made - i)
  BY SenderPlace
<1>3. /\ s.dhs.made \in Nat /\ s.dhs = DhOf(q, s.dhs.made) /\ s.ns \in Nat /\ s.pn \in Nat
  BY <1>1, <1>2, SessionFields
<1>4. Whole(s.dhs, s.ns) /\ BeforeWhole(q, s.dhs.made, s.pn)
  BY <1>1 DEF RatchetInv, ChainsAreWhole
<1> HIDE DEF q, i, s
<1>5. s.dhs.made = i \/ s.dhs.made = i + 1
  BY <1>1, <1>2, <1>3 DEF q
<1>6. ASSUME NEW n \in Nat, Whole(m.header.dh, n)
      PROVE  \A j \in 0 .. m.header.n - 1 :
                \E o \in wire : o.header.dh = m.header.dh /\ o.header.n = j
  <2>1. m.header.n < n
    BY <1>6 DEF Whole
  <2>2. 0 .. m.header.n - 1 \subseteq 0 .. n - 1
    BY <1>1, <2>1
  <2> QED BY <1>6, <2>2 DEF Whole
<1>7. CASE s.dhs.made = i
  BY <1>1, <1>3, <1>4, <1>6, <1>7
<1>8. CASE s.dhs.made = i + 1
  <2>1. s.dhs.made # 0 /\ s.dhs.made - 1 = i
    BY <1>1, <1>8
  <2>2. Whole(m.header.dh, s.pn)
    BY <1>1, <1>4, <2>1 DEF BeforeWhole
  <2> QED BY <1>3, <1>6, <2>2
<1> QED BY <1>5, <1>7, <1>8

\* What a receiver is when a message comes.
Ready(p, s) ==
    /\ InTurn(p, s) /\ Reads(p, s)
    /\ Place(s.dhs) = PlaceOf(p) /\ PlaceOf(Other(p)) <= Place(s.dhs) + 1
    /\ Whole(s.dhs, s.ns) /\ BeforeWhole(p, s.dhs.made, s.pn)

\* Bob's session is that of his prekey, before a message has come.
LEMMA InitBobInTurn ==
    /\ InitBob = SessionAt("bob", 0, 0, 0, 0, {}) /\ InTurn("bob", InitBob)
    /\ InitBob.dhs = DhOf("bob", 0) /\ InitBob.dhs.made = 0 /\ Place(InitBob.dhs) = 0
    /\ InitBob.nr = 0 /\ InitBob.ns = 0 /\ InitBob.pn = 0 /\ InitBob.skipped = {}
<1>1. Place(DhOf("bob", 0)) = 0
  BY DhFacts DEF Party
<1>2. RootAt(0) = <<>> /\ RootAt(0 - 1) = <<>>
  BY RootFacts
<1>3. InitBob = SessionAt("bob", 0, 0, 0, 0, {})
  BY <1>1, <1>2 DEF InitBob, Session, SessionAt, SignedPrekey, NoKey, NoChain, DhOf, Heard
<1>4. /\ InTurn("bob", InitBob) /\ InitBob.dhs = DhOf("bob", 0) /\ InitBob.dhs.made = 0
      /\ InitBob.nr = 0 /\ InitBob.ns = 0 /\ InitBob.pn = 0 /\ InitBob.skipped = {}
  <2>1. "bob" \in Party /\ 0 \in Nat
    BY DEF Party
  <2> QED BY <1>3, <2>1, SessionAtFields
<1> QED BY <1>1, <1>3, <1>4

\* A session that was opened is ready.
LEMMA OpenIsReady ==
    ASSUME RatchetInv, NEW p \in Party, session[p] # NoSession
    PROVE  Ready(p, session[p])
<1>1. InTurn(p, session[p]) /\ Whole(session[p].dhs, session[p].ns)
      /\ BeforeWhole(p, session[p].dhs.made, session[p].pn) /\ Reads(p, session[p])
  BY DEF RatchetInv, SessionsInTurn, ChainsAreWhole, ReadOrAside
<1>2. Place(session[p].dhs) = PlaceOf(p)
  BY DEF PlaceOf
<1>3. PlaceOf(Other(p)) <= PlaceOf(p) + 1
  BY Parties DEF RatchetInv, SessionsInTurn, Party
<1> QED BY <1>1, <1>2, <1>3 DEF Ready

\* So is the one that decrypt starts from.
LEMMA BeginsReady ==
    ASSUME RatchetInv, NEW p \in Party, NEW m \in wire, m.from = Other(p)
    PROVE  Ready(p, Before(p, m))
<1>1. CASE session[p] # NoSession
  BY <1>1, OpenIsReady DEF Before
<1>2. CASE session[p] = NoSession
  <2>1. Before(p, m) = InitBob /\ PlaceOf(p) = 0 /\ opened[p] = {}
    BY <1>2 DEF Before, PlaceOf, RatchetInv, ReadOrAside
  <2>2. /\ Place(m.header.dh) >= 1 /\ Place(m.header.dh) <= PlaceOf(Other(p))
        /\ m.header.dh = DhOf(Other(p), m.header.dh.made) /\ m.header.dh.made \in Nat
        /\ Place(m.header.dh) \in Nat /\ PlaceOf(Other(p)) \in Nat
    BY MessageFacts, SenderPlace
  <2>3. PlaceOf(Other(p)) <= 1
    BY <2>1, Parties DEF RatchetInv, SessionsInTurn, Party
  <2>4. p = "bob"
    <3>1. CASE p = "alice"
      <4>1. Place(m.header.dh) = 2 * m.header.dh.made
        <5>1. m.header.dh = DhOf("bob", m.header.dh.made) /\ "bob" \in Party
          BY <2>2, <3>1, Parties DEF Party
        <5>2. Place(DhOf("bob", m.header.dh.made)) = 2 * m.header.dh.made
          BY <2>2, <5>1, DhFacts
        <5> QED BY <5>1, <5>2
      <4> QED BY <2>2, <2>3, <4>1
    <3> QED BY <3>1 DEF Party
  <2>5. \A o \in wire : o.from # "bob"
    BY <1>2, <2>4, MessageFacts
  <2>6. Whole(DhOf("bob", 0), 0)
    <3>1. \A o \in wire : o.header.dh # DhOf("bob", 0)
      <4>1. DhOf("bob", 0).of = "bob"
        BY DEF DhOf
      <4> QED BY <2>5, <4>1, MessageFacts
    <3> QED BY <3>1 DEF Whole
  <2>7. Reads("bob", InitBob)
    <3>1. \A o \in wire : ~Passed(InitBob, o)
      <4>1. ASSUME NEW o \in wire PROVE ~(Place(o.header.dh) < Place(InitBob.dhs))
        <5>1. Place(o.header.dh) >= 1 /\ Place(o.header.dh) \in Nat
          BY MessageFacts
        <5> QED BY <5>1, InitBobInTurn
      <4> QED BY <4>1 DEF Passed
    <3>2. {AsideKey(o) : o \in {x \in Unread("bob") : Passed(InitBob, x)}} = {}
      BY <3>1 DEF Unread
    <3> QED BY <2>1, <2>4, <3>2, InitBobInTurn DEF Reads
  <2> QED BY <2>1, <2>3, <2>4, <2>6, <2>7, InitBobInTurn DEF Ready, BeforeWhole
<1> QED BY <1>1, <1>2

-----------------------------------------------------------------------------
\* The receiver's places: what comes was passed, or is of the chain that is
\* read, or begins the next one.
LEMMA WhereItIs ==
    ASSUME RatchetInv, NEW p \in Party, NEW s, Ready(p, s),
           NEW m \in wire, m.from = Other(p)
    PROVE  \/ Passed(s, m) /\ Place(s.dhs) >= 2
           \/ /\ ~Passed(s, m) /\ m.header.dh = s.dhr /\ Place(s.dhs) >= 2
              /\ s.nr <= m.header.n
           \/ /\ ~Passed(s, m) /\ m.header.dh = Answer(p, s.dhs.made)
              /\ Place(m.header.dh) = Place(s.dhs) + 1
              /\ PlaceOf(Other(p)) = Place(m.header.dh)
<1> DEFINE i == s.dhs.made
           q == Other(p)
           d == m.header.dh
<1>1. /\ InTurn(p, s) /\ PlaceOf(q) <= Place(s.dhs) + 1 /\ Place(s.dhs) \in Nat /\ i \in Nat
      /\ s.dhs = DhOf(p, i) /\ s.dhr = Heard(p, i) /\ s.nr \in Nat
  BY SessionFields DEF Ready
<1>2. /\ d = DhOf(q, d.made) /\ d.made \in Nat /\ Place(d) \in Nat /\ Place(d) >= 1
      /\ m.header.n \in Nat /\ PlaceOf(q) \in Nat /\ Place(d) <= PlaceOf(q)
  BY MessageFacts, SenderPlace
<1>3. q \in Party /\ q # p
  BY Parties
<1> HIDE DEF i, q
<1>4. Place(d) # Place(s.dhs)
  BY <1>1, <1>2, <1>3, PlaceIsKey
<1>5. CASE Place(d) < Place(s.dhs)
  <2>1. Place(s.dhs) >= 2
    BY <1>1, <1>2, <1>5
  <2>2. CASE Passed(s, m)
    BY <2>1, <2>2
  <2>3. CASE ~Passed(s, m)
    BY <1>1, <1>2, <1>5, <2>1, <2>3 DEF Passed
  <2> QED BY <2>2, <2>3
<1>6. CASE ~(Place(d) < Place(s.dhs))
  <2>1. Place(d) = Place(s.dhs) + 1 /\ PlaceOf(q) = Place(d)
    BY <1>1, <1>2, <1>4, <1>6
  <2>2. /\ Answer(p, i) = DhOf(q, Answer(p, i).made) /\ Answer(p, i).made \in Nat
        /\ Place(Answer(p, i)) = Place(s.dhs) + 1
    BY <1>1, HeardFacts DEF q
  <2>3. d = Answer(p, i)
    BY <1>2, <1>3, <2>1, <2>2, PlaceIsKey
  <2>4. ~Passed(s, m)
    BY <1>6 DEF Passed
  <2> QED BY <2>1, <2>3, <2>4 DEF i, q
<1> QED BY <1>5, <1>6

\* The keys that lie aside are of messages that were passed and not read.
LEMMA AsideFacts ==
    ASSUME RatchetInv, NEW p \in Party, NEW s, Ready(p, s),
           NEW m \in wire, m.from = Other(p)
    PROVE  /\ m \in opened[p] => Passed(s, m)
           /\ (m \in opened[p] \/ ~Passed(s, m)) => NothingAside(s, m.header)
           /\ m \notin opened[p] /\ Passed(s, m) =>
                /\ AsideKey(m) \in s.skipped
                /\ \A k \in s.skipped :
                      k.dh = m.header.dh /\ k.n = m.header.n => k = AsideKey(m)
<1>1. /\ s.skipped = {AsideKey(o) : o \in {x \in Unread(p) : Passed(s, x)}}
      /\ \A o \in opened[p] : Passed(s, o)
  BY DEF Ready, Reads
<1>2. ASSUME NEW k \in s.skipped, k.dh = m.header.dh, k.n = m.header.n
      PROVE  k = AsideKey(m) /\ m \notin opened[p] /\ Passed(s, m)
  <2>1. PICK o \in wire \ opened[p] : Passed(s, o) /\ k = AsideKey(o)
    BY <1>1 DEF Unread
  <2>2. o.header.dh = m.header.dh /\ o.header.n = m.header.n
    BY <1>2, <2>1 DEF AsideKey
  <2>3. o = m
    BY <2>2, OneKeyOneMessage
  <2> QED BY <2>1, <2>3
<1>3. m \notin opened[p] /\ Passed(s, m) => AsideKey(m) \in s.skipped
  BY <1>1 DEF Unread
<1> QED BY <1>1, <1>2, <1>3 DEF NothingAside

\* The chain that ends was not read further than it went.
LEMMA ReadWithinChain ==
    ASSUME RatchetInv, NEW p \in Party, NEW s, Ready(p, s),
           NEW m \in wire, m.from = Other(p), m.header.dh = Answer(p, s.dhs.made)
    PROVE  /\ IF Place(s.dhs) <= 1 THEN s.nr = 0 ELSE s.nr <= m.header.pn
           /\ Place(s.dhs) >= 2 => Whole(s.dhr, m.header.pn)
           /\ Place(s.dhs) <= 1 => m.header.pn = 0
<1> DEFINE i == s.dhs.made
           j == m.header.dh.made
<1>1. /\ InTurn(p, s) /\ Place(s.dhs) \in Nat /\ i \in Nat /\ s.nr \in Nat
      /\ s.dhs = DhOf(p, i) /\ s.dhr = Heard(p, i)
      /\ IF Place(s.dhs) <= 1 THEN s.nr = 0
         ELSE \E o \in opened[p] : o.header.dh = s.dhr /\ o.header.n + 1 = s.nr
      /\ opened[p] \subseteq wire
  BY SessionFields DEF Ready, Reads
<1>2. BeforeWhole(Other(p), j, m.header.pn) /\ j \in Nat /\ m.header.pn \in Nat
  BY MessageFacts
<1>3. /\ Answer(p, i).made > 0 => /\ Place(DhOf(p, i)) >= 1
                                  /\ Heard(p, i) = DhOf(Other(p), Answer(p, i).made - 1)
      /\ Answer(p, i).made = 0 => Place(DhOf(p, i)) = 0
  <2> HIDE DEF i
  <2> QED BY <1>1, HeardFacts
<1>4. j = Answer(p, i).made
  OBVIOUS
<1> HIDE DEF i, j
<1>5. CASE j = 0
  <2>1. Place(s.dhs) = 0 /\ m.header.pn = 0
    BY <1>1, <1>2, <1>3, <1>4, <1>5 DEF BeforeWhole
  <2> QED BY <1>1, <2>1
<1>6. CASE j # 0
  <2>1. s.dhr = DhOf(Other(p), j - 1) /\ Whole(s.dhr, m.header.pn)
    BY <1>1, <1>2, <1>3, <1>4, <1>6 DEF BeforeWhole
  <2>2. Place(s.dhs) > 1 => s.nr <= m.header.pn
    <3>1. SUFFICES ASSUME Place(s.dhs) > 1 PROVE s.nr <= m.header.pn
      OBVIOUS
    <3>2. PICK o \in wire : o.header.dh = s.dhr /\ o.header.n + 1 = s.nr
      BY <1>1, <3>1
    <3>3. o.header.n < m.header.pn /\ o.header.n \in Nat
      BY <2>1, <3>2, MessageFacts DEF Whole
    <3> QED BY <1>1, <1>2, <3>2, <3>3
  <2>3. Place(s.dhs) <= 1 => m.header.pn = 0
    <3>1. SUFFICES ASSUME Place(s.dhs) <= 1 PROVE m.header.pn = 0
      OBVIOUS
    <3>2. Place(s.dhs) = 1 /\ Place(s.dhr) = 0
      BY <1>1, <1>2, <1>3, <1>4, <1>6, <3>1, HeardFacts
    <3>3. ASSUME m.header.pn # 0 PROVE FALSE
      <4>1. 0 \in 0 .. m.header.pn - 1
        BY <1>2, <3>3
      <4>2. PICK o \in wire : o.header.dh = s.dhr
        BY <2>1, <4>1 DEF Whole
      <4>3. Place(o.header.dh) >= 1
        BY MessageFacts
      <4> QED BY <3>2, <4>2, <4>3
    <3> QED BY <3>3
  <2> QED BY <1>1, <2>1, <2>2, <2>3
<1> QED BY <1>5, <1>6

-----------------------------------------------------------------------------
\* The session after a message whose key lay aside, one of the chain that is
\* read, and the first that comes of the next chain.
AfterAside(p, s, m) ==
    SessionAt(p, s.dhs.made, s.ns, s.nr, s.pn, s.skipped \ {AsideKey(m)})
AfterAhead(p, s, m) ==
    SessionAt(p, s.dhs.made, s.ns, m.header.n + 1, s.pn,
              s.skipped \cup KeysFrom(m.header.dh, s.nr, m.header.n))
AfterTurn(p, s, m) ==
    SessionAt(p, s.dhs.made + 1, 0, m.header.n + 1, s.ns,
              LeftAside(s, m.header) \cup KeysFrom(m.header.dh, 0, m.header.n))

\* What was read does not open again.
LEMMA ReadAgainFails ==
    ASSUME RatchetInv, NEW p \in Party, NEW s, Ready(p, s),
           NEW m \in opened[p]
    PROVE  ~Opens(s, m.header, m)
<1>1. m \in wire /\ m.from = Other(p) /\ InTurn(p, s)
  BY DEF Ready, Reads
<1>2. Passed(s, m) /\ NothingAside(s, m.header)
  BY <1>1, AsideFacts
<1>3. Place(s.dhs) >= 2
  BY <1>1, <1>2, WhereItIs
<1>4. /\ m.header.dh \in DhKey /\ m.header.n \in Nat /\ m.header.pn \in Nat
      /\ m.key = [root |-> RootAt(Place(m.header.dh)), at |-> m.header.n]
  BY <1>1, MessageFacts
<1>5. Place(s.dhs) \in Nat
  BY <1>1, SessionFields
<1>6. ~(Place(s.dhs) <= 1)
  BY <1>3, <1>5
<1>7. ~(Staged(s, m.header).ok /\ Staged(s, m.header).key = m.key)
  BY <1>1, <1>2, <1>4, <1>6, StagedAgain DEF Passed
<1> QED BY <1>7 DEF Opens

\* What was not read opens, unless too much is missing before it.
LEMMA StagedOutcome ==
    ASSUME RatchetInv, NEW p \in Party, NEW s, Ready(p, s),
           NEW m \in wire \ opened[p], m.from = Other(p)
    PROVE  LET st == Staged(s, m.header) IN
           \/ /\ Passed(s, m) /\ Place(s.dhs) >= 2
              /\ st.ok /\ st.key = m.key /\ st.session = AfterAside(p, s, m)
           \/ /\ ~Passed(s, m) /\ m.header.dh = s.dhr /\ Place(s.dhs) >= 2 /\ s.nr <= m.header.n
              /\ m.header.n <= s.nr + MaxSkip =>
                    st.ok /\ st.key = m.key /\ st.session = AfterAhead(p, s, m)
              /\ ~(m.header.n <= s.nr + MaxSkip) => ~st.ok
           \/ /\ ~Passed(s, m) /\ m.header.dh = Answer(p, s.dhs.made)
              /\ m.header.pn <= s.nr + MaxSkip /\ m.header.n <= MaxSkip =>
                    st.ok /\ st.key = m.key /\ st.session = AfterTurn(p, s, m)
              /\ ~(m.header.pn <= s.nr + MaxSkip /\ m.header.n <= MaxSkip) => ~st.ok
<1> DEFINE st == Staged(s, m.header)
           h == m.header
<1>1. InTurn(p, s) /\ s = SessionAt(p, s.dhs.made, s.ns, s.nr, s.pn, s.skipped)
  BY SessionFields DEF Ready
<1>2. /\ h.dh \in DhKey /\ h.n \in Nat /\ h.pn \in Nat
      /\ m.key = [root |-> RootAt(Place(h.dh)), at |-> h.n]
  BY MessageFacts
<1>3. /\ ~Passed(s, m) => NothingAside(s, h)
      /\ Passed(s, m) => /\ AsideKey(m) \in s.skipped
                         /\ \A k \in s.skipped : k.dh = h.dh /\ k.n = h.n => k = AsideKey(m)
  BY AsideFacts
<1>4. ~Failed.ok
  BY DEF Failed
<1> HIDE DEF h, st
<1>5. CASE Passed(s, m) /\ Place(s.dhs) >= 2
  <2>1. AsideKey(m).dh = h.dh /\ AsideKey(m).n = h.n /\ AsideKey(m).key = m.key
    BY DEF AsideKey, h
  <2>2. st.ok /\ st.key = m.key /\ st.session = WithoutKey(s, AsideKey(m))
    BY <1>3, <1>5, <2>1, StagedAside DEF st, h
  <2>3. WithoutKey(s, AsideKey(m)) = AfterAside(p, s, m)
    <3> DEFINE less == s.skipped \ {AsideKey(m)}
    <3>1. WithoutKey(s, AsideKey(m)) = [s EXCEPT !.skipped = less]
      BY DEF WithoutKey
    <3>2. s.ckr = [root |-> RootAt(Place(DhOf(p, s.dhs.made)) - 1), at |-> s.nr]
      BY <1>1, SessionFields
    <3> HIDE DEF less
    <3>3. AheadTo(s, less, s.ckr, s.nr) = SessionAt(p, s.dhs.made, s.ns, s.nr, s.pn, less)
      BY <1>1, <3>2, AheadRecord
    <3>4. [s EXCEPT !.skipped = less] = AheadTo(s, less, s.ckr, s.nr)
      BY DEF AheadTo
    <3> QED BY <3>1, <3>3, <3>4 DEF AfterAside, less
  <2> QED BY <1>5, <2>2, <2>3 DEF st, h
<1>6. CASE /\ ~Passed(s, m) /\ h.dh = s.dhr /\ Place(s.dhs) >= 2 /\ s.nr <= h.n
  <2>1. st = IF h.n <= s.nr + MaxSkip
             THEN [ok |-> TRUE, key |-> m.key, session |-> AfterAhead(p, s, m)]
             ELSE Failed
    BY <1>1, <1>2, <1>3, <1>6, StagedAhead DEF st, AfterAhead, h
  <2> QED BY <1>4, <1>6, <2>1 DEF st, h
<1>7. CASE ~Passed(s, m) /\ h.dh = Answer(p, s.dhs.made)
  <2>1. IF Place(s.dhs) <= 1 THEN s.nr = 0 ELSE s.nr <= h.pn
    BY <1>7, ReadWithinChain DEF h
  <2>2. st = IF h.pn <= s.nr + MaxSkip /\ h.n <= MaxSkip
             THEN [ok |-> TRUE, key |-> m.key, session |-> AfterTurn(p, s, m)]
             ELSE Failed
    BY <1>1, <1>2, <1>3, <1>7, <2>1, StagedTurn DEF st, AfterTurn, h
  <2> QED BY <1>4, <1>7, <2>2 DEF st, h
<1>8. \/ Passed(s, m) /\ Place(s.dhs) >= 2
      \/ ~Passed(s, m) /\ h.dh = s.dhr /\ Place(s.dhs) >= 2 /\ s.nr <= h.n
      \/ ~Passed(s, m) /\ h.dh = Answer(p, s.dhs.made)
  BY WhereItIs DEF h
<1> QED BY <1>5, <1>6, <1>7, <1>8

-----------------------------------------------------------------------------
\* The key of a number in a chain is that of its message.
LEMMA KeyOfNumber ==
    ASSUME RatchetInv, NEW k, NEW a \in Int, NEW b \in Int
    PROVE  /\ \A o \in wire : o.header.dh = k /\ o.header.n \in a .. b - 1 =>
                 AsideKey(o) \in KeysFrom(k, a, b)
           /\ \A x \in KeysFrom(k, a, b) :
                 \E j \in a .. b - 1 :
                    \A o \in wire : o.header.dh = k /\ o.header.n = j => x = AsideKey(o)
<1>1. ASSUME NEW o \in wire, o.header.dh = k
      PROVE  AsideKey(o) = [dh |-> k, n |-> o.header.n,
                            key |-> [root |-> RootAt(Place(k)), at |-> o.header.n]]
  <2>1. o.key = [root |-> RootAt(Place(o.header.dh)), at |-> o.header.n]
    BY MessageFacts
  <2> QED BY <1>1, <2>1 DEF AsideKey
<1> QED BY <1>1 DEF KeysFrom

\* A message is read whose key lay aside.
LEMMA ReadsAside ==
    ASSUME RatchetInv, NEW p \in Party, NEW s, Ready(p, s),
           NEW m \in wire \ opened[p], m.from = Other(p), Passed(s, m),
           NEW t, t = AfterAside(p, s, m),
           wire' = wire, opened' = [opened EXCEPT ![p] = @ \cup {m}]
    PROVE  Reads(p, t)'
<1>1. /\ InTurn(p, s) /\ s.dhs.made \in Nat /\ s.ns \in Nat /\ s.nr \in Nat /\ s.pn \in Nat
      /\ s.dhs = DhOf(p, s.dhs.made) /\ s.dhr = Heard(p, s.dhs.made)
  BY SessionFields DEF Ready
<1>2. /\ t.dhs = s.dhs /\ t.dhr = s.dhr /\ t.nr = s.nr
      /\ t.skipped = s.skipped \ {AsideKey(m)}
  <2> DEFINE i == s.dhs.made
             less == s.skipped \ {AsideKey(m)}
  <2>1. t = SessionAt(p, i, s.ns, s.nr, s.pn, less)
    BY DEF AfterAside
  <2>2. i \in Nat /\ s.dhs = DhOf(p, i) /\ s.dhr = Heard(p, i)
    BY <1>1
  <2> HIDE DEF i, less
  <2>3. t.dhs = DhOf(p, i) /\ t.dhr = Heard(p, i) /\ t.nr = s.nr /\ t.skipped = less
    BY <1>1, <2>1, <2>2, SessionAtFields
  <2> QED BY <2>2, <2>3 DEF less
<1>3. opened'[p] = opened[p] \cup {m}
  BY DEF RatchetInv, ReadOrAside
<1>4. \A o : Passed(t, o) = Passed(s, o)
  BY <1>2 DEF Passed
<1>5. /\ opened[p] \subseteq {o \in wire : o.from = Other(p)}
      /\ \A o \in opened[p] : Passed(s, o)
      /\ IF Place(s.dhs) <= 1 THEN s.nr = 0
         ELSE \E o \in opened[p] : o.header.dh = s.dhr /\ o.header.n + 1 = s.nr
      /\ s.skipped = {AsideKey(o) : o \in {x \in Unread(p) : Passed(s, x)}}
  BY DEF Ready, Reads
<1>6. {AsideKey(o) : o \in {x \in Unread(p)' : Passed(t, x)}} = t.skipped
  <2>1. Unread(p)' = Unread(p) \ {m}
    BY <1>3 DEF Unread
  <2>2. ASSUME NEW o \in Unread(p), o # m PROVE AsideKey(o) # AsideKey(m)
    BY <2>2, OneKeyOneMessage DEF Unread
  <2> QED BY <1>2, <1>4, <1>5, <2>1, <2>2
<1>7. /\ opened'[p] \subseteq {o \in wire' : o.from = Other(p)}
      /\ \A o \in opened'[p] : Passed(t, o)
  BY <1>3, <1>4, <1>5
<1>8. IF Place(t.dhs) <= 1 THEN t.nr = 0
      ELSE \E o \in opened'[p] : o.header.dh = t.dhr /\ o.header.n + 1 = t.nr
  BY <1>2, <1>3, <1>5
<1> QED BY <1>6, <1>7, <1>8 DEF Reads, Passed

\* A message is read of the chain that is read.
LEMMA ReadsAhead ==
    ASSUME RatchetInv, NEW p \in Party, NEW s, Ready(p, s),
           NEW m \in wire \ opened[p], m.from = Other(p), ~Passed(s, m),
           m.header.dh = s.dhr, Place(s.dhs) >= 2, s.nr <= m.header.n,
           NEW t, t = AfterAhead(p, s, m),
           wire' = wire, opened' = [opened EXCEPT ![p] = @ \cup {m}]
    PROVE  Reads(p, t)'
<1> DEFINE n == m.header.n
           d == m.header.dh
<1>1. /\ InTurn(p, s) /\ s.dhs.made \in Nat /\ s.ns \in Nat /\ s.nr \in Nat /\ s.pn \in Nat
      /\ s.dhs = DhOf(p, s.dhs.made) /\ s.dhr = Heard(p, s.dhs.made) /\ Place(s.dhs) \in Nat
      /\ PlaceOf(Other(p)) <= Place(s.dhs) + 1
  BY SessionFields DEF Ready
<1>2. n \in Nat /\ n + 1 \in Nat /\ d \in DhKey /\ PlaceOf(Other(p)) \in Nat
  <2>1. n \in Nat /\ d \in DhKey /\ PlaceOf(m.from) \in Nat
    BY MessageFacts, SenderPlace
  <2> QED BY <2>1
<1>3. Place(d) = Place(s.dhs) - 1
  BY <1>1, HeardFacts
<1>4. /\ t.dhs = s.dhs /\ t.dhr = s.dhr /\ t.nr = n + 1
      /\ t.skipped = s.skipped \cup KeysFrom(d, s.nr, n)
  <2> DEFINE i == s.dhs.made
             more == s.skipped \cup KeysFrom(d, s.nr, n)
             j == n + 1
  <2>1. t = SessionAt(p, i, s.ns, j, s.pn, more)
    BY DEF AfterAhead
  <2>2. i \in Nat /\ s.dhs = DhOf(p, i) /\ s.dhr = Heard(p, i)
    BY <1>1
  <2>3. j \in Nat /\ s.ns \in Nat /\ s.pn \in Nat
    BY <1>1, <1>2
  <2> HIDE DEF i, more, j, n, d
  <2>4. t.dhs = DhOf(p, i) /\ t.dhr = Heard(p, i) /\ t.nr = j /\ t.skipped = more
    BY <2>1, <2>2, <2>3, SessionAtFields
  <2> QED BY <2>2, <2>4 DEF more, j
<1>5. opened'[p] = opened[p] \cup {m}
  BY DEF RatchetInv, ReadOrAside
<1>6. /\ opened[p] \subseteq {o \in wire : o.from = Other(p)}
      /\ \A o \in opened[p] : Passed(s, o)
      /\ s.skipped = {AsideKey(o) : o \in {x \in Unread(p) : Passed(s, x)}}
  BY DEF Ready, Reads
<1> HIDE DEF n, d
<1>7. ASSUME NEW o \in wire
      PROVE  Passed(t, o) <=>
                Passed(s, o) \/ (o.header.dh = d /\ s.nr <= o.header.n /\ o.header.n <= n)
  <2>1. o.header.n \in Nat
    BY MessageFacts
  <2>2. d = s.dhr /\ s.nr <= n
    BY DEF d, n
  <2>3. Place(o.header.dh) < Place(t.dhs) <=> Place(o.header.dh) < Place(s.dhs)
    BY <1>4
  <2>4. o.header.dh = d => Place(o.header.dh) < Place(s.dhs)
    BY <1>1, <1>3
  <2> QED BY <1>1, <1>2, <1>4, <2>1, <2>2, <2>3, <2>4 DEF Passed
<1>8. \A j \in 0 .. n - 1 : \E o \in wire : o.header.dh = d /\ o.header.n = j
  <2>1. PlaceOf(m.from) <= Place(m.header.dh) + 2
    BY <1>1, <1>2, <1>3 DEF d
  <2> QED BY <2>1, ChainBelow DEF n, d
<1>9. Unread(p)' = Unread(p) \ {m}
  BY <1>5 DEF Unread
<1>10. ASSUME NEW o \in wire, o.header.dh = d, s.nr <= o.header.n, o.header.n < n
       PROVE  o \in Unread(p)' /\ Passed(t, o)
  <2>1. o.header.n \in Nat /\ o.from = o.header.dh.of /\ m.from = m.header.dh.of
    BY MessageFacts
  <2>2. o.from = Other(p) /\ o # m
    BY <1>2, <1>10, <2>1 DEF d, n
  <2>3. ~Passed(s, o)
    BY <1>1, <1>10, <2>1 DEF Passed, d
  <2>4. o \notin opened[p]
    BY <1>6, <2>3
  <2>5. Passed(t, o)
    BY <1>2, <1>7, <1>10, <2>1
  <2> QED BY <1>9, <2>2, <2>4, <2>5 DEF Unread
<1>11. ASSUME NEW x \in t.skipped PROVE \E o \in Unread(p)' : Passed(t, o) /\ x = AsideKey(o)
  <2>1. CASE x \in s.skipped
    <3>1. PICK o \in Unread(p) : Passed(s, o) /\ x = AsideKey(o)
      BY <1>6, <2>1
    <3>2. o # m /\ o \in wire
      BY <3>1 DEF Unread
    <3> QED BY <1>7, <1>9, <3>1, <3>2
  <2>2. CASE x \in KeysFrom(d, s.nr, n)
    <3>1. PICK j \in s.nr .. n - 1 :
              \A o \in wire : o.header.dh = d /\ o.header.n = j => x = AsideKey(o)
      BY <1>1, <1>2, <2>2, KeyOfNumber
    <3>2. j \in 0 .. n - 1 /\ s.nr <= j /\ j < n
      BY <1>1, <1>2, <3>1
    <3>3. PICK o \in wire : o.header.dh = d /\ o.header.n = j
      BY <1>8, <3>2
    <3>4. o \in Unread(p)' /\ Passed(t, o)
      BY <1>10, <3>2, <3>3
    <3> QED BY <3>1, <3>3, <3>4
  <2> QED BY <1>4, <2>1, <2>2
<1>12. ASSUME NEW o \in Unread(p)', Passed(t, o) PROVE AsideKey(o) \in t.skipped
  <2>1. o \in wire /\ o \in Unread(p) /\ o # m
    BY <1>9 DEF Unread
  <2>2. CASE Passed(s, o)
    BY <1>4, <1>6, <2>1, <2>2
  <2>3. CASE o.header.dh = d /\ s.nr <= o.header.n /\ o.header.n <= n
    <3>1. o.header.n # n
      BY <2>1, <2>3, OneKeyOneMessage DEF d, n
    <3>2. o.header.n \in Nat
      BY <2>1, MessageFacts
    <3>3. o.header.n \in s.nr .. n - 1
      BY <1>1, <1>2, <2>3, <3>1, <3>2
    <3>4. AsideKey(o) \in KeysFrom(d, s.nr, n)
      BY <1>1, <1>2, <2>1, <2>3, <3>3, KeyOfNumber
    <3> QED BY <1>4, <3>4
  <2> QED BY <1>7, <1>12, <2>1, <2>2, <2>3
<1>13. t.skipped = {AsideKey(o) : o \in {x \in Unread(p)' : Passed(t, x)}}
  BY <1>11, <1>12
<1>14. /\ opened'[p] \subseteq {o \in wire' : o.from = Other(p)}
       /\ \A o \in opened'[p] : Passed(t, o)
  <2>1. Passed(t, m)
    BY <1>2, <1>7 DEF d, n
  <2> QED BY <1>5, <1>6, <1>7, <2>1
<1>15. \E o \in opened'[p] : o.header.dh = t.dhr /\ o.header.n + 1 = t.nr
  BY <1>4, <1>5 DEF n, d
<1>16. ~(Place(t.dhs) <= 1)
  BY <1>1, <1>4
<1> QED BY <1>13, <1>14, <1>15, <1>16 DEF Reads, Passed

\* The first message that comes of the next chain is read.
LEMMA ReadsTurn ==
    ASSUME RatchetInv, NEW p \in Party, NEW s, Ready(p, s),
           NEW m \in wire \ opened[p], m.from = Other(p), ~Passed(s, m),
           m.header.dh = Answer(p, s.dhs.made),
           NEW t, t = AfterTurn(p, s, m),
           wire' = wire, opened' = [opened EXCEPT ![p] = @ \cup {m}]
    PROVE  Reads(p, t)'
<1> DEFINE n == m.header.n
           d == m.header.dh
           pn == m.header.pn
           i == s.dhs.made
           q == Other(p)
<1>1. /\ InTurn(p, s) /\ i \in Nat /\ s.ns \in Nat /\ s.nr \in Nat /\ s.pn \in Nat
      /\ s.dhs = DhOf(p, i) /\ s.dhr = Heard(p, i) /\ Place(s.dhs) \in Nat
      /\ PlaceOf(q) <= Place(s.dhs) + 1
  BY SessionFields DEF Ready
<1>2. n \in Nat /\ n + 1 \in Nat /\ d \in DhKey /\ pn \in Nat /\ PlaceOf(q) \in Nat
  <2>1. n \in Nat /\ d \in DhKey /\ pn \in Nat /\ PlaceOf(m.from) \in Nat
    BY MessageFacts, SenderPlace
  <2> QED BY <2>1
<1>3. /\ Place(d) = Place(s.dhs) + 1 /\ Heard(p, i + 1) = d
      /\ Place(DhOf(p, i + 1)) = Place(s.dhs) + 2
      /\ Place(s.dhs) >= 1 => Place(s.dhr) = Place(s.dhs) - 1
  <2> HIDE DEF i, d
  <2> QED BY <1>1, HeardFacts DEF d, i
<1>4. /\ t.dhs = DhOf(p, i + 1) /\ t.dhr = d /\ t.nr = n + 1
      /\ t.skipped = LeftAside(s, m.header) \cup KeysFrom(d, 0, n)
  <2> DEFINE more == LeftAside(s, m.header) \cup KeysFrom(d, 0, n)
             j == i + 1
             nr == n + 1
  <2>1. j \in Nat /\ 0 \in Nat /\ nr \in Nat /\ s.ns \in Nat
    BY <1>1, <1>2
  <2>2. t = SessionAt(p, j, 0, nr, s.ns, more)
    BY DEF AfterTurn
  <2>3. Heard(p, j) = d
    BY <1>3
  <2> HIDE DEF more, j, n, d, nr, i, pn, q
  <2>4. t.dhs = DhOf(p, j) /\ t.dhr = Heard(p, j) /\ t.nr = nr /\ t.skipped = more
    BY <2>1, <2>2, SessionAtFields
  <2> QED BY <2>3, <2>4 DEF more, j, nr
<1>5. opened'[p] = opened[p] \cup {m}
  BY DEF RatchetInv, ReadOrAside
<1>6. /\ opened[p] \subseteq {o \in wire : o.from = q}
      /\ \A o \in opened[p] : Passed(s, o)
      /\ s.skipped = {AsideKey(o) : o \in {x \in Unread(p) : Passed(s, x)}}
  BY DEF Ready, Reads
<1>7. /\ IF Place(s.dhs) <= 1 THEN s.nr = 0 ELSE s.nr <= pn
      /\ Place(s.dhs) >= 2 => Whole(s.dhr, pn)
  BY ReadWithinChain
<1>8. \A j \in 0 .. n - 1 : \E o \in wire : o.header.dh = d /\ o.header.n = j
  <2>1. PlaceOf(m.from) <= Place(m.header.dh) + 2
    BY <1>1, <1>2, <1>3
  <2> QED BY <2>1, ChainBelow
<1>9. ASSUME NEW o \in wire, o.from = q
      PROVE  \/ o.header.dh = d /\ ~Passed(s, o)
             \/ /\ o.header.dh # d /\ Place(o.header.dh) < Place(s.dhs) /\ Place(s.dhs) >= 2
                /\ Passed(s, o) \/ (o.header.dh = s.dhr /\ s.nr <= o.header.n)
  <2> HIDE DEF n, pn, i, q, d
  <2>1. Place(o.header.dh) \in Nat
    BY MessageFacts
  <2>2. \/ Passed(s, o) /\ Place(s.dhs) >= 2
        \/ /\ ~Passed(s, o) /\ o.header.dh = s.dhr /\ Place(s.dhs) >= 2 /\ s.nr <= o.header.n
        \/ ~Passed(s, o) /\ o.header.dh = Answer(p, i)
    BY <1>9, WhereItIs DEF q, i
  <2>3. CASE Passed(s, o) /\ Place(s.dhs) >= 2
    <3>1. Place(o.header.dh) < Place(s.dhs)
      BY <2>3 DEF Passed
    <3>2. o.header.dh # d
      BY <1>1, <1>3, <2>1, <3>1
    <3> QED BY <2>3, <3>1, <3>2
  <2>4. CASE /\ ~Passed(s, o) /\ o.header.dh = s.dhr /\ Place(s.dhs) >= 2 /\ s.nr <= o.header.n
    <3>1. Place(o.header.dh) < Place(s.dhs) /\ o.header.dh # d
      BY <1>1, <1>3, <2>4
    <3> QED BY <2>4, <3>1
  <2>5. CASE ~Passed(s, o) /\ o.header.dh = Answer(p, i)
    BY <2>5 DEF d, i
  <2> QED BY <2>2, <2>3, <2>4, <2>5
<1> HIDE DEF n, pn, i, q, d
<1>10. ASSUME NEW o \in wire, o.from = q
       PROVE  Passed(t, o) <=> (o.header.dh = d => o.header.n <= n)
  <2>1. o.header.n \in Nat /\ Place(o.header.dh) \in Nat
    BY MessageFacts
  <2>2. Place(o.header.dh) < Place(t.dhs)
    BY <1>1, <1>3, <1>4, <1>9, <1>10, <2>1
  <2> QED BY <1>2, <1>4, <2>1, <2>2 DEF Passed
<1>11. Unread(p)' = Unread(p) \ {m}
  BY <1>5 DEF Unread
<1>12. ASSUME NEW o \in wire, o.from = q, o \notin opened[p],
              o.header.dh = d => o.header.n < n
       PROVE  o \in Unread(p)' /\ Passed(t, o)
  <2>1. o.header.n \in Nat
    BY MessageFacts
  <2>2. o # m
    BY <1>2, <1>12, <2>1 DEF d, n
  <2>3. Passed(t, o)
    BY <1>2, <1>10, <1>12, <2>1
  <2> QED BY <1>11, <1>12, <2>2, <2>3 DEF Unread, q
<1>13. ASSUME NEW x \in t.skipped PROVE \E o \in Unread(p)' : Passed(t, o) /\ x = AsideKey(o)
  <2>1. CASE x \in s.skipped
    <3>1. PICK o \in Unread(p) : Passed(s, o) /\ x = AsideKey(o)
      BY <1>6, <2>1
    <3>2. o \in wire /\ o \notin opened[p] /\ o.from = q
      BY DEF Unread, q
    <3>3. o.header.dh # d
      BY <1>9, <3>1, <3>2
    <3> QED BY <1>12, <3>1, <3>2, <3>3
  <2>2. CASE Place(s.dhs) >= 2 /\ x \in KeysFrom(s.dhr, s.nr, pn)
    <3>1. PICK j \in s.nr .. pn - 1 :
              \A o \in wire : o.header.dh = s.dhr /\ o.header.n = j => x = AsideKey(o)
      BY <1>1, <1>2, <2>2, KeyOfNumber
    <3>2. j \in 0 .. pn - 1 /\ s.nr <= j
      BY <1>1, <1>2, <3>1
    <3>3. PICK o \in wire : o.header.dh = s.dhr /\ o.header.n = j
      BY <1>7, <2>2, <3>2 DEF Whole
    <3>4. s.dhr # d
      BY <1>1, <1>3, <2>2
    <3>5. o.from = q
      <4>1. s.dhr.of = Other(p)
        <5>1. Heard(p, i) = DhOf(Other(p), Heard(p, i).made)
          BY <1>1, <2>2, HeardFacts
        <5> QED BY <1>1, <5>1 DEF DhOf
      <4> QED BY <3>3, <4>1, MessageFacts DEF q
    <3>6. ~Passed(s, o)
      BY <1>1, <3>2, <3>3 DEF Passed
    <3>7. o \in Unread(p)' /\ Passed(t, o)
      BY <1>6, <1>12, <3>3, <3>4, <3>5, <3>6
    <3> QED BY <3>1, <3>3, <3>7
  <2>3. CASE x \in KeysFrom(d, 0, n)
    <3>1. PICK j \in 0 .. n - 1 :
              \A o \in wire : o.header.dh = d /\ o.header.n = j => x = AsideKey(o)
      <4>1. 0 \in Int /\ n \in Int
        BY <1>2
      <4>2. \A y \in KeysFrom(d, 0, n) : \E j \in 0 .. n - 1 :
                \A o \in wire : o.header.dh = d /\ o.header.n = j => y = AsideKey(o)
        BY <4>1, KeyOfNumber
      <4> QED BY <2>3, <4>2
    <3>2. PICK o \in wire : o.header.dh = d /\ o.header.n = j
      BY <1>8, <3>1
    <3>3. o.from = q
      <4>1. o.from = o.header.dh.of /\ m.from = m.header.dh.of
        BY MessageFacts
      <4> QED BY <3>2, <4>1 DEF d, q
    <3>4. o \notin opened[p]
      BY <1>6, <1>9, <3>2, <3>3
    <3>5. o.header.n < n
      BY <1>2, <3>1, <3>2
    <3> QED BY <1>12, <3>1, <3>2, <3>3, <3>4, <3>5
  <2>4. \/ x \in s.skipped
        \/ Place(s.dhs) >= 2 /\ x \in KeysFrom(s.dhr, s.nr, pn)
        \/ x \in KeysFrom(d, 0, n)
    BY <1>1, <1>4 DEF LeftAside, pn
  <2> QED BY <2>1, <2>2, <2>3, <2>4
<1>14. ASSUME NEW o \in Unread(p)', Passed(t, o) PROVE AsideKey(o) \in t.skipped
  <2>1. o \in wire /\ o \notin opened[p] /\ o.from = q /\ o # m
    BY <1>11 DEF Unread, q
  <2>2. o.header.n \in Nat
    BY <2>1, MessageFacts
  <2>3. CASE o.header.dh = d
    <3>1. o.header.n <= n
      BY <1>10, <1>14, <2>1, <2>3
    <3>2. o.header.n # n
      BY <2>1, <2>3, OneKeyOneMessage DEF d, n
    <3>3. o.header.n \in 0 .. n - 1
      BY <1>2, <2>2, <3>1, <3>2
    <3>4. AsideKey(o) \in KeysFrom(d, 0, n)
      BY <1>2, <2>1, <2>3, <3>3, KeyOfNumber
    <3> QED BY <1>4, <3>4
  <2>4. CASE o.header.dh # d /\ Passed(s, o)
    <3>1. AsideKey(o) \in s.skipped
      BY <1>6, <2>1, <2>4 DEF Unread, q
    <3> QED BY <1>4, <3>1 DEF LeftAside
  <2>5. CASE o.header.dh = s.dhr /\ s.nr <= o.header.n /\ Place(s.dhs) >= 2
    <3>1. o.header.n < pn
      BY <1>7, <2>1, <2>5 DEF Whole
    <3>2. o.header.n \in s.nr .. pn - 1
      BY <1>1, <1>2, <2>2, <2>5, <3>1
    <3>3. AsideKey(o) \in KeysFrom(s.dhr, s.nr, pn)
      BY <1>1, <1>2, <2>1, <2>5, <3>2, KeyOfNumber
    <3> QED BY <1>1, <1>4, <2>5, <3>3 DEF LeftAside, pn
  <2> QED BY <1>9, <2>1, <2>3, <2>4, <2>5
<1>15. t.skipped = {AsideKey(o) : o \in {x \in Unread(p)' : Passed(t, x)}}
  BY <1>13, <1>14
<1>16. /\ opened'[p] \subseteq {o \in wire' : o.from = Other(p)}
       /\ \A o \in opened'[p] : Passed(t, o)
  <2>1. Passed(t, m)
    BY <1>2, <1>10 DEF d, n, q
  <2>2. \A o \in opened[p] : Passed(t, o)
    BY <1>6, <1>9, <1>10
  <2> QED BY <1>5, <1>6, <2>1, <2>2 DEF q
<1>17. \E o \in opened'[p] : o.header.dh = t.dhr /\ o.header.n + 1 = t.nr
  BY <1>4, <1>5 DEF n, d
<1>18. ~(Place(t.dhs) <= 1)
  BY <1>1, <1>3, <1>4
<1> QED BY <1>15, <1>16, <1>17, <1>18 DEF Reads, Passed

-----------------------------------------------------------------------------
\* A session after a message was read: in turn, its chains whole, and two
\* places on if the other was one ahead.
LEMMA AfterRead ==
    ASSUME RatchetInv, NEW p \in Party, NEW s, Ready(p, s),
           NEW m \in wire, m.from = Other(p), NEW t,
           \/ t = AfterAside(p, s, m) /\ Place(s.dhs) >= 2
           \/ t = AfterAhead(p, s, m) /\ Place(s.dhs) >= 2
           \/ t = AfterTurn(p, s, m) /\ ~Passed(s, m) /\ m.header.dh = Answer(p, s.dhs.made)
    PROVE  /\ InTurn(p, t) /\ (p = "bob" => t.dhs.made > 0)
           /\ s.dhs.made \in Nat /\ s.dhs.made <= t.dhs.made
           /\ \/ Place(t.dhs) = PlaceOf(p)
              \/ Place(t.dhs) = PlaceOf(p) + 2 /\ PlaceOf(Other(p)) = PlaceOf(p) + 1
           /\ Whole(t.dhs, t.ns) /\ BeforeWhole(p, t.dhs.made, t.pn)
<1> DEFINE i == s.dhs.made
           n == m.header.n
<1>1. /\ i \in Nat /\ s.ns \in Nat /\ s.nr \in Nat /\ s.pn \in Nat /\ s.dhs = DhOf(p, i)
      /\ Place(s.dhs) \in Nat /\ Place(s.dhs) = PlaceOf(p)
      /\ Whole(s.dhs, s.ns) /\ BeforeWhole(p, i, s.pn)
  BY SessionFields DEF Ready
<1>2. n \in Nat /\ n + 1 \in Nat
  <2>1. n \in Nat
    BY MessageFacts
  <2> QED BY <2>1
<1> HIDE DEF i, n
<1>3. ASSUME NEW nr \in Nat, NEW aside, t = SessionAt(p, i, s.ns, nr, s.pn, aside),
             Place(s.dhs) >= 2
      PROVE  /\ InTurn(p, t) /\ t.dhs = s.dhs /\ t.dhs.made = i /\ t.ns = s.ns /\ t.pn = s.pn
             /\ p = "bob" => i > 0
  <2>1. InTurn(p, t) /\ t.dhs = s.dhs /\ t.dhs.made = i /\ t.ns = s.ns /\ t.pn = s.pn
    BY <1>1, <1>3, SessionAtFields
  <2>2. p = "bob" => Place(DhOf(p, i)) = 2 * i
    BY <1>1, DhFacts
  <2>3. p = "bob" => i > 0
    BY <1>1, <1>3, <2>2
  <2> QED BY <2>1, <2>3
<1>4. CASE t = AfterAside(p, s, m) /\ Place(s.dhs) >= 2
  <2>1. t = SessionAt(p, i, s.ns, s.nr, s.pn, s.skipped \ {AsideKey(m)})
    BY <1>4 DEF AfterAside, i
  <2>2. /\ InTurn(p, t) /\ t.dhs = s.dhs /\ t.dhs.made = i /\ t.ns = s.ns /\ t.pn = s.pn
        /\ p = "bob" => i > 0
    BY <1>1, <1>3, <1>4, <2>1
  <2> QED BY <1>1, <2>2 DEF i
<1>5. CASE t = AfterAhead(p, s, m) /\ Place(s.dhs) >= 2
  <2>1. t = SessionAt(p, i, s.ns, n + 1, s.pn, s.skipped \cup KeysFrom(m.header.dh, s.nr, n))
    BY <1>5 DEF AfterAhead, i, n
  <2>2. /\ InTurn(p, t) /\ t.dhs = s.dhs /\ t.dhs.made = i /\ t.ns = s.ns /\ t.pn = s.pn
        /\ p = "bob" => i > 0
    BY <1>2, <1>3, <1>5, <2>1
  <2> QED BY <1>1, <2>2 DEF i
<1>6. CASE t = AfterTurn(p, s, m) /\ ~Passed(s, m) /\ m.header.dh = Answer(p, s.dhs.made)
  <2> DEFINE j == i + 1
             more == LeftAside(s, m.header) \cup KeysFrom(m.header.dh, 0, n)
             nr == n + 1
  <2>1. t = SessionAt(p, j, 0, nr, s.ns, more)
    BY <1>6 DEF AfterTurn, i, n
  <2>2. j \in Nat /\ j > 0 /\ j - 1 = i /\ nr \in Nat /\ 0 \in Nat
    BY <1>1, <1>2
  <2> HIDE DEF j, more, nr
  <2>3. InTurn(p, t) /\ t.dhs = DhOf(p, j) /\ t.dhs.made = j /\ t.ns = 0 /\ t.pn = s.ns
    BY <1>1, <2>1, <2>2, SessionAtFields
  <2>4. Place(DhOf(p, j)) = Place(s.dhs) + 2
    BY <1>1, HeardFacts DEF j
  <2>5. PlaceOf(Other(p)) = Place(s.dhs) + 1
    <3>1. Place(Answer(p, i)) = Place(s.dhs) + 1
      BY <1>1, HeardFacts
    <3>2. ~(Place(m.header.dh) < Place(s.dhs))
      BY <1>1, <1>6, <3>1 DEF i
    <3>3. /\ Place(m.header.dh) <= PlaceOf(Other(p)) /\ PlaceOf(Other(p)) \in Nat
          /\ Place(m.header.dh) \in Nat
      BY MessageFacts, SenderPlace
    <3>4. PlaceOf(Other(p)) <= Place(s.dhs) + 1
      BY DEF Ready
    <3> QED BY <1>1, <1>6, <3>1, <3>3, <3>4 DEF i
  <2>6. Whole(DhOf(p, j), 0)
    <3>1. ASSUME NEW o \in wire PROVE o.header.dh # DhOf(p, j)
      <4>1. /\ o.header.dh.of = o.from /\ Place(o.header.dh) \in Nat
            /\ Place(o.header.dh) <= PlaceOf(o.from)
        BY MessageFacts, SenderPlace
      <4>2. DhOf(p, j).of = p
        BY DEF DhOf
      <4> QED BY <1>1, <2>4, <4>1, <4>2
    <3> QED BY <3>1 DEF Whole
  <2>7. BeforeWhole(p, j, s.ns)
    BY <1>1, <2>2 DEF BeforeWhole
  <2>8. i <= j
    BY <1>1, <2>2
  <2> QED BY <1>1, <2>2, <2>3, <2>4, <2>5, <2>6, <2>7, <2>8 DEF i
<1> QED BY <1>4, <1>5, <1>6

\* A session of one party that follows on another's.
LEMMA Installed ==
    ASSUME RatchetInv, NEW p \in Party, NEW t, InTurn(p, t), p = "bob" => t.dhs.made > 0,
           session[p] # NoSession => session[p].dhs.made <= t.dhs.made,
           Place(t.dhs) <= PlaceOf(Other(p)) + 1, PlaceOf(Other(p)) <= Place(t.dhs) + 1,
           session' = [session EXCEPT ![p] = t]
    PROVE  /\ session'[p] = t /\ t # NoSession /\ \A q \in Party : q # p => session'[q] = session[q]
           /\ SessionsInTurn'
           /\ \A q \in Party : session[q] # NoSession =>
                session'[q] # NoSession /\ session[q].dhs.made <= session'[q].dhs.made
<1>1. DOMAIN session = Party
  BY DEF RatchetInv, SessionsInTurn
<1>2. /\ session'[p] = t /\ DOMAIN session' = Party
      /\ \A q \in Party : q # p => session'[q] = session[q]
  BY <1>1
<1>3. t # NoSession
  BY SessionFields
<1>4. /\ PlaceOf(p)' = Place(t.dhs)
      /\ \A q \in Party : q # p => PlaceOf(q)' = PlaceOf(q)
  BY <1>2, <1>3 DEF PlaceOf
<1>5. ASSUME NEW q \in Party, session'[q] # NoSession
      PROVE  InTurn(q, session'[q]) /\ (q = "bob" => session'[q].dhs.made > 0)
  <2>1. CASE q = p
    BY <1>2, <2>1
  <2>2. CASE q # p
    BY <1>2, <1>5, <2>2 DEF RatchetInv, SessionsInTurn
  <2> QED BY <2>1, <2>2
<1>6. PlaceOf("alice")' <= PlaceOf("bob")' + 1 /\ PlaceOf("bob")' <= PlaceOf("alice")' + 1
  <2>1. CASE p = "alice"
    BY <1>4, <2>1, Parties DEF Party
  <2>2. CASE p = "bob"
    BY <1>4, <2>2, Parties DEF Party
  <2> QED BY <2>1, <2>2 DEF Party
<1>7. ASSUME NEW q \in Party, session[q] # NoSession
      PROVE  session'[q] # NoSession /\ session[q].dhs.made <= session'[q].dhs.made
  <2>1. CASE q = p
    BY <1>2, <1>3, <1>7, <2>1
  <2>2. CASE q # p
    <3>1. session[q].dhs.made \in Nat
      BY <1>7 DEF RatchetInv, SessionsInTurn, InTurn
    <3> QED BY <1>2, <1>7, <2>2, <3>1
  <2> QED BY <2>1, <2>2
<1>8. SessionsInTurn'
  BY <1>2, <1>5, <1>6 DEF SessionsInTurn, InTurn
<1> QED BY <1>2, <1>3, <1>7, <1>8

\* Reading a message keeps the invariant.
LEMMA ReadKeeps ==
    ASSUME RatchetInv, NEW p \in Party, NEW s, Ready(p, s),
           session[p] # NoSession => s = session[p],
           NEW m \in wire \ opened[p], m.from = Other(p), NEW t,
           \/ t = AfterAside(p, s, m) /\ Place(s.dhs) >= 2 /\ Passed(s, m)
           \/ /\ t = AfterAhead(p, s, m) /\ Place(s.dhs) >= 2 /\ ~Passed(s, m)
              /\ m.header.dh = s.dhr /\ s.nr <= m.header.n
           \/ t = AfterTurn(p, s, m) /\ ~Passed(s, m) /\ m.header.dh = Answer(p, s.dhs.made),
           session' = [session EXCEPT ![p] = t],
           opened' = [opened EXCEPT ![p] = @ \cup {m}], wire' = wire, repeated' = repeated
    PROVE  RatchetInv'
<1>1. /\ InTurn(p, t) /\ (p = "bob" => t.dhs.made > 0)
      /\ s.dhs.made \in Nat /\ s.dhs.made <= t.dhs.made
      /\ \/ Place(t.dhs) = PlaceOf(p)
         \/ Place(t.dhs) = PlaceOf(p) + 2 /\ PlaceOf(Other(p)) = PlaceOf(p) + 1
      /\ Whole(t.dhs, t.ns) /\ BeforeWhole(p, t.dhs.made, t.pn)
  BY AfterRead
<1>2. Reads(p, t)'
  BY ReadsAside, ReadsAhead, ReadsTurn
<1>3. Place(t.dhs) <= PlaceOf(Other(p)) + 1 /\ PlaceOf(Other(p)) <= Place(t.dhs) + 1
  <2>1. /\ PlaceOf(p) \in Nat /\ PlaceOf(Other(p)) \in Nat
    <3>1. PlaceOf(p) \in Nat
      <4>1. InTurn(p, s) /\ Place(s.dhs) = PlaceOf(p)
        BY DEF Ready
      <4>2. Place(s.dhs) \in Nat
        BY <4>1, SessionFields
      <4> QED BY <4>1, <4>2
    <3> QED BY <3>1, SenderPlace
  <2>2. PlaceOf(Other(p)) <= PlaceOf(p) + 1 /\ PlaceOf(p) <= PlaceOf(Other(p)) + 1
    BY Parties DEF RatchetInv, SessionsInTurn, Party
  <2> QED BY <1>1, <2>1, <2>2
<1>4. /\ session'[p] = t /\ t # NoSession /\ \A q \in Party : q # p => session'[q] = session[q]
      /\ SessionsInTurn'
      /\ \A q \in Party : session[q] # NoSession =>
                session'[q] # NoSession /\ session[q].dhs.made <= session'[q].dhs.made
  BY <1>1, <1>3, Installed
<1>5. ChainsAreWhole'
  <2>1. ASSUME NEW q \in Party, session'[q] # NoSession
        PROVE  /\ Whole(session'[q].dhs, session'[q].ns)
               /\ BeforeWhole(q, session'[q].dhs.made, session'[q].pn)
    <3>1. CASE q = p
      BY <1>1, <1>4, <3>1
    <3>2. CASE q # p
      BY <1>4, <2>1, <3>2 DEF RatchetInv, ChainsAreWhole
    <3> QED BY <3>1, <3>2
  <2> QED BY <2>1 DEF ChainsAreWhole, Whole, BeforeWhole
<1>6. MessagesInTurn'
  <2>1. ASSUME NEW o \in wire PROVE MessageOK(o)'
    <3>1. MessageOK(o)
      BY DEF RatchetInv, MessagesInTurn
    <3>2. /\ o.from \in Party /\ session[o.from] # NoSession
          /\ o.header.dh.made <= session[o.from].dhs.made /\ o.header.dh.made \in Nat
      BY <3>1 DEF MessageOK
    <3>3. session'[o.from] # NoSession /\ session[o.from].dhs.made <= session'[o.from].dhs.made
      BY <1>4, <3>2
    <3>4. session[o.from].dhs.made \in Nat /\ session'[o.from].dhs.made \in Nat
      BY <1>4, <3>2, <3>3 DEF RatchetInv, SessionsInTurn, InTurn
    <3>5. o.header.dh.made <= session'[o.from].dhs.made
      BY <3>2, <3>3, <3>4
    <3> QED BY <3>1, <3>3, <3>5 DEF MessageOK, BeforeWhole, Whole
  <2> QED BY <2>1 DEF RatchetInv, MessagesInTurn
<1>7. ReadOrAside'
  <2>1. /\ DOMAIN opened' = Party /\ repeated' = FALSE
        /\ \A q \in Party : q # p => opened'[q] = opened[q]
    BY DEF RatchetInv, ReadOrAside
  <2>2. ASSUME NEW q \in Party, q # p, NEW v, v = session'[q], v # NoSession PROVE Reads(q, v)'
    <3>1. v = session[q] /\ opened'[q] = opened[q]
      BY <1>4, <2>1, <2>2
    <3>2. Reads(q, v)
      BY <2>2, <3>1 DEF RatchetInv, ReadOrAside
    <3>3. Unread(q)' = Unread(q)
      BY <3>1 DEF Unread
    <3>4. /\ opened'[q] \subseteq {o \in wire' : o.from = Other(q)}
          /\ \A o \in opened'[q] : Passed(v, o)
          /\ IF Place(v.dhs) <= 1 THEN v.nr = 0
             ELSE \E o \in opened'[q] : o.header.dh = v.dhr /\ o.header.n + 1 = v.nr
      BY <3>1, <3>2 DEF Reads
    <3>5. v.skipped = {AsideKey(o) : o \in {x \in Unread(q)' : Passed(v, x)}}
      BY <3>2, <3>3 DEF Reads
    <3> QED BY <3>4, <3>5 DEF Reads, Passed
  <2>3. ASSUME NEW q \in Party, q # p, session'[q] = NoSession PROVE opened'[q] = {}
    BY <1>4, <2>1, <2>3 DEF RatchetInv, ReadOrAside
  <2>4. ASSUME NEW q \in Party, session'[q] # NoSession, NEW v, v = session'[q] PROVE Reads(q, v)'
    BY <1>2, <1>4, <2>2, <2>4
  <2>5. ASSUME NEW q \in Party, session'[q] # NoSession
        PROVE  /\ opened'[q] \subseteq {o \in wire' : o.from = Other(q)}
               /\ \A o \in opened'[q] : Passed(session'[q], o)
               /\ IF Place(session'[q].dhs) <= 1 THEN session'[q].nr = 0
                  ELSE \E o \in opened'[q] : o.header.dh = session'[q].dhr
                                               /\ o.header.n + 1 = session'[q].nr
               /\ session'[q].skipped =
                    {AsideKey(o) : o \in {x \in Unread(q)' : Passed(session'[q], x)}}
    <3>1. PICK v : v = session'[q]
      OBVIOUS
    <3>2. Reads(q, v)'
      BY <2>4, <2>5, <3>1
    <3> QED BY <3>1, <3>2 DEF Reads, Passed
  <2>6. ASSUME NEW q \in Party
        PROVE  (IF session[q] = NoSession THEN opened[q] = {} ELSE Reads(q, session[q]))'
    <3>1. CASE session'[q] = NoSession
      BY <1>4, <2>3, <3>1
    <3>2. CASE session'[q] # NoSession
      BY <2>5, <3>2 DEF Reads, Passed
    <3> QED BY <3>1, <3>2
  <2> QED BY <2>1, <2>6 DEF ReadOrAside
<1> QED BY <1>4, <1>5, <1>6, <1>7 DEF RatchetInv

\* decrypt keeps the invariant.
LEMMA DecryptKeeps ==
    ASSUME RatchetInv, NEW p \in Party, NEW m \in wire, Decrypt(p, m)
    PROVE  RatchetInv'
<1> DEFINE s == Before(p, m)
           t == Staged(s, m.header).session
<1>1. m.from = Other(p) /\ Opens(s, m.header, m)
  BY DEF Decrypt
<1>2. Ready(p, s) /\ (session[p] # NoSession => s = session[p])
  <2>1. Ready(p, s)
    BY <1>1, BeginsReady
  <2> QED BY <2>1 DEF Before
<1>3. /\ session' = [session EXCEPT ![p] = t] /\ opened' = [opened EXCEPT ![p] = @ \cup {m}]
      /\ wire' = wire /\ repeated' = (repeated \/ m \in opened[p])
  BY DEF Decrypt
<1> HIDE DEF s
<1>4. m \notin opened[p]
  BY <1>1, <1>2, ReadAgainFails
<1>5. repeated' = repeated
  <2>1. repeated = FALSE
    BY DEF RatchetInv, ReadOrAside
  <2> QED BY <1>3, <1>4, <2>1
<1>6. Staged(s, m.header).ok
  BY <1>1 DEF Opens
<1>7. \/ t = AfterAside(p, s, m) /\ Place(s.dhs) >= 2 /\ Passed(s, m)
      \/ /\ t = AfterAhead(p, s, m) /\ Place(s.dhs) >= 2 /\ ~Passed(s, m)
         /\ m.header.dh = s.dhr /\ s.nr <= m.header.n
      \/ t = AfterTurn(p, s, m) /\ ~Passed(s, m) /\ m.header.dh = Answer(p, s.dhs.made)
  BY <1>1, <1>2, <1>4, <1>6, StagedOutcome
<1> HIDE DEF t
<1> QED BY <1>1, <1>2, <1>3, <1>4, <1>5, <1>7, ReadKeeps

-----------------------------------------------------------------------------
\* What a sender is: as its session, or as the one that Alice begins with.
Sends(p, s) ==
    /\ InTurn(p, s) /\ Reads(p, s)
    /\ session[p] # NoSession => s = session[p]
    /\ p = "bob" => s.dhs.made > 0
    /\ Place(s.dhs) <= PlaceOf(Other(p)) + 1 /\ PlaceOf(Other(p)) <= Place(s.dhs) + 1
    /\ Whole(s.dhs, s.ns) /\ BeforeWhole(p, s.dhs.made, s.pn)

\* The session after a message was sealed is one number on.
LEMMA SealedForm ==
    ASSUME NEW p \in Party, NEW s, InTurn(p, s)
    PROVE  Sealed(s) = SessionAt(p, s.dhs.made, s.ns + 1, s.nr, s.pn, s.skipped)
<1> DEFINE i == s.dhs.made
           root == RootAt(Place(DhOf(p, i)))
           e == Sealed(s)
           y == SessionAt(p, i, s.ns + 1, s.nr, s.pn, s.skipped)
           fields == {"dhs", "dhr", "rk", "cks", "ckr", "ns", "nr", "pn", "skipped"}
<1>1. s = SessionAt(p, i, s.ns, s.nr, s.pn, s.skipped)
  BY SessionFields
<1> HIDE DEF i
<1>2. /\ s.cks = [root |-> root, at |-> s.ns]
      /\ DOMAIN s = fields
  BY <1>1 DEF SessionAt
<1>3. [s.cks EXCEPT !.at = @ + 1] = [root |-> root, at |-> s.ns + 1]
  BY <1>2
<1>4. e = [s EXCEPT !.cks = [root |-> root, at |-> s.ns + 1], !.ns = s.ns + 1]
  BY <1>2, <1>3 DEF Sealed
<1>5. /\ e.dhs = s.dhs /\ e.dhr = s.dhr /\ e.rk = s.rk /\ e.ckr = s.ckr /\ e.nr = s.nr
      /\ e.pn = s.pn /\ e.skipped = s.skipped /\ e.ns = s.ns + 1
      /\ e.cks = [root |-> root, at |-> s.ns + 1]
      /\ DOMAIN e = fields /\ e = [f \in fields |-> e[f]]
  BY <1>2, <1>4
<1>6. /\ y.dhs = s.dhs /\ y.dhr = s.dhr /\ y.rk = s.rk /\ y.ckr = s.ckr /\ y.nr = s.nr
      /\ y.pn = s.pn /\ y.skipped = s.skipped /\ y.ns = s.ns + 1
      /\ y.cks = [root |-> root, at |-> s.ns + 1]
      /\ y = [f \in fields |-> y[f]]
  BY <1>1 DEF SessionAt
<1> HIDE DEF e, y
<1>7. \A f \in fields : e[f] = y[f]
  BY <1>5, <1>6
<1>8. e = y
  BY <1>5, <1>6, <1>7
<1> QED BY <1>8 DEF e, y, i

\* Alice's session is that of her first key.
LEMMA InitAliceInTurn ==
    InitAlice = SessionAt("alice", 0, 0, 0, 0, {}) /\ InTurn("alice", InitAlice)
<1>1. /\ Place(DhOf("alice", 0)) = 1 /\ Place(DhOf("bob", 0)) = 0
      /\ DhOf("alice", 0) \in DhKey /\ DhOf("bob", 0) \in DhKey
  BY DhFacts DEF Party
<1>2. RootAt(0) = <<>>
  BY RootFacts
<1>3. Append(RootAt(0), {DhOf("alice", 0), DhOf("bob", 0)}) = RootAt(0 + 1)
  BY <1>1, RootAppend
<1>4. Agree(<<>>, DhOf("alice", 0), SignedPrekey) = RootAt(1)
  <2>1. SignedPrekey = DhOf("bob", 0)
    BY DEF SignedPrekey, DhOf
  <2>2. 0 + 1 = 1
    OBVIOUS
  <2>3. Agree(<<>>, DhOf("alice", 0), SignedPrekey) =
            Append(RootAt(0), {DhOf("alice", 0), DhOf("bob", 0)})
    BY <1>2, <2>1 DEF Agree
  <2>4. Append(RootAt(0), {DhOf("alice", 0), DhOf("bob", 0)}) = RootAt(1)
    BY <1>3, <2>2
  <2> QED BY <2>3, <2>4
<1>5. InitAlice = SessionAt("alice", 0, 0, 0, 0, {})
  <2>1. Heard("alice", 0) = SignedPrekey /\ DhOf("alice", 0) = [of |-> "alice", made |-> 0]
    BY DEF Heard, SignedPrekey, DhOf
  <2>2. InitAlice = Session(DhOf("alice", 0), SignedPrekey, RootAt(1), ChainOf(RootAt(1)))
    BY <1>4, <2>1 DEF InitAlice
  <2>3. RootAt(Place(DhOf("alice", 0)) - 1) = <<>> /\ RootAt(Place(DhOf("alice", 0))) = RootAt(1)
    BY <1>1, <1>2
  <2> QED BY <2>1, <2>2, <2>3 DEF Session, SessionAt, NoChain, ChainOf
<1>6. InTurn("alice", InitAlice)
  <2>1. "alice" \in Party /\ 0 \in Nat
    BY DEF Party
  <2> QED BY <1>5, <2>1, SessionAtFields
<1> QED BY <1>5, <1>6

\* A session that is there may send.
LEMMA OpenSends ==
    ASSUME RatchetInv, NEW p \in Party, session[p] # NoSession
    PROVE  Sends(p, session[p])
<1>1. Ready(p, session[p]) /\ PlaceOf(p) = Place(session[p].dhs)
  BY OpenIsReady DEF PlaceOf
<1>2. p = "bob" => session[p].dhs.made > 0
  BY DEF RatchetInv, SessionsInTurn
<1>3. PlaceOf(Other(p)) <= PlaceOf(p) + 1 /\ PlaceOf(p) <= PlaceOf(Other(p)) + 1
  BY Parties DEF RatchetInv, SessionsInTurn, Party
<1> QED BY <1>1, <1>2, <1>3 DEF Ready, Sends

\* So may the one that Alice begins with.
LEMMA AliceSends ==
    ASSUME RatchetInv, session["alice"] = NoSession
    PROVE  Sends("alice", InitAlice)
<1> DEFINE s == InitAlice
<1>1. /\ InTurn("alice", s) /\ s.dhs = DhOf("alice", 0) /\ s.dhs.made = 0 /\ s.ns = 0 /\ s.nr = 0
      /\ s.pn = 0 /\ s.skipped = {} /\ "alice" \in Party /\ "bob" \in Party
  <2>1. "alice" \in Party /\ "bob" \in Party /\ 0 \in Nat
    BY DEF Party
  <2> QED BY <2>1, InitAliceInTurn, SessionAtFields
<1>2. Place(s.dhs) = 1
  BY <1>1, DhFacts
<1>3. PlaceOf("alice") = 0 /\ PlaceOf("bob") <= 1
  BY DEF PlaceOf, RatchetInv, SessionsInTurn
<1>4. session["bob"] = NoSession
  <2>1. ASSUME session["bob"] # NoSession PROVE FALSE
    <3> DEFINE j == session["bob"].dhs.made
    <3>1. InTurn("bob", session["bob"]) /\ j > 0
      BY <1>1, <2>1 DEF RatchetInv, SessionsInTurn
    <3>2. j \in Nat /\ session["bob"].dhs = DhOf("bob", j)
      <4> HIDE DEF j
      <4>1. ASSUME NEW p \in Party, NEW v, InTurn(p, v)
            PROVE  v.dhs.made \in Nat /\ v.dhs = DhOf(p, v.dhs.made)
        BY <4>1 DEF InTurn, SessionAt
      <4>2. InTurn("bob", session["bob"]) =>
                /\ session["bob"].dhs.made \in Nat
                /\ session["bob"].dhs = DhOf("bob", session["bob"].dhs.made)
        BY <1>1, <4>1
      <4> QED BY <3>1, <4>2 DEF j
    <3> HIDE DEF j
    <3>3. Place(DhOf("bob", j)) = 2 * j
      BY <1>1, <3>2, DhFacts
    <3>4. PlaceOf("bob") = 2 * j
      BY <2>1, <3>2, <3>3 DEF PlaceOf
    <3> QED BY <1>3, <3>1, <3>2, <3>4
  <2> QED BY <2>1
<1>5. wire = {}
  BY <1>4, MessageFacts DEF Party
<1>6. PlaceOf(Other("alice")) = 0
  BY <1>4, Parties DEF PlaceOf
<1>7. opened["alice"] = {}
  BY <1>1 DEF RatchetInv, ReadOrAside
<1>8. Reads("alice", s)
  BY <1>1, <1>2, <1>5, <1>7 DEF Reads, Unread
<1>9. Whole(s.dhs, s.ns) /\ BeforeWhole("alice", s.dhs.made, s.pn)
  BY <1>1, <1>5 DEF Whole, BeforeWhole
<1>10. "alice" # "bob"
  OBVIOUS
<1> HIDE DEF s
<1> QED BY <1>1, <1>2, <1>6, <1>8, <1>9, <1>10 DEF Sends, s

\* Chains other than the sender's stay what they were.
LEMMA WholeElse ==
    ASSUME NEW x, wire' = wire \cup {x}, NEW k, k # x.header.dh, NEW n, Whole(k, n)
    PROVE  Whole(k, n)'
BY DEF Whole

\* No message that is sent was gone over by its receiver.
LEMMA NewIsNotPassed ==
    ASSUME RatchetInv, NEW p \in Party, NEW s, Sends(p, s), NEW q \in Party, q = Other(p),
           session[q] # NoSession, NEW x, x.header.dh = s.dhs, x.header.n = s.ns
    PROVE  ~Passed(session[q], x)
<1> DEFINE v == session[q]
           j == v.dhs.made
           i == s.dhs.made
<1>1. /\ Ready(q, v) /\ PlaceOf(q) = Place(v.dhs)
  BY OpenIsReady DEF PlaceOf
<1>2. /\ j \in Nat /\ v.dhs = DhOf(q, j) /\ v.dhr = Heard(q, j)
      /\ Place(v.dhs) \in Nat /\ v.nr \in Nat
  BY <1>1, SessionFields DEF Ready
<1>3. /\ i \in Nat /\ s.dhs = DhOf(p, i) /\ Place(s.dhs) \in Nat /\ s.ns \in Nat
      /\ PlaceOf(q) <= Place(s.dhs) + 1 /\ Whole(s.dhs, s.ns)
  BY SessionFields DEF Sends
<1>4. Place(s.dhs) >= 1
  <2>1. CASE p = "alice"
    BY <1>3, <2>1, DhFacts
  <2>2. CASE p = "bob"
    <3>1. i > 0
      BY <2>2 DEF Sends
    <3>2. Place(DhOf(p, i)) = 2 * i
      BY <1>3, <2>2, DhFacts
    <3> QED BY <1>3, <3>1, <3>2
  <2> QED BY <2>1, <2>2 DEF Party
<1>5. p = Other(q)
  BY Parties
<1> HIDE DEF v, i, j
<1>6. SUFFICES ASSUME Place(s.dhs) < Place(v.dhs), s.dhs = v.dhr => s.ns < v.nr
               PROVE  FALSE
  BY DEF Passed, v
<1>7. Place(v.dhs) = Place(s.dhs) + 1 /\ Place(v.dhs) >= 2
  BY <1>1, <1>2, <1>3, <1>4, <1>6
<1>8. s.dhs = v.dhr
  <2>1. /\ Place(Heard(q, j)) = Place(v.dhs) - 1 /\ Heard(q, j).made \in Nat
        /\ Heard(q, j) = DhOf(p, Heard(q, j).made)
    <3>1. Place(DhOf(q, j)) >= 1
      BY <1>2, <1>7
    <3>2. /\ Place(Heard(q, j)) = Place(DhOf(q, j)) - 1 /\ Heard(q, j).made \in Nat
          /\ Heard(q, j) = DhOf(Other(q), Heard(q, j).made)
      BY <1>2, <3>1, HeardFacts
    <3> QED BY <1>2, <1>5, <3>2
  <2>2. Place(DhOf(p, i)) = Place(DhOf(p, Heard(q, j).made))
    BY <1>2, <1>3, <1>7, <2>1
  <2>3. i = Heard(q, j).made
    BY <1>3, <2>1, <2>2, PlaceIsKey
  <2> QED BY <1>2, <1>3, <2>1, <2>3
<1>9. PICK o \in opened[q] : o \in wire /\ o.header.dh = v.dhr /\ o.header.n + 1 = v.nr
  <2>1. ~(Place(v.dhs) <= 1)
    BY <1>2, <1>7
  <2> QED BY <1>1, <2>1 DEF Ready, Reads
<1>10. o.header.n < s.ns /\ o.header.n \in Nat
  BY <1>3, <1>8, <1>9, MessageFacts DEF Whole
<1> QED BY <1>2, <1>3, <1>6, <1>8, <1>9, <1>10

-----------------------------------------------------------------------------
\* Sending a message keeps the invariant.
LEMMA SendKeeps ==
    ASSUME RatchetInv, NEW p \in Party, NEW s, Sends(p, s), SendWith(p, s)
    PROVE  RatchetInv'
<1> DEFINE i == s.dhs.made
           t == Sealed(s)
           ns == s.ns
<1>1. /\ InTurn(p, s) /\ Reads(p, s) /\ (session[p] # NoSession => s = session[p])
      /\ p = "bob" => i > 0
      /\ Place(s.dhs) <= PlaceOf(Other(p)) + 1 /\ PlaceOf(Other(p)) <= Place(s.dhs) + 1
      /\ Whole(s.dhs, ns) /\ BeforeWhole(p, i, s.pn)
  BY DEF Sends
<1>2. /\ i \in Nat /\ ns \in Nat /\ s.nr \in Nat /\ s.pn \in Nat /\ s.dhs = DhOf(p, i)
      /\ s.dhr = Heard(p, i) /\ s.cks = [root |-> RootAt(Place(s.dhs)), at |-> ns]
      /\ s = SessionAt(p, i, ns, s.nr, s.pn, s.skipped)
  BY <1>1, SessionFields
<1>3. PICK x : /\ wire' = wire \cup {x} /\ x.from = p /\ x.header = Header(s) /\ x.key = s.cks
               /\ x = [from |-> p, no |-> x.no, header |-> Header(s), key |-> s.cks,
                       initial |-> x.initial]
  <2> DEFINE y == [from |-> p, no |-> Cardinality(wire), header |-> Header(s), key |-> s.cks,
                   initial |-> session[p] = NoSession]
  <2>1. wire' = wire \cup {y}
    BY DEF SendWith
  <2>2. /\ y.from = p /\ y.header = Header(s) /\ y.key = s.cks
        /\ y = [from |-> p, no |-> y.no, header |-> Header(s), key |-> s.cks,
                initial |-> y.initial]
    OBVIOUS
  <2> QED BY <2>1, <2>2
<1>4. x.header = [dh |-> s.dhs, pn |-> s.pn, n |-> ns]
  BY <1>3 DEF Header
<1>5. session' = [session EXCEPT ![p] = t] /\ opened' = opened /\ repeated' = repeated
  BY DEF SendWith
<1>6. /\ t.dhs = DhOf(p, i) /\ t.dhr = Heard(p, i) /\ t.ns = ns + 1 /\ t.nr = s.nr /\ t.pn = s.pn
      /\ t.skipped = s.skipped /\ InTurn(p, t) /\ t.dhs.made = i
  <2> DEFINE j == ns + 1
  <2>1. t = SessionAt(p, i, j, s.nr, s.pn, s.skipped)
    BY <1>1, SealedForm
  <2>2. j \in Nat
    BY <1>2
  <2> HIDE DEF t, i, ns, j
  <2>3. /\ t.dhs = DhOf(p, i) /\ t.dhr = Heard(p, i) /\ t.ns = j /\ t.nr = s.nr /\ t.pn = s.pn
        /\ t.skipped = s.skipped /\ InTurn(p, t) /\ t.dhs.made = i
    BY <1>2, <2>1, <2>2, SessionAtFields
  <2> QED BY <2>3 DEF j
<1> HIDE DEF i, t, ns
<1>7. session[p] # NoSession => session[p].dhs.made <= t.dhs.made
  BY <1>1, <1>2, <1>6 DEF i
<1>8. /\ session'[p] = t /\ t # NoSession /\ \A q \in Party : q # p => session'[q] = session[q]
      /\ SessionsInTurn'
      /\ \A q \in Party : session[q] # NoSession =>
                session'[q] # NoSession /\ session[q].dhs.made <= session'[q].dhs.made
  BY <1>1, <1>2, <1>5, <1>6, <1>7, Installed
<1>9. Whole(s.dhs, ns + 1)'
  <2>1. ASSUME NEW m \in wire', m.header.dh = s.dhs PROVE m.header.n < ns + 1
    <3>1. CASE m = x
      BY <1>2, <1>4, <3>1
    <3>2. CASE m \in wire
      <4>1. m.header.n < ns /\ m.header.n \in Nat
        BY <1>1, <2>1, <3>2, MessageFacts DEF Whole
      <4> QED BY <1>2, <4>1
    <3> QED BY <1>3, <3>1, <3>2
  <2>2. ASSUME NEW j \in 0 .. (ns + 1) - 1
        PROVE  \E m \in wire' : m.header.dh = s.dhs /\ m.header.n = j
    <3>1. CASE j = ns
      BY <1>3, <1>4, <3>1
    <3>2. CASE j # ns
      <4>1. j \in 0 .. ns - 1
        BY <1>2, <2>2, <3>2
      <4> QED BY <1>1, <1>3, <4>1 DEF Whole
    <3> QED BY <3>1, <3>2
  <2> QED BY <2>1, <2>2 DEF Whole
<1>10. ASSUME NEW q \in Party, NEW j \in Nat, q = p => j <= i, NEW n, BeforeWhole(q, j, n)
       PROVE  BeforeWhole(q, j, n)'
  <2>1. CASE j = 0
    BY <1>10, <2>1 DEF BeforeWhole
  <2>2. CASE j # 0
    <3>1. DhOf(q, j - 1) # s.dhs
      <4>1. DhOf(q, j - 1).of = q /\ DhOf(q, j - 1).made = j - 1 /\ s.dhs.of = p /\ s.dhs.made = i
        BY <1>2 DEF DhOf
      <4> QED BY <1>2, <1>10, <4>1
    <3>2. Whole(DhOf(q, j - 1), n)
      BY <1>10, <2>2 DEF BeforeWhole
    <3>3. x.header.dh = s.dhs
      BY <1>4
    <3>4. Whole(DhOf(q, j - 1), n)'
      BY <1>3, <3>1, <3>2, <3>3, WholeElse
    <3> QED BY <2>2, <3>4 DEF BeforeWhole
  <2> QED BY <2>1, <2>2
<1>11. ChainsAreWhole'
  <2>1. ASSUME NEW q \in Party, NEW v, v = session'[q], v # NoSession
        PROVE  Whole(v.dhs, v.ns)' /\ BeforeWhole(q, v.dhs.made, v.pn)'
    <3>1. CASE q = p
      <4>1. v.dhs = s.dhs /\ v.ns = ns + 1 /\ v.dhs.made = i /\ v.pn = s.pn
        BY <1>2, <1>6, <1>8, <2>1, <3>1
      <4>2. BeforeWhole(p, i, s.pn)'
        BY <1>1, <1>2, <1>10
      <4> QED BY <1>9, <3>1, <4>1, <4>2
    <3>2. CASE q # p
      <4>1. /\ v = session[q] /\ Whole(v.dhs, v.ns) /\ BeforeWhole(q, v.dhs.made, v.pn)
            /\ InTurn(q, v)
        BY <1>8, <2>1, <3>2 DEF RatchetInv, ChainsAreWhole, SessionsInTurn
      <4>2. v.dhs.made \in Nat /\ v.dhs = DhOf(q, v.dhs.made)
        BY <4>1, SessionFields
      <4>3. v.dhs # x.header.dh
        <5>1. v.dhs.of = q /\ s.dhs.of = p
          BY <1>2, <4>2 DEF DhOf
        <5> QED BY <1>4, <3>2, <5>1
      <4> QED BY <1>3, <1>10, <3>2, <4>1, <4>2, <4>3, WholeElse
    <3> QED BY <3>1, <3>2
  <2>2. ASSUME NEW q \in Party, session'[q] # NoSession
        PROVE  (Whole(session[q].dhs, session[q].ns)
                  /\ BeforeWhole(q, session[q].dhs.made, session[q].pn))'
    <3>1. PICK v : v = session'[q]
      OBVIOUS
    <3>2. Whole(v.dhs, v.ns)' /\ BeforeWhole(q, v.dhs.made, v.pn)'
      BY <2>1, <2>2, <3>1
    <3> QED BY <3>1, <3>2 DEF Whole, BeforeWhole
  <2> QED BY <2>2 DEF ChainsAreWhole
<1>12. MessagesInTurn'
  <2>1. ASSUME NEW o \in wire PROVE MessageOK(o)'
    <3>1. MessageOK(o)
      BY DEF RatchetInv, MessagesInTurn
    <3>2. /\ o.from \in Party /\ session[o.from] # NoSession
          /\ o.header.dh.made <= session[o.from].dhs.made /\ o.header.dh.made \in Nat
          /\ BeforeWhole(o.from, o.header.dh.made, o.header.pn)
      BY <3>1 DEF MessageOK
    <3>3. session'[o.from] # NoSession /\ session[o.from].dhs.made <= session'[o.from].dhs.made
      BY <1>8, <3>2
    <3>4. session[o.from].dhs.made \in Nat /\ session'[o.from].dhs.made \in Nat
      BY <1>8, <3>2, <3>3 DEF RatchetInv, SessionsInTurn, InTurn
    <3>5. o.header.dh.made <= session'[o.from].dhs.made
      BY <3>2, <3>3, <3>4
    <3>6. o.from = p => o.header.dh.made <= i
      BY <1>1, <3>2 DEF i
    <3>7. BeforeWhole(o.from, o.header.dh.made, o.header.pn)'
      BY <1>10, <3>2, <3>6
    <3> QED BY <3>1, <3>3, <3>5, <3>7 DEF MessageOK
  <2>2. MessageOK(x)'
    <3>1. /\ x.header.dh = s.dhs /\ x.header.pn = s.pn /\ x.header.n = ns /\ x.header.dh.made = i
      BY <1>2, <1>4 DEF i
    <3>2. x = MessageAt(p, x.no, i, s.pn, ns, x.initial)
      <4>1. /\ Header(s) = [dh |-> DhOf(p, i), pn |-> s.pn, n |-> ns]
            /\ s.cks = [root |-> RootAt(Place(DhOf(p, i))), at |-> ns]
        BY <1>2, <1>3, <1>4
      <4> QED BY <1>3, <4>1 DEF MessageAt
    <3>3. BeforeWhole(p, i, s.pn)'
      BY <1>1, <1>2, <1>10
    <3>4. session'[p] # NoSession /\ i <= session'[p].dhs.made
      BY <1>2, <1>6, <1>8
    <3> QED BY <1>1, <1>2, <1>3, <3>1, <3>2, <3>3, <3>4 DEF MessageOK
  <2>3. ASSUME NEW m \in wire PROVE ~(m.header.dh = x.header.dh /\ m.header.n = x.header.n)
    <3>1. m.header.n \in Nat /\ (m.header.dh = s.dhs => m.header.n < ns)
      BY <1>1, MessageFacts DEF Whole
    <3> QED BY <1>2, <1>4, <3>1
  <2>4. \A m, o \in wire' : m.header.dh = o.header.dh /\ m.header.n = o.header.n => m = o
    BY <1>3, <2>3 DEF RatchetInv, MessagesInTurn
  <2>5. \A m \in wire' : MessageOK(m)'
    BY <1>3, <2>1, <2>2
  <2> QED BY <2>4, <2>5 DEF MessagesInTurn
<1>13. ReadOrAside'
  <2>1. /\ DOMAIN opened' = Party /\ repeated' = FALSE
    BY <1>5 DEF RatchetInv, ReadOrAside
  <2>2. x \notin wire
    <3>1. ASSUME x \in wire PROVE FALSE
      <4>1. x.header.n < ns
        BY <1>1, <1>4, <3>1 DEF Whole
      <4> QED BY <1>2, <1>4, <4>1
    <3> QED BY <3>1
  <2>3. ASSUME NEW v, v = session'[p] PROVE Reads(p, v)'
    <3>1. v.dhs = s.dhs /\ v.dhr = s.dhr /\ v.nr = s.nr /\ v.skipped = s.skipped
      BY <1>2, <1>6, <1>8, <2>3
    <3>2. \A o : Passed(v, o) = Passed(s, o)
      BY <3>1 DEF Passed
    <3>3. Unread(p)' = Unread(p)
      <4>1. x.from # Other(p)
        BY <1>3, Parties
      <4> QED BY <1>3, <1>5, <4>1 DEF Unread
    <3>4. v.skipped = {AsideKey(o) : o \in {y \in Unread(p)' : Passed(v, y)}}
      BY <1>1, <3>1, <3>2, <3>3 DEF Reads
    <3>5. /\ opened'[p] \subseteq {o \in wire' : o.from = Other(p)}
          /\ \A o \in opened'[p] : Passed(v, o)
          /\ IF Place(v.dhs) <= 1 THEN v.nr = 0
             ELSE \E o \in opened'[p] : o.header.dh = v.dhr /\ o.header.n + 1 = v.nr
      BY <1>1, <1>3, <1>5, <3>1, <3>2 DEF Reads
    <3> QED BY <3>4, <3>5 DEF Reads, Passed
  <2>4. ASSUME NEW q \in Party, q # p, NEW v, v = session'[q], v # NoSession PROVE Reads(q, v)'
    <3>1. v = session[q] /\ q = Other(p) /\ p = Other(q)
      BY <1>8, <2>4, Parties DEF Party
    <3>2. Reads(q, v)
      BY <2>4, <3>1 DEF RatchetInv, ReadOrAside
    <3>3. ~Passed(v, x)
      <4>1. x.header.dh = s.dhs /\ x.header.n = s.ns
        BY <1>4 DEF ns
      <4> QED BY <2>4, <3>1, <4>1, NewIsNotPassed
    <3>4. Unread(q)' = Unread(q) \cup {x}
      <4>1. x \notin opened[q]
        BY <2>2, <3>2 DEF Reads
      <4> QED BY <1>3, <1>5, <3>1, <4>1 DEF Unread
    <3>5. v.skipped = {AsideKey(o) : o \in {y \in Unread(q)' : Passed(v, y)}}
      <4>1. {y \in Unread(q)' : Passed(v, y)} = {y \in Unread(q) : Passed(v, y)}
        BY <3>3, <3>4
      <4> QED BY <3>2, <4>1 DEF Reads
    <3>6. /\ opened'[q] \subseteq {o \in wire' : o.from = Other(q)}
          /\ \A o \in opened'[q] : Passed(v, o)
          /\ IF Place(v.dhs) <= 1 THEN v.nr = 0
             ELSE \E o \in opened'[q] : o.header.dh = v.dhr /\ o.header.n + 1 = v.nr
      BY <1>3, <1>5, <3>2 DEF Reads
    <3> QED BY <3>5, <3>6 DEF Reads, Passed
  <2>5. ASSUME NEW q \in Party
        PROVE  (IF session[q] = NoSession THEN opened[q] = {} ELSE Reads(q, session[q]))'
    <3>1. CASE session'[q] = NoSession
      BY <1>5, <1>8, <3>1 DEF RatchetInv, ReadOrAside
    <3>2. CASE session'[q] # NoSession
      <4>1. PICK v : v = session'[q]
        OBVIOUS
      <4>2. Reads(q, v)'
        BY <2>3, <2>4, <3>2, <4>1
      <4>3. /\ opened'[q] \subseteq {o \in wire' : o.from = Other(q)}
            /\ \A o \in opened'[q] : Passed(session'[q], o)
            /\ IF Place(session'[q].dhs) <= 1 THEN session'[q].nr = 0
               ELSE \E o \in opened'[q] : o.header.dh = session'[q].dhr
                                            /\ o.header.n + 1 = session'[q].nr
            /\ session'[q].skipped =
                 {AsideKey(o) : o \in {y \in Unread(q)' : Passed(session'[q], y)}}
        BY <4>1, <4>2 DEF Reads, Passed
      <4> QED BY <3>2, <4>3 DEF Reads, Passed
    <3> QED BY <3>1, <3>2
  <2> QED BY <2>1, <2>5 DEF ReadOrAside
<1> QED BY <1>8, <1>11, <1>12, <1>13 DEF RatchetInv

\* Nothing changes with a message that does not open.
LEMMA RatchetStutter ==
    ASSUME RatchetInv, DOMAIN session' = Party, \A p \in Party : session'[p] = session[p],
           UNCHANGED <<wire, opened, repeated>>
    PROVE  RatchetInv'
<1>1. wire' = wire /\ opened' = opened /\ repeated' = repeated
  OBVIOUS
<1>2. \A p \in Party : PlaceOf(p)' = PlaceOf(p)
  BY DEF PlaceOf
<1>3. SessionsInTurn'
  BY <1>2 DEF RatchetInv, SessionsInTurn, InTurn, Party
<1>4. ChainsAreWhole'
  BY <1>1 DEF RatchetInv, ChainsAreWhole, Whole, BeforeWhole
<1>5. MessagesInTurn'
  <2>1. \A m \in wire : MessageOK(m)'
    BY <1>1 DEF RatchetInv, MessagesInTurn, MessageOK, BeforeWhole, Whole
  <2> QED BY <1>1, <2>1 DEF RatchetInv, MessagesInTurn
<1>6. ReadOrAside'
  BY <1>1 DEF RatchetInv, ReadOrAside, Reads, Unread, Passed
<1> QED BY <1>3, <1>4, <1>5, <1>6 DEF RatchetInv

\* The invariant is inductive.
LEMMA RatchetInductive == ASSUME RatchetInv, [RatchetNext]_ratchetVars PROVE RatchetInv'
<1>1. CASE OpenSession
  <2>1. session["alice"] = NoSession /\ SendWith("alice", InitAlice) /\ "alice" \in Party
    BY <1>1 DEF OpenSession, Party
  <2> QED BY <2>1, AliceSends, SendKeeps
<1>2. ASSUME NEW p \in Party, Encrypt(p) PROVE RatchetInv'
  BY <1>2, OpenSends, SendKeeps DEF Encrypt
<1>3. ASSUME NEW p \in Party, NEW m \in wire, Decrypt(p, m) PROVE RatchetInv'
  BY <1>3, DecryptKeeps
<1>4. ASSUME NEW p \in Party, NEW m \in wire, NEW h \in Garbled(m), Refuse(p, m, h)
      PROVE  RatchetInv'
  <2>1. session' = [session EXCEPT ![p] = session[p]] /\ UNCHANGED <<wire, opened, repeated>>
    BY <1>4 DEF Refuse, AfterFailure
  <2>2. DOMAIN session' = Party /\ \A q \in Party : session'[q] = session[q]
    BY <2>1 DEF RatchetInv, SessionsInTurn
  <2> QED BY <2>1, <2>2, RatchetStutter
<1>5. CASE UNCHANGED ratchetVars
  <2>1. DOMAIN session = Party
    BY DEF RatchetInv, SessionsInTurn
  <2> QED BY <1>5, <2>1, RatchetStutter DEF ratchetVars
<1> QED BY <1>1, <1>2, <1>3, <1>4, <1>5 DEF RatchetNext

-----------------------------------------------------------------------------
\* The furthest number read of the chain that is read is the session's counter.
LEMMA TopIsCounter ==
    ASSUME RatchetInv, NEW p \in Party, NEW s, Ready(p, s)
    PROVE  /\ s.nr \in Nat
           /\ Place(s.dhs) >= 2 => Top(p, s.dhr) = s.nr
           /\ Place(s.dhs) <= 1 => s.nr = 0 /\ \A k : Top(p, k) = 0
           /\ \A k : Place(s.dhs) < Place(k) => NumbersRead(p, k) = {}
<1> DEFINE S == NumbersRead(p, s.dhr)
<1>1. InTurn(p, s) /\ Place(s.dhs) \in Nat /\ s.nr \in Nat
  <2>1. InTurn(p, s)
    BY DEF Ready
  <2> QED BY <2>1, SessionFields
<1>2. /\ opened[p] \subseteq wire
      /\ \A o \in opened[p] : Passed(s, o)
      /\ IF Place(s.dhs) <= 1 THEN s.nr = 0
         ELSE \E o \in opened[p] : o.header.dh = s.dhr /\ o.header.n + 1 = s.nr
  BY DEF Ready, Reads
<1>3. ASSUME NEW o \in opened[p]
      PROVE  /\ o.header.n \in Nat /\ Place(o.header.dh) \in Nat /\ Place(o.header.dh) >= 1
             /\ Place(o.header.dh) < Place(s.dhs)
             /\ o.header.dh = s.dhr => o.header.n + 1 <= s.nr
  <2>1. o.header.n \in Nat /\ Place(o.header.dh) \in Nat /\ Place(o.header.dh) >= 1
    BY <1>2, MessageFacts
  <2> QED BY <1>1, <1>2, <2>1 DEF Passed
<1>4. ASSUME Place(s.dhs) >= 2 PROVE Top(p, s.dhr) = s.nr
  <2>1. \A a \in S : a \in Nat /\ a <= s.nr
    BY <1>3 DEF NumbersRead
  <2>2. s.nr \in S
    <3>1. PICK o \in opened[p] : o.header.dh = s.dhr /\ o.header.n + 1 = s.nr
      BY <1>1, <1>2, <1>4
    <3> QED BY <3>1 DEF NumbersRead
  <2>3. Top(p, s.dhr) = CHOOSE a \in S : \A o \in S : o <= a
    BY <2>2 DEF Top
  <2> HIDE DEF S
  <2> DEFINE top == CHOOSE a \in S : \A o \in S : o <= a
  <2>4. \E a \in S : \A o \in S : o <= a
    BY <2>1, <2>2
  <2>5. top \in S /\ \A o \in S : o <= top
    BY <2>4
  <2> HIDE DEF top
  <2>6. top = s.nr
    BY <1>1, <2>1, <2>2, <2>5
  <2> QED BY <2>3, <2>6 DEF top
<1>5. ASSUME Place(s.dhs) <= 1 PROVE s.nr = 0 /\ \A k : Top(p, k) = 0
  <2>1. opened[p] = {}
    BY <1>1, <1>3, <1>5
  <2>2. \A k : NumbersRead(p, k) = {}
    BY <2>1 DEF NumbersRead
  <2> QED BY <1>2, <1>5, <2>2 DEF Top
<1>6. ASSUME NEW k, Place(s.dhs) < Place(k) PROVE NumbersRead(p, k) = {}
  <2>1. ASSUME NEW o \in opened[p] PROVE o.header.dh # k
    <3>1. SUFFICES ASSUME o.header.dh = k PROVE FALSE
      OBVIOUS
    <3>2. Place(o.header.dh) < Place(s.dhs) /\ Place(o.header.dh) \in Nat
      BY <1>3
    <3> QED BY <1>1, <1>6, <3>1, <3>2
  <2> QED BY <2>1 DEF NumbersRead
<1> QED BY <1>1, <1>4, <1>5, <1>6

\* The key before the next one of the other is the one that is read.
LEMMA AnswerFollows ==
    ASSUME NEW p \in Party, NEW i \in Nat, p = "bob" => i > 0
    PROVE  Answer(p, i).made > 0 /\ [Answer(p, i) EXCEPT !.made = @ - 1] = Heard(p, i)
<1>1. CASE p = "alice"
  <2>1. Answer(p, i) = DhOf("bob", i + 1) /\ Heard(p, i) = DhOf("bob", i) /\ (i + 1) - 1 = i
    BY <1>1 DEF Answer, Heard
  <2> QED BY <2>1 DEF DhOf
<1>2. CASE p = "bob"
  <2>1. Answer(p, i) = DhOf("alice", i) /\ Heard(p, i) = DhOf("alice", i - 1) /\ i > 0
    BY <1>2 DEF Answer, Heard
  <2> QED BY <2>1 DEF DhOf
<1> QED BY <1>1, <1>2 DEF Party

\* What is not read can be read, or is out of reach.
LEMMA InvStillReadable == ASSUME RatchetInv PROVE StillReadable
<1> SUFFICES ASSUME NEW p \in Party, session[p] # NoSession,
                    NEW m \in wire \ opened[p], m.from = Other(p),
                    ~Opens(session[p], m.header, m)
             PROVE  OutOfReach(p, m)
  BY DEF StillReadable
<1> DEFINE s == session[p]
           i == s.dhs.made
           d == m.header.dh
<1>1. Ready(p, s)
  BY OpenIsReady
<1>2. /\ InTurn(p, s) /\ i \in Nat /\ s.dhs = DhOf(p, i) /\ s.dhr = Heard(p, i)
      /\ Place(s.dhs) \in Nat
      /\ p = "bob" => i > 0
  <2>1. InTurn(p, s) /\ (p = "bob" => i > 0)
    BY DEF RatchetInv, SessionsInTurn
  <2> QED BY <2>1, SessionFields
<1>3. /\ s.nr \in Nat
      /\ Place(s.dhs) >= 2 => Top(p, s.dhr) = s.nr
      /\ Place(s.dhs) <= 1 => s.nr = 0 /\ \A k : Top(p, k) = 0
      /\ \A k : Place(s.dhs) < Place(k) => NumbersRead(p, k) = {}
  BY <1>1, TopIsCounter
<1>4. m.header.n \in Nat /\ m.header.pn \in Nat /\ MaxSkip \in Nat
  BY MessageFacts, RatchetAssumption
<1>5. ~(Staged(s, m.header).ok /\ Staged(s, m.header).key = m.key)
  BY DEF Opens
<1>6. \/ Place(s.dhs) >= 2 /\ d = s.dhr /\ ~(m.header.n <= s.nr + MaxSkip)
      \/ d = Answer(p, i) /\ ~(m.header.pn <= s.nr + MaxSkip /\ m.header.n <= MaxSkip)
  BY <1>1, <1>5, StagedOutcome
<1> HIDE DEF s, i, d
<1>7. CASE Place(s.dhs) >= 2 /\ d = s.dhr /\ ~(m.header.n <= s.nr + MaxSkip)
  <2>1. m.header.n > Top(p, d) + MaxSkip
    BY <1>3, <1>4, <1>7
  <2> QED BY <2>1 DEF OutOfReach, d
<1>8. CASE d = Answer(p, i) /\ ~(m.header.pn <= s.nr + MaxSkip /\ m.header.n <= MaxSkip)
  <2>1. NumbersRead(p, d) = {} /\ Top(p, d) = 0
    <3>1. Place(s.dhs) < Place(d)
      <4>1. Place(Answer(p, i)) = Place(DhOf(p, i)) + 1
        BY <1>2, HeardFacts
      <4> QED BY <1>2, <1>8, <4>1
    <3> QED BY <1>3, <3>1 DEF Top
  <2>2. d.made > 0 /\ [d EXCEPT !.made = @ - 1] = s.dhr
    BY <1>2, <1>8, AnswerFollows
  <2>3. Top(p, s.dhr) = s.nr
    BY <1>2, <1>3
  <2>4. Top(p, [d EXCEPT !.made = @ - 1]) = s.nr
    BY <2>2, <2>3
  <2>5. CASE ~(m.header.n <= MaxSkip)
    <3>1. m.header.n > Top(p, d) + MaxSkip
      BY <1>4, <2>1, <2>5
    <3> QED BY <3>1 DEF OutOfReach, d
  <2>6. CASE ~(m.header.pn <= s.nr + MaxSkip)
    <3>1. m.header.pn > Top(p, [d EXCEPT !.made = @ - 1]) + MaxSkip
      BY <1>3, <1>4, <2>4, <2>6
    <3> QED BY <2>1, <2>2, <3>1 DEF OutOfReach, d
  <2> QED BY <1>8, <2>5, <2>6
<1> QED BY <1>6, <1>7, <1>8

\* The invariant implies the property.
LEMMA RatchetInvReadable == ASSUME RatchetInv PROVE MessagesStayReadable
<1>1. RatchetTypeOK
  <2>1. ASSUME NEW p \in Party, session[p] # NoSession
        PROVE  /\ session[p].ns = session[p].cks.at /\ session[p].nr = session[p].ckr.at
               /\ session[p].dhs.of = p /\ session[p].dhr.of \in {Other(p), "nobody"}
               /\ \A k \in session[p].skipped : k.dh.of = Other(p)
    <3> DEFINE s == session[p]
               i == s.dhs.made
    <3>1. InTurn(p, s) /\ Ready(p, s)
      BY <2>1, OpenIsReady DEF Ready
    <3>2. /\ i \in Nat /\ s.dhs = DhOf(p, i) /\ s.dhr = Heard(p, i) /\ Place(s.dhs) \in Nat
          /\ s.cks = [root |-> RootAt(Place(s.dhs)), at |-> s.ns]
          /\ s.ckr = [root |-> RootAt(Place(s.dhs) - 1), at |-> s.nr]
      BY <3>1, SessionFields
    <3>3. \A k \in s.skipped : k.dh.of = Other(p)
      <4>1. s.skipped = {AsideKey(m) : m \in {o \in Unread(p) : Passed(s, o)}}
        BY <3>1 DEF Ready, Reads
      <4>2. ASSUME NEW k \in s.skipped PROVE k.dh.of = Other(p)
        <5>1. PICK m \in Unread(p) : k = AsideKey(m)
          BY <4>1
        <5>2. m.header.dh.of = m.from /\ m.from = Other(p)
          BY MessageFacts DEF Unread
        <5> QED BY <5>1, <5>2 DEF AsideKey
      <4> QED BY <4>2
    <3> HIDE DEF s, i
    <3>4. s.dhs.of = p
      BY <3>2 DEF DhOf
    <3>5. s.dhr.of \in {Other(p), "nobody"}
      BY <3>2, Parties DEF Heard, DhOf, NoKey, Party
    <3>6. s.ns = s.cks.at /\ s.nr = s.ckr.at
      BY <3>2
    <3> QED BY <3>3, <3>4, <3>5, <3>6 DEF s
  <2>2. ASSUME NEW p \in Party PROVE opened[p] \subseteq {m \in wire : m.from = Other(p)}
    BY DEF RatchetInv, ReadOrAside, Reads
  <2> QED BY <2>1, <2>2 DEF RatchetTypeOK
<1>2. KeysAreFresh
  BY OneKeyOneMessage DEF KeysAreFresh
<1>3. OpenedOnce
  BY DEF RatchetInv, ReadOrAside, OpenedOnce
<1>4. SkippedAreUnread
  <2>1. ASSUME NEW p \in Party, NEW k \in session[p].skipped
        PROVE  \E m \in wire \ opened[p] : m.header.dh = k.dh /\ m.header.n = k.n /\ m.key = k.key
    <3>1. CASE session[p] = NoSession
      BY <2>1, <3>1 DEF NoSession, Session
    <3>2. CASE session[p] # NoSession
      <4>1. session[p].skipped = {AsideKey(m) : m \in {o \in Unread(p) : Passed(session[p], o)}}
        BY <3>2 DEF RatchetInv, ReadOrAside, Reads
      <4>2. PICK m \in Unread(p) : k = AsideKey(m)
        BY <4>1
      <4> QED BY <4>2 DEF AsideKey, Unread
    <3> QED BY <3>1, <3>2
  <2> QED BY <2>1 DEF SkippedAreUnread
<1> QED BY <1>1, <1>2, <1>3, <1>4, InvStillReadable DEF MessagesStayReadable

\* However messages are delayed, lost, reordered, repeated or garbled, each is
\* read at most once and can be read until it was, unless more than MAX_SKIP
\* before it are missing; and no key seals two (encrypt, decrypt of ratchet.rs).
THEOREM MessagesReadOnce == RatchetSpec => []MessagesStayReadable
<1>1. RatchetSpec => []RatchetInv
  <2>1. RatchetInit => RatchetInv
    BY RatchetInitInv
  <2>2. RatchetInv /\ [RatchetNext]_ratchetVars => RatchetInv'
    BY RatchetInductive
  <2> QED BY <2>1, <2>2, PTL DEF RatchetSpec
<1>2. RatchetInv => MessagesStayReadable
  BY RatchetInvReadable
<1> QED BY <1>1, <1>2, PTL
==============================================================================
