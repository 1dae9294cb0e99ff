----------------------------- MODULE DeferredDm -----------------------------
(***************************************************************************)
(* Deferred direct messages (protocol "dr-pending").  A DM whose recipient *)
(* has no device key is stored in the message store together with a        *)
(* marker; the marker is projected into SQLite (e2e_pending_message) and   *)
(* then removed; envelopes for the recipient's devices are appended later, *)
(* when those devices publish an identity.                                 *)
(*                                                                         *)
(* The two stores share no transaction.  Every handler of api/e2e.rs and   *)
(* send_message runs reconcile_pending_dm_markers, a loop with an await    *)
(* between any two of its steps, so the model has one step per            *)
(* transaction or sled operation and any number of requests interleave.    *)
(*                                                                         *)
(* send_message holds the read side of State.cache from its first check to *)
(* its answer; the handlers that change users and devices hold the write   *)
(* side, so they never run while a send is under way.                      *)
(***************************************************************************)
EXTENDS MsgDb, FiniteSets

CONSTANTS
    User,           \* uids
    Frozen,         \* users with status Frozen whose token is still valid
    Device,         \* device ids
    Owner,          \* the user of each device
    boot,           \* the startup code, as a request of its own
    Deletable,      \* the users whose account may be deleted
    MaxVersion,     \* bound of the model: key_version of an identity
    MaxCrashes,     \* bound of the model: crashes of the process
    MaxErrors       \* bound of the model: requests cut short, by SQLite or the client

ASSUME OwnerAssumption == Owner \in [Device -> User]
ASSUME BootAssumption == boot \notin Writers
ASSUME BoundAssumption == {MaxVersion, MaxCrashes, MaxErrors} \subseteq Nat

\* A DM: a message of its own, or the edit of one.
DmMessage == [from : User, to : User, kind : {"normal", "edit"}]

\* Every message of this module is a dr-pending one and carries a marker.
ASSUME DmPayloadAssumption == Payload \subseteq DmMessage /\ PendingPayload = Payload

VARIABLES
    users,          \* rows of user, equal to the keys of cache.users
    device,         \* rows of device
    identity,       \* per device: [ver, retired]; ver = 0 is no row
    pending,        \* rows of e2e_pending_message: mid -> [from, to, done]
    envelope,       \* rows of e2e_pending_envelope
    pc,             \* per request: where it is
    op,             \* per request: which handler it runs
    todo,           \* per request: markers left to replay
    arg,            \* per request: its parameters and what it has read
    acked,          \* mids whose send has been answered with success
    crashes,        \* crashes so far
    errors          \* requests cut short so far

sqlVars == <<users, device, identity, pending, envelope>>
reqVars == <<pc, op, todo, arg>>
faultVars == <<crashes, errors>>
vars == <<dbVars, sqlVars, reqVars, acked, faultVars>>

Request == Writers \cup {boot}
NoArg == <<>>
NoIdentity == [ver |-> 0, retired |-> FALSE]

Init ==
    /\ DbInit
    /\ users = User
    /\ device = Device
    /\ identity = [d \in Device |-> NoIdentity]
    /\ pending = [m \in {} |-> m]
    /\ envelope = {}
    /\ pc = [r \in Request |-> "idle"]
    /\ op = [r \in Request |-> "none"]
    /\ todo = [r \in Request |-> {}]
    /\ arg = [r \in Request |-> NoArg]
    /\ acked = {}
    /\ crashes = 0
    /\ errors = 0

\* The server answers requests: startup has replayed the markers.
Serving == up /\ op[boot] = "none"

SendUnderWay == \E r \in Writers : op[r] = "send"

\* A request enters at the given step; it ends by becoming idle again.
Enter(r, o, step, a) ==
    /\ pc' = [pc EXCEPT ![r] = step]
    /\ op' = [op EXCEPT ![r] = o]
    /\ arg' = [arg EXCEPT ![r] = a]
    /\ todo' = [todo EXCEPT ![r] = {}]

Leave(r) == Enter(r, "none", "idle", NoArg)

GoTo(r, step) ==
    /\ pc' = [pc EXCEPT ![r] = step]
    /\ UNCHANGED <<op, arg, todo>>

-----------------------------------------------------------------------------
\* send_message up to and including generate_msg_id.  A message of its own
\* needs a known sender and, unless the sender is frozen, a known target.  An
\* edit names a stored message of the same author, and send_message checks
\* neither user again.
MaySend(p) ==
    IF p.kind = "normal"
    THEN p.from \in users /\ (p.to \in users \/ p.from \in Frozen)
    ELSE \E m \in DOMAIN db.msgs : db.msgs[m] = [p EXCEPT !.kind = "normal"]

BeginSend(r, p) ==
    /\ Serving
    /\ pc[r] = "idle"
    /\ MaySend(p)
    /\ GenerateId(r)
    /\ Enter(r, "send", "apply", p)
    /\ UNCHANGED <<sqlVars, acked, faultVars>>

\* Mutant: the answer does not wait for the markers to be replayed.
StoreAndAnswer(r) ==
    /\ pc[r] = "apply"
    /\ ApplyBatch(r, arg[r])
    /\ pc' = [pc EXCEPT ![r] = "finish"]
    /\ arg' = [arg EXCEPT ![r] = taken[r]]
    /\ UNCHANGED <<op, todo, sqlVars, acked, faultVars>>

\* The batch with the message and its marker; the mid is what is answered.
StoreMessage(r) ==
    /\ pc[r] = "apply"
    /\ ApplyBatch(r, arg[r])
    /\ IF op[r] = "send" THEN Enter(r, "send", "scan", taken[r]) ELSE Leave(r)
    /\ UNCHANGED <<sqlVars, acked, faultVars>>

\* The client hangs up during the write.  The handler's future is dropped, and
\* with it the read side of the cache lock; the blocking task goes on.
HangUp(r) ==
    /\ pc[r] = "apply" /\ op[r] = "send"
    /\ errors < MaxErrors
    /\ errors' = errors + 1
    /\ op' = [op EXCEPT ![r] = "orphan"]
    /\ UNCHANGED <<pc, todo, arg, dbVars, sqlVars, acked, crashes>>

FinishSend(r) ==
    /\ pc[r] = "finish" /\ op[r] = "send"
    /\ acked' = acked \cup {arg[r]}
    /\ Leave(r)
    /\ UNCHANGED <<dbVars, sqlVars, faultVars>>

-----------------------------------------------------------------------------
\* Mutant: a replay that is already running is taken to be enough.
ScanUnlessRunning(r) ==
    LET busy == \E q \in Request : pc[q] \in {"project", "remove"} IN
    /\ up
    /\ pc[r] = "scan"
    /\ todo' = [todo EXCEPT ![r] = IF busy THEN {} ELSE db.pend]
    /\ pc' = [pc EXCEPT ![r] = IF busy \/ db.pend = {} THEN "finish" ELSE "project"]
    /\ UNCHANGED <<op, arg, dbVars, sqlVars, acked, faultVars>>

\* reconcile_pending_dm_markers: list the markers ...
Scan(r) ==
    /\ up
    /\ pc[r] = "scan"
    /\ todo' = [todo EXCEPT ![r] = db.pend]
    /\ pc' = [pc EXCEPT ![r] = IF db.pend = {} THEN "finish" ELSE "project"]
    /\ UNCHANGED <<op, arg, dbVars, sqlVars, acked, faultVars>>

\* ... and for each of them, in the order of their mids,
FirstLeft(r) == CHOOSE m \in todo[r] : \A x \in todo[r] : m <= x

\* the row a marker describes; a row of that mid must name the same pair, and
\* a new row needs both users (the foreign keys of e2e_pending_message),
SamePair(row, p) == row.from = p.from /\ row.to = p.to

CanProject(m) ==
    IF m \in DOMAIN pending
    THEN SamePair(pending[m], db.msgs[m])
    ELSE {db.msgs[m].from, db.msgs[m].to} \subseteq users

\* project_pending_dm_marker,
Project(r) ==
    /\ up
    /\ pc[r] = "project"
    /\ CanProject(FirstLeft(r))
    /\ pending' =
         IF FirstLeft(r) \in DOMAIN pending
         THEN pending
         ELSE Put(pending, FirstLeft(r),
                  [from |-> db.msgs[FirstLeft(r)].from,
                   to   |-> db.msgs[FirstLeft(r)].to,
                   done |-> FALSE])
    /\ GoTo(r, "remove")
    /\ UNCHANGED <<dbVars, users, device, identity, envelope, acked, faultVars>>

\* whose error ends the request and leaves this marker and all later ones,
ProjectRefused(r) ==
    /\ up
    /\ pc[r] = "project"
    /\ ~CanProject(FirstLeft(r))
    /\ Leave(r)
    /\ UNCHANGED <<dbVars, sqlVars, acked, faultVars>>

\* Mutant: the key that is removed is not the key of the marker.
DropOtherKey(r) ==
    /\ up
    /\ pc[r] = "remove"
    /\ todo' = [todo EXCEPT ![r] = @ \ {FirstLeft(r)}]
    /\ pc' = [pc EXCEPT ![r] =
                IF todo[r] = {FirstLeft(r)} THEN "finish" ELSE "project"]
    /\ UNCHANGED <<op, arg, dbVars, sqlVars, acked, faultVars>>

\* and only then removes the marker.
DropMarker(r) ==
    /\ pc[r] = "remove"
    /\ RemovePendingMarker(FirstLeft(r))
    /\ todo' = [todo EXCEPT ![r] = @ \ {FirstLeft(r)}]
    /\ pc' = [pc EXCEPT ![r] =
                IF todo[r] = {FirstLeft(r)} THEN "finish" ELSE "project"]
    /\ UNCHANGED <<op, arg, sqlVars, acked, faultVars>>

\* Mutant: the loop goes on to the removal after an error of the projection.
ErrorIgnored(r) ==
    /\ pc[r] = "project"
    /\ errors < MaxErrors
    /\ errors' = errors + 1
    /\ GoTo(r, "remove")
    /\ UNCHANGED <<dbVars, sqlVars, acked, crashes>>

\* A SQLite error or a client that hangs up ends a request between two of its
\* steps (the handler's future is dropped at an await).
RequestCut(r) ==
    /\ pc[r] \notin {"idle", "apply"}
    /\ errors < MaxErrors
    /\ errors' = errors + 1
    /\ Leave(r)
    /\ UNCHANGED <<dbVars, sqlVars, acked, crashes>>

-----------------------------------------------------------------------------
\* create_state: open the store, replay the markers, then serve.  An error of
\* the replay is an error of create_state and the process ends.
Boot ==
    /\ Open
    /\ Enter(boot, "boot", "scan", NoArg)
    /\ UNCHANGED <<sqlVars, acked, faultVars>>

FinishBoot ==
    /\ pc[boot] = "finish"
    /\ Leave(boot)
    /\ UNCHANGED <<dbVars, sqlVars, acked, faultVars>>

BootRefused ==
    /\ pc[boot] = "project"
    /\ ~CanProject(FirstLeft(boot))
    /\ Close
    /\ Leave(boot)
    /\ UNCHANGED <<sqlVars, acked, faultVars>>

BootFails ==
    /\ pc[boot] = "project"
    /\ errors < MaxErrors
    /\ errors' = errors + 1
    /\ Close
    /\ Leave(boot)
    /\ UNCHANGED <<sqlVars, acked, crashes>>

\* Mutant: the replays under way go on after the store was reopened.
CrashUnderReplay ==
    /\ crashes < MaxCrashes
    /\ crashes' = crashes + 1
    /\ Crash
    /\ acked' = acked \cap DOMAIN disk.msgs
    /\ UNCHANGED <<sqlVars, reqVars, errors>>

\* The process dies: the requests with it, and of sled what was not flushed.
ServerCrash ==
    /\ crashes < MaxCrashes
    /\ crashes' = crashes + 1
    /\ Crash
    /\ pc' = [r \in Request |-> "idle"]
    /\ op' = [r \in Request |-> "none"]
    /\ todo' = [r \in Request |-> {}]
    /\ arg' = [r \in Request |-> NoArg]
    /\ acked' = acked \cap DOMAIN disk.msgs
    /\ UNCHANGED <<sqlVars, errors>>

BackgroundFlush ==
    /\ Flush
    /\ UNCHANGED <<sqlVars, reqVars, acked, faultVars>>

-----------------------------------------------------------------------------
\* The deferred messages of a pair, in the message store.
Stored(u, t) == {m \in DOMAIN db.msgs : db.msgs[m].from = u /\ db.msgs[m].to = t}

\* get_pending: replay the markers, then query.  What was stored when the
\* request came in is kept in arg, for the property on what the query sees.
BeginGetPending(r, u, t) ==
    /\ Serving
    /\ pc[r] = "idle"
    /\ Enter(r, "get", "scan", Stored(u, t))
    /\ UNCHANGED <<dbVars, sqlVars, acked, faultVars>>

FinishGetPending(r) ==
    /\ pc[r] = "finish" /\ op[r] = "get"
    /\ Leave(r)
    /\ UNCHANGED <<dbVars, sqlVars, acked, faultVars>>

-----------------------------------------------------------------------------
\* A device that can be a recipient: published, not retired, still logged in.
IsCurrent(d) == d \in device /\ identity[d].ver > 0 /\ ~identity[d].retired

\* post_pending_envelope.  The client has wrapped the content key for the
\* identity it fetched before; the request does not say which version that is.
BeginPostEnvelope(r, m, sd, d) ==
    /\ Serving
    /\ pc[r] = "idle"
    /\ IsCurrent(d)
    /\ Enter(r, "post", "scan",
             [mid |-> m, sender |-> sd, dev |-> d, wrapped |-> identity[d].ver])
    /\ UNCHANGED <<dbVars, sqlVars, acked, faultVars>>

\* Mutant: the recipient of the envelope is not compared with the target.
MayAppendForAnyone(a) ==
    /\ a.sender \in device
    /\ a.mid \in DOMAIN pending
    /\ pending[a.mid].from = Owner[a.sender]
    /\ IsCurrent(a.dev)

MayAppend(a) ==
    /\ a.sender \in device
    /\ a.mid \in DOMAIN pending
    /\ pending[a.mid].from = Owner[a.sender]
    /\ pending[a.mid].to = Owner[a.dev]
    /\ IsCurrent(a.dev)

HasEnvelope(m, d, v) == \E e \in envelope : e.mid = m /\ e.dev = d /\ e.ver = v

\* The transaction: an existing envelope of the version is left alone, a new
\* one completes the message.
AppendEnvelope(r) ==
    LET sent == arg[r]
        v == identity[sent.dev].ver IN
    /\ pc[r] = "finish" /\ op[r] = "post"
    /\ MayAppend(sent)
    /\ IF HasEnvelope(sent.mid, sent.dev, v)
       THEN UNCHANGED <<envelope, pending>>
       ELSE /\ envelope' = envelope \cup
                 {[mid |-> sent.mid, dev |-> sent.dev, ver |-> v, wrapped |-> sent.wrapped]}
            /\ pending' = [pending EXCEPT ![sent.mid].done = TRUE]
    /\ Leave(r)
    /\ UNCHANGED <<dbVars, users, device, identity, acked, faultVars>>

AppendRefused(r) ==
    /\ pc[r] = "finish" /\ op[r] = "post"
    /\ ~MayAppend(arg[r])
    /\ Leave(r)
    /\ UNCHANGED <<dbVars, sqlVars, acked, faultVars>>

-----------------------------------------------------------------------------
\* Senders with a deferred DM in SQLite that lacks an envelope for the device.
WaitingSenders(d, v) ==
    {pending[m].from : m \in {k \in DOMAIN pending :
        pending[k].to = Owner[d] /\ ~HasEnvelope(k, d, v)}}

\* put_identity: the version goes up when a key changed, the device is current
\* again, and the waiting senders are read in the same transaction.  What is
\* answered and what is stored at that moment is kept for the properties.
PutIdentity(r, d, changed) ==
    LET old == identity[d].ver
        v   == IF old = 0 \/ changed THEN old + 1 ELSE old IN
    /\ Serving
    /\ pc[r] = "idle"
    /\ d \in device
    /\ v <= MaxVersion
    /\ identity' = [identity EXCEPT ![d] = [ver |-> v, retired |-> FALSE]]
    /\ Enter(r, "publish", "notify",
             [dev |-> d, ver |-> v, waiting |-> WaitingSenders(d, v),
              acked |-> acked, stored |-> DOMAIN db.msgs])
    /\ UNCHANGED <<dbVars, users, device, pending, envelope, acked, faultVars>>

\* The E2eIdentityChanged event to the waiting senders, after the commit.
Notify(r) ==
    /\ pc[r] = "notify"
    /\ Leave(r)
    /\ UNCHANGED <<dbVars, sqlVars, acked, faultVars>>

-----------------------------------------------------------------------------
\* do_login adds the device row; an identity retired before stays retired.
Login(d) ==
    /\ Serving /\ ~SendUnderWay
    /\ Owner[d] \in users \ Frozen
    /\ d \notin device
    /\ device' = device \cup {d}
    /\ UNCHANGED <<dbVars, users, identity, pending, envelope, reqVars, acked, faultVars>>

\* Mutant: the envelopes of the device go with it, completed_at stays.
RemoveDeviceAndEnvelopes(d) ==
    /\ Serving /\ ~SendUnderWay
    /\ d \in device
    /\ device' = device \ {d}
    /\ identity' = [identity EXCEPT ![d].retired = (identity[d].ver > 0)]
    /\ envelope' = {e \in envelope : e.dev # d}
    /\ UNCHANGED <<dbVars, users, pending, reqVars, acked, faultVars>>

\* delete_device and logout remove the row and retire the identity.
RemoveDevice(d) ==
    /\ Serving /\ ~SendUnderWay
    /\ d \in device
    /\ device' = device \ {d}
    /\ identity' = [identity EXCEPT ![d].retired = (identity[d].ver > 0)]
    /\ UNCHANGED <<dbVars, users, pending, envelope, reqVars, acked, faultVars>>

\* delete_user: the foreign keys cascade over every table here.
Involves(row, u) == row.from = u \/ row.to = u

DeleteUser(u) ==
    LET kept == {m \in DOMAIN pending : ~Involves(pending[m], u)} IN
    /\ Serving /\ ~SendUnderWay
    /\ u \in users
    /\ users' = users \ {u}
    /\ device' = {d \in device : Owner[d] # u}
    /\ identity' = [d \in Device |-> IF Owner[d] = u THEN NoIdentity ELSE identity[d]]
    /\ pending' = [m \in kept |-> pending[m]]
    /\ envelope' = {e \in envelope : e.mid \in kept}
    /\ UNCHANGED <<dbVars, reqVars, acked, faultVars>>

-----------------------------------------------------------------------------
ReconcileStep(r) ==
    Scan(r) \/ Project(r) \/ DropMarker(r)

RequestStep(r) ==
    \/ ProjectRefused(r)
    \/ StoreMessage(r) \/ FinishSend(r) \/ FinishGetPending(r)
    \/ AppendEnvelope(r) \/ AppendRefused(r) \/ Notify(r)

Next ==
    \/ \E r \in Writers, p \in Payload : BeginSend(r, p)
    \/ \E r \in Writers, u, t \in User : BeginGetPending(r, u, t)
    \/ \E r \in Writers, m \in DOMAIN db.msgs, sd, d \in Device :
            BeginPostEnvelope(r, m, sd, d)
    \/ \E r \in Writers, d \in Device, changed \in BOOLEAN :
            PutIdentity(r, d, changed)
    \/ \E r \in Writers : RequestStep(r)
    \/ \E r \in Request : ReconcileStep(r)
    \/ \E r \in Writers : HangUp(r) \/ RequestCut(r)
    \/ Boot \/ FinishBoot \/ BootRefused \/ BootFails
    \/ ServerCrash
    \/ BackgroundFlush
    \/ \E d \in Device : Login(d) \/ RemoveDevice(d)
    \/ \E u \in Deletable : DeleteUser(u)

Spec == Init /\ [][Next]_vars

-----------------------------------------------------------------------------
Row == [from : User, to : User, done : BOOLEAN]

\* The type of every variable.
TypeOK ==
    /\ DbTypeOK
    /\ users \subseteq User
    /\ device \subseteq Device
    /\ identity \in [Device -> [ver : Nat, retired : BOOLEAN]]
    /\ DOMAIN pending \subseteq Nat
    /\ \A m \in DOMAIN pending : pending[m] \in Row
    /\ envelope \subseteq [mid : Nat, dev : Device, ver : Nat, wrapped : Nat]
    /\ pc \in [Request -> {"idle", "apply", "scan", "project", "remove",
                            "finish", "notify"}]
    /\ op \in [Request -> {"none", "send", "orphan", "get", "post", "publish", "boot"}]
    /\ \A r \in Request : todo[r] \subseteq DOMAIN db.msgs
    /\ acked \subseteq DOMAIN db.msgs

\* Both ends of a stored message still have an account.
Alive(p) == {p.from, p.to} \subseteq users

Projected(m, p) == m \in DOMAIN pending /\ SamePair(pending[m], p)

\* reconcile_pending_dm_markers loses no deferred DM: while both users exist, a
\* stored message has its marker or its row in SQLite, in what readers see and
\* in what a crash would leave, whatever requests replay the markers together.
PendingNeverLost ==
    \A t \in {db, disk} : \A m \in DOMAIN t.msgs :
        Alive(t.msgs[m]) => m \in t.pend \/ Projected(m, t.msgs[m])

\* When get_pending runs its query, every deferred DM of the pair that was
\* stored when the request came in has its row, also one whose own send is
\* still under way or failed after the store.
QuerySeesStored ==
    \A r \in Writers :
        pc[r] = "finish" /\ op[r] = "get" =>
            \A m \in arg[r] : Alive(db.msgs[m]) => Projected(m, db.msgs[m])

\* completed_at is set only with an envelope of that message, and both go
\* together when a user is deleted.
CompletedHasEnvelope ==
    \A m \in DOMAIN pending :
        pending[m].done <=> \E e \in envelope : e.mid = m

\* An envelope belongs to the target of a live row, and to a version of that
\* device's identity that was published.
EnvelopeForTarget ==
    \A e \in envelope :
        /\ e.mid \in DOMAIN pending
        /\ Owner[e.dev] = pending[e.mid].to
        /\ e.ver \in 1 .. identity[e.dev].ver

\* Envelopes are of the devices they were wrapped for, and a pending message is
\* completed by an envelope only (append_envelopes, remove_device).
EnvelopesFit == TypeOK /\ CompletedHasEnvelope /\ EnvelopeForTarget

\* Those of the given mids that the published identity leaves without envelope.
Unserved(a, mids) ==
    {m \in mids \cap DOMAIN db.msgs :
        /\ db.msgs[m].to = Owner[a.dev]
        /\ Alive(db.msgs[m])
        /\ ~HasEnvelope(m, a.dev, a.ver)}

\* put_identity tells every sender whose deferred DM was answered before.
AckedSenderNotified ==
    \A r \in Writers :
        pc[r] = "notify" =>
            \A m \in Unserved(arg[r], arg[r].acked) : db.msgs[m].from \in arg[r].waiting

-----------------------------------------------------------------------------
\* What the comments of the code say and the code does not do.

\* put_identity: "Notify senders with a deferred DM that lacks an envelope for
\* this device so future recipient devices can catch up too."
StoredSenderNotified ==
    \A r \in Writers :
        pc[r] = "notify" =>
            \A m \in Unserved(arg[r], arg[r].stored) : db.msgs[m].from \in arg[r].waiting

\* project_pending_dm_marker: "An existing mid must describe the same sender
\* and target."
RowDescribesMessage ==
    \A m \in DOMAIN pending \cap DOMAIN db.msgs : SamePair(pending[m], db.msgs[m])

\* The migration that added identity_version: "a completed pending envelope
\* stays tied to the exact identity version it was wrapped for".
EnvelopeTiedToVersion == \A e \in envelope : e.wrapped = e.ver

-----------------------------------------------------------------------------
\* Tasks run until they end, sled flushes, the process is restarted, and some
\* client keeps asking for its pending messages.
Fairness ==
    /\ \A r \in Writers : WF_vars(RequestStep(r))
    /\ \A r \in Request : WF_vars(ReconcileStep(r))
    /\ WF_vars(Boot) /\ WF_vars(FinishBoot) /\ WF_vars(BootRefused)
    /\ SF_vars(\E r \in Writers, u, t \in User : BeginGetPending(r, u, t))

FairSpec == Spec /\ Fairness

\* reconcile_pending_dm_markers: "Replay every durable marker", "A failed
\* projection leaves the marker available for a later retry".
MarkerWaits(m) == m \in db.pend /\ Alive(db.msgs[m])

\* The bound of the model keeps the store closed: it has no ids left to lease.
BoundReached == ~up /\ ~CanLease

MarkerReplayed(m) ==
    MarkerWaits(m) ~> ~MarkerWaits(m) \/ BoundReached

EveryMarkerReplayed == \A m \in 1 .. MaxSeq : MarkerReplayed(m)
=============================================================================
