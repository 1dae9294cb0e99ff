------------------------------- MODULE Settings -------------------------------
(***************************************************************************)
(* A user's own settings: whom it has muted, whose messages it wants       *)
(* burnt after reading, and how far it has read.  Each is a row of SQLite  *)
(* per user or group it is about, and an entry of CacheUser.  A handler    *)
(* checks its request against the cache, changes the rows in one           *)
(* transaction, then the cache, then tells the user's other devices; it    *)
(* holds the write side of the cache lock all along, but a client that     *)
(* hangs up drops it where it waits, at the commit.                        *)
(*                                                                         *)
(* An entry is a number: 0 if there is none, the time a mute ends, the     *)
(* seconds before a message burns, the last message that was read.  The    *)
(* kinds do not meet, so a behaviour is about the settings of one.         *)
(***************************************************************************)
EXTENDS Integers, Sequences, FiniteSetsExt, Functions

CONSTANTS
    Peer,           \* the other users
    Gid,            \* groups
    Owner,          \* the owner of each group: deleting the user deletes it
    Device,         \* the devices of the user
    MaxMid,         \* bound of the model: messages
    MaxTime,        \* bound of the model: the time
    MaxBatch,       \* bound of the model: items in one read index request
    MaxChanges      \* bound of the model: requests that change something

ASSUME SettingsAssumption ==
    /\ {MaxMid, MaxTime, MaxBatch, MaxChanges} \subseteq Nat /\ MaxTime # 0
    /\ Owner \in [Gid -> Peer]

VARIABLES
    time,           \* the clock, in ticks
    kind,           \* the kind of settings the behaviour is about
    settings,       \* the rows of that kind: target -> entry
    listed,         \* the same in CacheUser
    kept,           \* targets that have a row in user or group
    live,           \* targets in the cache
    sweep,          \* clean_mute: the time it has taken, or NotSweeping
    stream,         \* per device: has it a stream
    pending,        \* per device: events its stream has not sent yet
    shown,          \* per device: what its client shows
    own,            \* per device: entries it has changed itself since
    readSaid,       \* targets: the greatest mid a request was answered for
    tornAt,         \* entries whose last handler stopped at its commit
    changes         \* requests so far

setVars == <<time, kind, settings, listed, kept, live, sweep, stream, pending, shown,
             own, readSaid, tornAt, changes>>

Target == Peer \cup Gid
Kind == {"mute", "burn", "read"}

NotSweeping == -1

\* A mute without an end: expired_at is null.
Forever == MaxTime + 2

Unset == [t \in Target |-> 0]

SettingsInit ==
    /\ time = 1
    /\ kind \in Kind
    /\ settings = Unset /\ listed = Unset
    /\ kept = Target /\ live = Target
    /\ sweep = NotSweeping
    /\ stream = [d \in Device |-> FALSE]
    /\ pending = [d \in Device |-> <<>>]
    /\ shown = [d \in Device |-> Unset]
    /\ own = [d \in Device |-> {}]
    /\ readSaid = [t \in Target |-> 0]
    /\ tornAt = {}
    /\ changes = 0

-----------------------------------------------------------------------------
\* A change of entries is a function from some targets to their new entries: of
\* a list that has a target twice, the last item stays, in rows and in cache.
Changes(size, values) ==
    UNION {[ts -> values] : ts \in {ss \in SUBSET Target : Cardinality(ss) \in 1 .. size}}

Put(table, req) == [t \in Target |-> IF t \in DOMAIN req THEN req[t] ELSE table[t]]

\* The checks against the cache, and the foreign keys of the rows it writes.
Accepted(req) ==
    /\ changes < MaxChanges
    /\ DOMAIN req \subseteq live
    /\ {t \in DOMAIN req : req[t] # 0} \subseteq kept
    /\ changes' = changes + 1

Event(d, req) == [from |-> d, req |-> req]

\* The event for the streams of the user's devices.
Tell(d, req) ==
    pending' = [e \in Device |-> IF stream[e] THEN Append(pending[e], Event(d, req))
                                              ELSE pending[e]]

\* A device without a stream starts over with the next snapshot.
Owned(d, req) ==
    own' = IF stream[d] THEN [own EXCEPT ![d] = @ \cup DOMAIN req] ELSE own

\* Mutant: the event goes to the device that asked.
ChangeTellingAsker(d, req) ==
    /\ settings' = Put(settings, req)
    /\ listed' = Put(listed, req)
    /\ tornAt' = tornAt \ DOMAIN req
    /\ Owned(d, req)
    /\ pending' = IF stream[d] THEN [pending EXCEPT ![d] = Append(@, Event(d, req))]
                               ELSE pending

\* The transaction; then, unless the client has hung up, the cache and the
\* event.
Change(d, req) ==
    /\ settings' = Put(settings, req)
    /\ \/ /\ listed' = Put(listed, req)
          /\ tornAt' = tornAt \ DOMAIN req
          /\ Owned(d, req)
          /\ Tell(d, req)
       \/ /\ tornAt' = tornAt \cup DOMAIN req
          /\ UNCHANGED <<listed, own, pending>>

deviceVars == <<kind, stream, shown>>
targetVars == <<kept, live>>

\* mute; an entry 0 is one of remove_users or remove_groups.
Mute(d, req) ==
    /\ kind = "mute"
    /\ Accepted(req)
    /\ Change(d, req)
    /\ UNCHANGED <<time, deviceVars, targetVars, sweep, readSaid>>

\* update_burn_after_reading; 0 seconds delete the entry.
BurnAfterReading(d, req) ==
    /\ kind = "burn"
    /\ Accepted(req)
    /\ Change(d, req)
    /\ UNCHANGED <<time, deviceVars, targetVars, sweep, readSaid>>

\* The request of update_read_index is a list, and may name a target again.
ReadItem == [target : Target, mid : 1 .. MaxMid]
ReadLists == UNION {[1 .. n -> ReadItem] : n \in 1 .. MaxBatch}

TargetsOf(items) == {items[i].target : i \in DOMAIN items}

\* What the items at some places say of a target when they are written in order.
LastItems(items, places) ==
    [t \in {items[i].target : i \in places} |->
        items[Max({i \in places : items[i].target = t})].mid]

\* Mutant: whatever the client says is the last message read.
NewerRegardless(items) == DOMAIN items

\* The places of the items that are beyond the cache, each by itself.
Newer(items) == {i \in DOMAIN items : items[i].mid > listed[items[i].target]}

\* The client is told that all it asked for is read; of a target that it names
\* again, what it said last counts.
SaidRead(items) ==
    LET said == LastItems(items, DOMAIN items) IN
    readSaid' = [t \in Target |-> IF t \in TargetsOf(items) THEN Max({said[t], readSaid[t]})
                                                      ELSE readSaid[t]]

\* update_read_index: what the cache does not have yet.
ReadIndex(d, items) ==
    LET newer == LastItems(items, Newer(items)) IN
    /\ kind = "read"
    /\ Newer(items) # {} /\ TargetsOf(items) \subseteq live /\ Accepted(newer)
    /\ Change(d, newer)
    /\ IF listed' = listed THEN UNCHANGED readSaid ELSE SaidRead(items)
    /\ UNCHANGED <<time, deviceVars, targetVars, sweep>>

\* Nothing new is an answer at once.
ReadIndexOld(items) ==
    /\ kind = "read"
    /\ TargetsOf(items) \subseteq live /\ Newer(items) = {}
    /\ SaidRead(items)
    /\ UNCHANGED <<time, settings, listed, deviceVars, targetVars, sweep, pending, own, tornAt, changes>>

-----------------------------------------------------------------------------
\* The rows about targets that are gone: on delete cascade.
RowsWithout(ts) == [t \in Target |-> IF t \in ts THEN 0 ELSE settings[t]]

\* Mutant: the entries of the cache are left alone.
ForgetNothing(ts) == listed

\* delete_user and ApiGroup::delete take the read index out of the cache; the
\* mute and the burning time of the target stay there.
ForgetRead(ts) ==
    IF kind = "read" THEN [t \in Target |-> IF t \in ts THEN 0 ELSE listed[t]] ELSE listed

\* A target goes: its row, and then, unless the handler is dropped, the cache.
RemoveTarget(gone, alsoGone) ==
    /\ kept' = kept \ {gone}
    /\ settings' = RowsWithout({gone})
    /\ \/ /\ live' = live \ ({gone} \cup alsoGone)
          /\ listed' = ForgetRead({gone} \cup alsoGone)
          /\ UNCHANGED tornAt
       \/ /\ tornAt' = tornAt \cup {gone}
          /\ UNCHANGED <<live, listed>>
    /\ UNCHANGED <<time, deviceVars, sweep, pending, own, readSaid, changes>>

\* State::delete_user of somebody else; its groups leave the cache only.
DeletePeer(p) ==
    /\ p \in live
    /\ RemoveTarget(p, {g \in Gid \cap live : Owner[g] = p})

\* ApiGroup::delete.
DeleteOwnGroup(g) ==
    /\ g \in live
    /\ RemoveTarget(g, {})

-----------------------------------------------------------------------------
\* Without the mutes that are over at a time.
WithoutOver(table, at) ==
    IF kind = "mute" THEN [t \in Target |-> IF table[t] < at THEN 0 ELSE table[t]] ELSE table

\* clean_mute, every 30 seconds: the time, the rows (an error is logged), and
\* then the cache under its lock.
CleanMuteRows ==
    /\ kind = "mute" /\ sweep = NotSweeping
    /\ sweep' = time
    /\ settings' \in {settings, WithoutOver(settings, time)}
    /\ UNCHANGED <<time, listed, targetVars, deviceVars, pending, own, readSaid, tornAt, changes>>

\* Mutant: every mute with an end goes.
CleanMuteCacheAll ==
    /\ sweep # NotSweeping
    /\ listed' = WithoutOver(listed, Forever)
    /\ sweep' = NotSweeping
    /\ UNCHANGED <<time, settings, targetVars, deviceVars, pending, own, readSaid, tornAt, changes>>

CleanMuteCache ==
    /\ sweep # NotSweeping
    /\ listed' = WithoutOver(listed, sweep)
    /\ sweep' = NotSweeping
    /\ UNCHANGED <<time, settings, targetVars, deviceVars, pending, own, readSaid, tornAt, changes>>

\* Only mutes depend on the time.
Tick ==
    /\ kind = "mute" /\ time < MaxTime
    /\ time' = time + 1
    /\ UNCHANGED <<settings, listed, targetVars, deviceVars, sweep, pending, own, readSaid, tornAt,
                   changes>>

-----------------------------------------------------------------------------
\* The snapshot of a new stream leaves out the mutes that are over.
UserSettings == WithoutOver(listed, time)

\* events: the settings and the subscription under one lock.
Subscribe(d) ==
    /\ stream' = [stream EXCEPT ![d] = TRUE]
    /\ shown' = [shown EXCEPT ![d] = UserSettings]
    /\ pending' = [pending EXCEPT ![d] = <<>>]
    /\ own' = [own EXCEPT ![d] = {}]
    /\ UNCHANGED <<time, kind, settings, listed, targetVars, sweep, readSaid, tornAt, changes>>

\* events_loop drops the events of the device's own requests.
Deliver(d) ==
    /\ pending[d] # <<>>
    /\ LET e == Head(pending[d]) IN
       shown' = IF e.from = d THEN shown ELSE [shown EXCEPT ![d] = Put(@, e.req)]
    /\ pending' = [pending EXCEPT ![d] = Tail(@)]
    /\ UNCHANGED <<time, kind, settings, listed, targetVars, sweep, stream, own, readSaid, tornAt, changes>>

Offline(ds) ==
    /\ stream' = [d \in Device |-> d \notin ds /\ stream[d]]
    /\ shown' = [d \in Device |-> IF d \in ds THEN Unset ELSE shown[d]]
    /\ pending' = [d \in Device |-> IF d \in ds THEN <<>> ELSE pending[d]]
    /\ own' = [d \in Device |-> IF d \in ds THEN {} ELSE own[d]]

\* Mutant: the stream's receiver is left behind.
DisconnectOnly(d) ==
    /\ stream[d]
    /\ stream' = [stream EXCEPT ![d] = FALSE]
    /\ shown' = [shown EXCEPT ![d] = Unset]
    /\ UNCHANGED <<pending, own>>
    /\ UNCHANGED <<time, kind, settings, listed, targetVars, sweep, readSaid, tornAt, changes>>

Disconnect(d) ==
    /\ stream[d]
    /\ Offline({d})
    /\ UNCHANGED <<time, kind, settings, listed, targetVars, sweep, readSaid, tornAt, changes>>

\* load_users_cache and load_groups_cache.
RestartSettings ==
    /\ listed' = settings
    /\ live' = kept
    /\ Offline(Device)
    /\ sweep' = NotSweeping
    /\ tornAt' = {}
    /\ UNCHANGED <<time, kind, settings, kept, readSaid, changes>>

SettingsNext ==
    \/ \E d \in Device :
        \/ \E req \in Changes(1, {0, time + 1, Forever}) : Mute(d, req)
        \/ \E req \in Changes(1, {0, 1}) : BurnAfterReading(d, req)
        \/ \E items \in ReadLists : ReadIndex(d, items) \/ ReadIndexOld(items)
        \/ Subscribe(d) \/ Deliver(d) \/ Disconnect(d)
    \/ \E p \in Peer : DeletePeer(p)
    \/ \E g \in Gid : DeleteOwnGroup(g)
    \/ CleanMuteRows \/ CleanMuteCache \/ Tick
    \/ RestartSettings

-----------------------------------------------------------------------------
Tables == [Target -> 0 .. Max({Forever, MaxMid})]

\* Every variable stays in its range, and a device without a stream shows
\* nothing and is told nothing (device streams of events).
SettingsTypeOK ==
    /\ time \in 1 .. MaxTime /\ kind \in Kind
    /\ {settings, listed} \subseteq Tables
    /\ kept \subseteq Target /\ live \subseteq Target
    /\ sweep \in 1 .. MaxTime \cup {NotSweeping}
    /\ stream \in [Device -> BOOLEAN]
    /\ shown \in [Device -> Tables]
    /\ \A d \in Device : Len(pending[d]) <= changes /\ own[d] \subseteq Target
    /\ \A d \in Device : ~stream[d] => shown[d] = Unset /\ pending[d] = <<>> /\ own[d] = {}
    /\ tornAt \subseteq Target
    /\ changes \in 0 .. MaxChanges

\* What the cache says of a target that exists is what its row says, unless a
\* handler was dropped at its commit: a restart changes nothing else, and the
\* task that clears mutes never takes one that is not over.
SettingsStored ==
    \A t \in (live \cap kept) \ tornAt : UserSettings[t] = WithoutOver(settings, time)[t]

\* What a client was told is read stays read, for the life of the target:
\* through requests of other devices with older messages, handlers that are
\* dropped at their commit, and restarts.  A request that names a target again
\* means what it says last (AllItemsKept).
AnsweredReadKept ==
    kind = "read" =>
        \A t \in kept :
            /\ readSaid[t] <= settings[t]
            /\ t \in live => readSaid[t] <= listed[t]

\* A read index, which is sent to the clients, names a user or a group that is
\* still there: whoever removes one clears the read indices of all others.
ReadIndexNamesLive ==
    kind = "read" => \A t \in Target : listed[t] # 0 => t \in live

\* A device that has been sent all its events shows the settings of the
\* cache, but for those it has changed itself meanwhile: the snapshot of
\* events and the events after it fit, whatever the other devices do.
DevicesFollow ==
    \A d \in Device : stream[d] /\ pending[d] = <<>> =>
        \A t \in live \ own[d] : WithoutOver(shown[d], time)[t] = UserSettings[t]

-----------------------------------------------------------------------------
\* is_user_muted and is_group_muted: who gets no notification.
Silenced(t) == listed[t] = Forever \/ (listed[t] # 0 /\ listed[t] < time)

\* A mute silences until it ends.  is_user_muted has the comparison the other
\* way round: a mute with an end silences only when it is over, until
\* clean_mute takes it away.
MutedIsSilent ==
    kind = "mute" => \A t \in live : UserSettings[t] # 0 => Silenced(t)

\* Does not hold: each item is compared with the cache as it was before the
\* request, so of two newer ones the last is stored, also if it is the smaller.
AllItemsKept ==
    [][\A d \in Device, items \in ReadLists : ReadIndex(d, items) /\ listed' # listed =>
        \A i \in DOMAIN items : items[i].mid <= listed'[items[i].target]]_setVars

SettingsSpec == SettingsInit /\ [][SettingsNext]_setVars

\* The settings of a user agree wherever they are: rows, cache and devices
\* (mute, update_burn_after_reading, update_read_index, clean_mute).
SettingsAgree ==
    SettingsTypeOK /\ SettingsStored /\ AnsweredReadKept /\ ReadIndexNamesLive /\ DevicesFollow
===============================================================================
