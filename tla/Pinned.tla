-------------------------------- MODULE Pinned --------------------------------
(***************************************************************************)
(* Pinned messages.  The message store keeps, for every message, a merged  *)
(* copy with its newest content; a group keeps a copy of that for each of  *)
(* its pinned messages, in State.cache, and rows of pinned_message in      *)
(* SQLite that only say which messages are pinned.  An edit changes the    *)
(* merged copy and puts the message on a channel, and a task brings the    *)
(* pinned copies up to date.                                               *)
(*                                                                         *)
(* send_message holds the read side of the cache lock until its last step; *)
(* pin_message, unpin_message and the task change pinned copies under the  *)
(* write side.  The task reads the merged copy before it takes the lock.   *)
(*                                                                         *)
(* The rows are in SQLite, the messages in sled: a crash keeps all of the  *)
(* rows, and of the messages only what has reached the disk.               *)
(***************************************************************************)
EXTENDS Integers, Sequences, FiniteSetsExt, SequencesExt

CONSTANTS
    Writer,         \* requests that send and edit messages
    Pinner,         \* users who pin messages; their accounts may be deleted
    MaxMid,         \* bound of the model: messages
    MaxGid,         \* groups
    MaxEdits,       \* bound of the model: edits
    MaxHangUps      \* bound of the model: requests that hang up

ASSUME PinBoundAssumption == {MaxMid, MaxGid, MaxEdits, MaxHangUps} \subseteq Nat

VARIABLES
    stored,         \* messages in the message store
    merged,         \* their merged copies: mid -> content
    disk,           \* what a crash leaves of the two
    pc,             \* per request: where send_message is
    job,            \* per request: the message it writes, and its content
    edits,          \* edits so far; the content of a new message is 0
    channel,        \* msg_updated_channel
    task,           \* process_msg_updated: what it has read
    users,          \* the pinners whose account exists
    pinRows,        \* rows of pinned_message: [gid, mid, by]
    pinned,         \* CacheGroup.pinned_messages: row -> content
    dropped,        \* messages whose writer hung up before the channel
    shared,         \* messages that are or were pinned in two groups at once
    torn,           \* <<gid, mid>> of handlers that stopped at their change of SQLite
    lost,           \* the rows that the last start found no message for
    hangUps         \* requests that hung up so far

sendVars == <<stored, merged, disk, pc, job, edits>>
pinVars == <<users, pinRows, pinned, shared, torn, lost>>
pinnedVars == <<sendVars, channel, task, pinVars, dropped, hangUps>>

Mid == 1 .. MaxMid
Gid == 1 .. MaxGid
Pin == [gid : Gid, mid : Mid, by : Pinner]

NoJob == [mid |-> 0, content |-> 0]

\* What the task reads of a message that has no merged copy yet.
Absent == -1

PinInit ==
    /\ stored = {}
    /\ merged = [m \in {} |-> 0]
    /\ disk = [stored |-> {}, merged |-> merged]
    /\ pc = [w \in Writer |-> "idle"]
    /\ job = [w \in Writer |-> NoJob]
    /\ edits = 0
    /\ channel = <<>>
    /\ task = NoJob
    /\ users = Pinner
    /\ pinRows = {}
    /\ pinned = [p \in {} |-> 0]
    /\ dropped = {}
    /\ shared = {}
    /\ torn = {}
    /\ lost = {}
    /\ hangUps = 0

Put(f, k, v) == [x \in DOMAIN f \cup {k} |-> IF x = k THEN v ELSE f[x]]

\* Some send_message holds the read side of the cache lock; one that hung up
\* does not.
Reading == \E w \in Writer : pc[w] \in {"store", "merge", "tell"}

-----------------------------------------------------------------------------
\* send_message of a new message; the ids are the order in which they are taken.
BeginSend(w) ==
    /\ pc[w] = "idle"
    /\ \E m \in Mid :
         /\ \A x \in stored : x < m
         /\ \A v \in Writer : job[v].mid < m
         /\ job' = [job EXCEPT ![w] = [mid |-> m, content |-> 0]]
    /\ pc' = [pc EXCEPT ![w] = "store"]
    /\ UNCHANGED <<stored, merged, disk, edits, channel, task, pinVars, dropped, hangUps>>

\* do_reaction with an edit: of a message that is stored.
BeginEdit(w, m) ==
    /\ pc[w] = "idle"
    /\ edits < MaxEdits
    /\ edits' = edits + 1
    /\ job' = [job EXCEPT ![w] = [mid |-> m, content |-> edits + 1]]
    /\ pc' = [pc EXCEPT ![w] = "merge"]
    /\ UNCHANGED <<stored, merged, disk, channel, task, pinVars, dropped, hangUps>>

\* internal_send_message: the batch,
Store(w) ==
    /\ pc[w] \in {"store", "orphan store"}
    /\ stored' = stored \cup {job[w].mid}
    /\ pc' = [pc EXCEPT ![w] = IF pc[w] = "store" THEN "merge" ELSE "orphan merge"]
    /\ UNCHANGED <<merged, disk, job, edits, channel, task, pinVars, dropped, hangUps>>

\* then the merged copy; an edit changes one that is there.
Merge(w) ==
    LET m == job[w].mid IN
    /\ pc[w] \in {"merge", "orphan merge"}
    /\ merged' = IF job[w].content = 0 \/ m \in DOMAIN merged
                 THEN Put(merged, m, job[w].content)
                 ELSE merged
    /\ pc' = [pc EXCEPT ![w] = IF pc[w] = "merge" THEN "tell" ELSE "idle"]
    /\ job' = [job EXCEPT ![w] = IF pc[w] = "merge" THEN @ ELSE NoJob]
    /\ UNCHANGED <<stored, disk, edits, channel, task, pinVars, dropped, hangUps>>

\* Mutant: an edit has no merged_id.
TellNew(w) ==
    /\ pc[w] = "tell"
    /\ channel' = IF job[w].content = 0 THEN Append(channel, job[w].mid) ELSE channel
    /\ pc' = [pc EXCEPT ![w] = "idle"]
    /\ job' = [job EXCEPT ![w] = NoJob]
    /\ UNCHANGED <<stored, merged, disk, edits, task, pinVars, dropped, hangUps>>

\* send_message, after the broadcast.
Tell(w) ==
    /\ pc[w] = "tell"
    /\ channel' = Append(channel, job[w].mid)
    /\ pc' = [pc EXCEPT ![w] = "idle"]
    /\ job' = [job EXCEPT ![w] = NoJob]
    /\ UNCHANGED <<stored, merged, disk, edits, task, pinVars, dropped, hangUps>>

\* sled writes its log to the disk, from time to time and when it is closed.
Flush ==
    /\ disk' = [stored |-> stored, merged |-> merged]
    /\ UNCHANGED <<stored, merged, pc, job, edits, channel, task, pinVars, dropped, hangUps>>

\* The client hangs up: the handler is dropped with its lock, its blocking task
\* goes on.
HangUp(w) ==
    /\ pc[w] \in {"store", "merge", "tell"}
    /\ hangUps < MaxHangUps
    /\ hangUps' = hangUps + 1
    /\ dropped' = dropped \cup {job[w].mid}
    /\ pc' = [pc EXCEPT ![w] = IF @ = "tell" THEN "idle"
                               ELSE IF @ = "store" THEN "orphan store" ELSE "orphan merge"]
    /\ job' = [job EXCEPT ![w] = IF pc[w] = "tell" THEN NoJob ELSE @]
    /\ UNCHANGED <<stored, merged, disk, edits, channel, task, pinVars>>

-----------------------------------------------------------------------------
PinnedIn(g, m) == {p \in DOMAIN pinned : p.gid = g /\ p.mid = m}

\* After the statement: the cache follows, or the client has hung up and the
\* handler is gone.
AfterCommit(g, m, newPinned) ==
    \/ /\ pinned' = newPinned
       /\ UNCHANGED <<torn, hangUps>>
    \/ /\ hangUps < MaxHangUps
       /\ hangUps' = hangUps + 1
       /\ torn' = torn \cup {<<g, m>>}
       /\ pinned' = pinned

\* A message with two pins: process_msg_updated only looks for the first.
TwoPins(ps) == {p.mid : p \in {x \in ps : \E y \in ps : x.mid = y.mid /\ x.gid # y.gid}}

\* Mutant: the message is not looked up.
PinUnseen(u, g, m) ==
    LET p == [gid |-> g, mid |-> m, by |-> u] IN
    /\ ~Reading
    /\ u \in users
    /\ PinnedIn(g, m) = {}
    /\ ~\E row \in pinRows : row.gid = g /\ row.mid = m
    /\ pinRows' = pinRows \cup {p}
    /\ AfterCommit(g, m, Put(pinned, p, IF m \in DOMAIN merged THEN merged[m] ELSE 0))
    /\ shared' = shared \cup TwoPins(DOMAIN pinned')
    /\ UNCHANGED <<sendVars, channel, task, users, lost, dropped>>

\* pin_message, of any message that has a merged copy.
PinMessage(u, g, m) ==
    LET p == [gid |-> g, mid |-> m, by |-> u] IN
    /\ ~Reading
    /\ u \in users
    /\ PinnedIn(g, m) = {}
    /\ m \in DOMAIN merged
    /\ ~\E row \in pinRows : row.gid = g /\ row.mid = m
    /\ pinRows' = pinRows \cup {p}
    /\ AfterCommit(g, m, Put(pinned, p, merged[m]))
    /\ shared' = shared \cup TwoPins(DOMAIN pinned')
    /\ UNCHANGED <<sendVars, channel, task, users, lost, dropped>>

\* unpin_message
UnpinMessage(g, m) ==
    LET kept == DOMAIN pinned \ PinnedIn(g, m) IN
    /\ ~Reading
    /\ PinnedIn(g, m) # {}
    /\ pinRows' = {row \in pinRows : row.gid # g \/ row.mid # m}
    /\ AfterCommit(g, m, [p \in kept |-> pinned[p]])
    /\ UNCHANGED <<sendVars, channel, task, users, shared, lost, dropped>>

\* delete_user: the rows of the user's pins cascade, the cache keeps them.
DeletePinner(u) ==
    /\ ~Reading
    /\ u \in users
    /\ users' = users \ {u}
    /\ pinRows' = {row \in pinRows : row.by # u}
    /\ UNCHANGED <<sendVars, channel, task, pinned, shared, torn, lost, dropped, hangUps>>

-----------------------------------------------------------------------------
\* process_msg_updated: take a message from the channel and read its merged
\* copy,
Receive ==
    /\ task = NoJob
    /\ channel # <<>>
    /\ channel' = Tail(channel)
    /\ LET m == Head(channel) IN
       task' = [mid |-> m, content |-> IF m \in DOMAIN merged THEN merged[m] ELSE Absent]
    /\ UNCHANGED <<sendVars, pinVars, dropped, hangUps>>

Pins(m) == {p \in DOMAIN pinned : p.mid = m}

FirstPin(m) == {p \in Pins(m) : \A q \in Pins(m) : p.gid <= q.gid}

\* Mutant: the task ends at a message that has no merged copy.
ApplyMerged ==
    /\ task # NoJob
    /\ ~Reading
    /\ task.content # Absent
    /\ task' = NoJob
    /\ pinned' = [p \in DOMAIN pinned |->
                    IF p \in FirstPin(task.mid) THEN task.content ELSE pinned[p]]
    /\ UNCHANGED <<sendVars, channel, users, pinRows, shared, torn, lost, dropped, hangUps>>

\* Mutant: an unpinned message keeps its row.
ApplyInCache ==
    LET first == FirstPin(task.mid) IN
    /\ task # NoJob
    /\ ~Reading
    /\ task' = NoJob
    /\ pinned' = IF task.content # Absent
                 THEN [p \in DOMAIN pinned |-> IF p \in first THEN task.content ELSE pinned[p]]
                 ELSE [p \in DOMAIN pinned \ first |-> pinned[p]]
    /\ UNCHANGED <<sendVars, channel, users, pinRows, shared, torn, lost, dropped, hangUps>>

\* then, under the lock, change the copy of the first group that has it pinned,
\* or unpin it there when there was no merged copy.
Apply ==
    LET first == FirstPin(task.mid) IN
    /\ task # NoJob
    /\ ~Reading
    /\ task' = NoJob
    /\ IF task.content # Absent
       THEN /\ pinned' = [p \in DOMAIN pinned |-> IF p \in first THEN task.content ELSE pinned[p]]
            /\ pinRows' = pinRows
       ELSE /\ pinned' = [p \in DOMAIN pinned \ first |-> pinned[p]]
            /\ pinRows' = {row \in pinRows :
                             \A p \in first : row.gid # p.gid \/ row.mid # p.mid}
    /\ UNCHANGED <<sendVars, channel, users, shared, torn, lost, dropped, hangUps>>

\* The process ends and starts: the messages are as the disk has them, and
\* load_groups_cache reads the pins with the merged copies.  A row whose message
\* is gone stays, and is passed over.
Restart ==
    LET loaded == {p \in pinRows : p.mid \in DOMAIN disk.merged} IN
    /\ stored' = disk.stored
    /\ merged' = disk.merged
    /\ pc' = [w \in Writer |-> "idle"]
    /\ job' = [w \in Writer |-> NoJob]
    /\ channel' = <<>>
    /\ task' = NoJob
    /\ pinned' = [p \in loaded |-> disk.merged[p.mid]]
    /\ lost' = pinRows \ loaded
    /\ dropped' = {}
    /\ shared' = TwoPins(loaded)
    /\ torn' = {}
    /\ UNCHANGED <<disk, edits, users, pinRows, hangUps>>

PinNext ==
    \/ \E w \in Writer : BeginSend(w) \/ Store(w) \/ Merge(w) \/ Tell(w) \/ HangUp(w)
    \/ \E w \in Writer, m \in stored : BeginEdit(w, m)
    \/ \E u \in Pinner, g \in Gid, m \in Mid : PinMessage(u, g, m)
    \/ \E g \in Gid, m \in Mid : UnpinMessage(g, m)
    \/ \E u \in Pinner : DeletePinner(u)
    \/ Receive \/ Apply
    \/ Flush
    \/ Restart

PinSpec == PinInit /\ [][PinNext]_pinnedVars

\* Requests and the task run until they end; the cache lock is fair.
PinFairness ==
    /\ \A w \in Writer :
         WF_pinnedVars(Store(w)) /\ WF_pinnedVars(Merge(w)) /\ WF_pinnedVars(Tell(w))
    /\ WF_pinnedVars(Receive) /\ SF_pinnedVars(Apply)

PinFairSpec == PinSpec /\ PinFairness

-----------------------------------------------------------------------------
\* The type of every variable; a pinned message has a merged copy.
PinTypeOK ==
    /\ stored \subseteq Mid
    /\ DOMAIN merged \subseteq stored
    /\ \A m \in DOMAIN merged : merged[m] \in 0 .. edits
    /\ DOMAIN disk.merged \subseteq disk.stored /\ disk.stored \subseteq stored
    /\ edits \in 0 .. MaxEdits
    /\ pc \in [Writer -> {"idle", "store", "merge", "tell", "orphan store", "orphan merge"}]
    /\ job \in [Writer -> [mid : 0 .. MaxMid, content : 0 .. MaxEdits]]
    /\ ToSet(channel) \subseteq stored
    /\ task = NoJob \/ (task.mid \in stored /\ task.content \in Absent .. edits)
    /\ users \subseteq Pinner
    /\ pinRows \subseteq Pin /\ DOMAIN pinned \subseteq Pin
    /\ \A p \in DOMAIN pinned : p.mid \in DOMAIN merged
    /\ dropped \cup shared \subseteq Mid
    /\ torn \subseteq Gid \X Mid
    /\ lost \subseteq Pin
    /\ hangUps \in 0 .. MaxHangUps

\* The messages that have work under way: a writer, the channel or the task.
Pending == {job[w].mid : w \in Writer} \cup ToSet(channel) \cup {task.mid}

\* When nothing is under way for a message, its pinned copy is the merged one,
\* although the task writes what it read before it had the lock, and messages
\* are pinned and edited at the same time.
PinnedIsMerged ==
    \A p \in DOMAIN pinned :
        p.mid \notin Pending \cup dropped \cup shared => pinned[p] = merged[p.mid]

\* What is shown as pinned is what the message says by now (pin_message,
\* process_msg_updated).
PinnedShowsMerged == PinTypeOK /\ PinnedIsMerged

\* The rows and the cache have the same pins, but for those of users who are
\* gone, those of a handler that was cut short, until the next start, and the
\* rows whose message a crash took: so a restart forgets no other pin and
\* invents none (pin_message, unpin_message, delete_user, load_groups_cache).
Whole(pins) == {p \in pins : <<p.gid, p.mid>> \notin torn}

PinsSurviveRestart ==
    Whole(pinRows \ lost) = Whole({p \in DOMAIN pinned : p.by \in users})

\* process_msg_updated: "pinned message updated": a pinned copy that is behind
\* catches up, or is unpinned.
Behind(p) ==
    /\ p \in DOMAIN pinned
    /\ p.mid \notin dropped \cup shared
    /\ pinned[p] # merged[p.mid]

PinnedCatchesUp == \A p \in Pin : Behind(p) ~> ~Behind(p)

\* Does not hold: a pin whose message a crash took stays away.  The id may be
\* taken again, and then the next start shows the new message as pinned.
LostPinsStayLost == [][\A p \in lost : p \notin DOMAIN pinned']_pinnedVars
===============================================================================
