----------------------------- MODULE EventStream -----------------------------
(***************************************************************************)
(* The server-sent event streams of one user, and the bus behind them.     *)
(*                                                                         *)
(* send_message stores a message and then broadcasts it to every receiver  *)
(* of State.event_sender, a bounded bus whose slow receivers miss events.  *)
(* It holds the read side of State.cache from before the write until after *)
(* the broadcast.  GET /user/events takes the write side, makes the stream *)
(* the device's current one, subscribes to the bus, reads what is stored   *)
(* after the client's last message, and starts a loop that copies events   *)
(* from the bus to the client.  A device remembers its current stream by   *)
(* the sender half of a channel; dropping it ends the loop.  The request   *)
(* may fail before it starts the loop, and leaves a sender without one.    *)
(*                                                                         *)
(* Every message here is one to this user.  A stream is connected once; a  *)
(* client that reconnects opens another one.                               *)
(***************************************************************************)
EXTENDS Integers, Sequences, FiniteSets, SequencesExt

CONSTANTS
    Writer,         \* requests that send a message to the user
    Device,         \* the user's devices
    Stream,         \* connections to /user/events
    hook,           \* forward_chat_messages_to_webhook, a receiver like them
    NoStream,       \* CacheDevice.sender is None
    Capacity,       \* of the bus: 128 in the code
    MaxMid,         \* bound of the model: messages
    MaxHangUps      \* bound of the model: senders that hang up

ASSUME StreamAssumption == hook \notin Stream /\ NoStream \notin Stream
ASSUME DeviceAssumption == Device # {}
ASSUME CapacityAssumption == Capacity \in Nat \ {0}
ASSUME MidBoundAssumption == MaxMid \in Nat /\ MaxHangUps \in Nat

VARIABLES
    nextMid,        \* the sequence of message ids
    stored,         \* messages in the user's index
    broadcasted,    \* those that went to the bus
    pc,             \* per writer: where send_message is
    mid,            \* per writer: the id of its message
    device,         \* the keys of CacheUser.devices
    slot,           \* CacheDevice.sender: the stream it belongs to
    online,         \* what the last UserStateChanged event said
    silent,         \* since then the last device that had a sender was removed,
                    \* and its stream had failed: a record of the model
    at,             \* per stream: where its loop is
    of,             \* per stream: its device
    open,           \* streams whose client is connected
    start,          \* per stream: push_start_id, 0 for None
    queue,          \* per receiver: events of the bus it has not read
    lagged,         \* receivers that have missed an event
    sent,           \* per receiver: the messages it was sent, in order
    hangUps         \* senders that hung up so far

sendVars == <<nextMid, stored, broadcasted, pc, mid, hangUps>>
slotVars == <<device, slot, online, silent>>
streamVars == <<at, of, open, start>>
busVars == <<queue, lagged, sent>>
vars == <<sendVars, slotVars, streamVars, busVars>>

Receiver == Stream \cup {hook}

Init ==
    /\ nextMid = 1
    /\ stored = {}
    /\ broadcasted = {}
    /\ pc = [w \in Writer |-> "idle"]
    /\ mid = [w \in Writer |-> 0]
    /\ hangUps = 0
    /\ device = Device
    /\ slot = [d \in Device |-> NoStream]
    /\ online = FALSE
    /\ silent = FALSE
    /\ at = [s \in Stream |-> "new"]
    /\ of = [s \in Stream |-> CHOOSE d \in Device : TRUE]
    /\ open = {}
    /\ start = [s \in Stream |-> 0]
    /\ queue = [x \in Receiver |-> <<>>]
    /\ lagged = {}
    /\ sent = [x \in Receiver |-> <<>>]

\* Some send_message holds the read side of the cache lock.
Reading == \E w \in Writer : pc[w] \in {"write", "tell"}

\* Some events request holds the write side.
Opening == \E s \in Stream : at[s] = "opening"

-----------------------------------------------------------------------------
\* send_message: take the lock; the blocking task takes an id ...
BeginSend(w) ==
    /\ ~Opening
    /\ pc[w] = "idle"
    /\ nextMid <= MaxMid
    /\ nextMid' = nextMid + 1
    /\ mid' = [mid EXCEPT ![w] = nextMid]
    /\ pc' = [pc EXCEPT ![w] = "write"]
    /\ UNCHANGED <<stored, broadcasted, hangUps, slotVars, streamVars, busVars>>

\* ... and writes the message;
StoreMessage(w) ==
    /\ pc[w] \in {"write", "orphan"}
    /\ stored' = stored \cup {mid[w]}
    /\ pc' = [pc EXCEPT ![w] = IF pc[w] = "write" THEN "tell" ELSE "idle"]
    /\ UNCHANGED <<nextMid, broadcasted, mid, hangUps, slotVars, streamVars, busVars>>

\* the receivers of the bus are the webhook task and the streams.
Subscribed(x) ==
    IF x = hook THEN hook \notin lagged ELSE at[x] \in {"opening", "loop"}

\* Mutant: the bus is not bounded.
BroadcastUnbounded(w) ==
    /\ pc[w] = "tell"
    /\ broadcasted' = broadcasted \cup {mid[w]}
    /\ queue' = [x \in Receiver |-> IF Subscribed(x) THEN Append(queue[x], mid[w])
                                                    ELSE queue[x]]
    /\ pc' = [pc EXCEPT ![w] = "idle"]
    /\ UNCHANGED <<nextMid, stored, mid, hangUps, slotVars, streamVars, lagged, sent>>

\* A receiver that is Capacity events behind loses the oldest; its next recv
\* says so, and both kinds of receivers end then.
Broadcast(w) ==
    /\ pc[w] = "tell"
    /\ broadcasted' = broadcasted \cup {mid[w]}
    /\ lagged' = lagged \cup
         {x \in Receiver : Subscribed(x) /\ Len(queue[x]) = Capacity}
    /\ queue' = [x \in Receiver |->
                   IF Subscribed(x) /\ x \notin lagged'
                   THEN Append(queue[x], mid[w])
                   ELSE queue[x]]
    /\ pc' = [pc EXCEPT ![w] = "idle"]
    /\ UNCHANGED <<nextMid, stored, mid, hangUps, slotVars, streamVars, sent>>

\* The sender hangs up: its future is dropped with the lock, before the
\* broadcast.  The blocking task is not cancelled.
HangUp(w) ==
    /\ pc[w] \in {"write", "tell"}
    /\ hangUps < MaxHangUps
    /\ hangUps' = hangUps + 1
    /\ pc' = [pc EXCEPT ![w] = IF pc[w] = "write" THEN "orphan" ELSE "idle"]
    /\ UNCHANGED <<nextMid, stored, broadcasted, mid, slotVars, streamVars, busVars>>

-----------------------------------------------------------------------------
\* is_online: some device has a sender.
Online(sl, ds) == \E d \in ds : sl[d] # NoStream

\* What the client on a device has received, on any stream.
Received(d) == UNION {ToSet(sent[s]) : s \in {x \in Stream : of[x] = d /\ at[x] # "new"}}

\* The stored messages after one, in the order of their ids.
After(m) ==
    LET newer == {k \in stored : k > m} IN
    CHOOSE q \in [1 .. Cardinality(newer) -> newer] :
        \A i, j \in DOMAIN q : i < j => q[i] < q[j]

\* The after_mid that the client of a device sends.
LastReceived(d) == Max({0} \cup Received(d))

\* Mutant: the request takes the read side of the lock only.
BeginSubscribeReading(s, d) ==
    /\ at[s] = "new"
    /\ d \in device
    /\ slot' = [slot EXCEPT ![d] = s]
    /\ online' = (online \/ ~Online(slot, device))
    /\ silent' = FALSE
    /\ at' = [at EXCEPT ![s] = "opening"]
    /\ of' = [of EXCEPT ![s] = d]
    /\ UNCHANGED <<sendVars, device, open, start, busVars>>

\* events: under the write lock, the old stream of the device is kicked (its
\* sender dropped), the new one takes its place, and the bus is subscribed to.
BeginSubscribe(s, d) ==
    /\ ~Reading /\ ~Opening
    /\ at[s] = "new"
    /\ d \in device
    /\ slot' = [slot EXCEPT ![d] = s]
    /\ online' = (online \/ ~Online(slot, device))
    /\ silent' = FALSE
    /\ at' = [at EXCEPT ![s] = "opening"]
    /\ of' = [of EXCEPT ![s] = d]
    /\ UNCHANGED <<sendVars, device, open, start, busVars>>

\* Then it waits for the log of the users.  A failed query, a failed read of the
\* messages, or a client that hangs up ends it; the sender stays in the device.
SubscribeFails(s) ==
    /\ at[s] = "opening"
    /\ at' = [at EXCEPT ![s] = "failed"]
    /\ UNCHANGED <<sendVars, slotVars, of, open, start, busVars>>

\* Otherwise the messages after the client's last one are read and sent, and the
\* loop starts.  No more of them wait than MAX_NEWEST_MESSAGES.
Subscribe(s) ==
    LET newest == After(LastReceived(of[s])) IN
    /\ at[s] = "opening"
    /\ at' = [at EXCEPT ![s] = "loop"]
    /\ open' = open \cup {s}
    /\ start' = [start EXCEPT ![s] = IF newest = <<>> THEN 0 ELSE Last(newest)]
    /\ sent' = [sent EXCEPT ![s] = newest]
    /\ UNCHANGED <<sendVars, slotVars, of, queue, lagged>>

\* events_loop copies an event, unless it came with the stored messages.
CopyEvent(s) ==
    LET m == Head(queue[s]) IN
    /\ at[s] = "loop" /\ s \in open
    /\ s \notin lagged
    /\ queue[s] # <<>>
    /\ queue' = [queue EXCEPT ![s] = Tail(@)]
    /\ IF start[s] # 0 /\ m <= start[s]
       THEN UNCHANGED <<start, sent>>
       ELSE /\ start' = [start EXCEPT ![s] = 0]
            /\ sent' = [sent EXCEPT ![s] = Append(@, m)]
    /\ UNCHANGED <<sendVars, slotVars, at, of, open, lagged>>

EndLoop(s) ==
    /\ at' = [at EXCEPT ![s] = "cleanup"]
    /\ queue' = [queue EXCEPT ![s] = <<>>]
    /\ UNCHANGED <<sendVars, slotVars, of, open, start, lagged, sent>>

\* It ends when the bus says that events were missed,
LoopLagged(s) ==
    /\ at[s] = "loop"
    /\ s \in lagged
    /\ EndLoop(s)

\* when a message or heartbeat finds the client gone,
LoopClientGone(s) ==
    /\ at[s] = "loop"
    /\ s \notin open
    /\ EndLoop(s)

\* and when its sender was dropped.
LoopSenderGone(s) ==
    /\ at[s] = "loop"
    /\ slot[of[s]] # s
    /\ EndLoop(s)

\* Mutant: nothing is left to do when the device is gone.
CleanupKnownDevice(s) ==
    /\ at[s] = "cleanup"
    /\ ~Reading /\ ~Opening
    /\ slot' = IF of[s] \in device THEN [slot EXCEPT ![of[s]] = NoStream] ELSE slot
    /\ online' = IF of[s] \notin device \/ Online(slot', device) THEN online ELSE FALSE
    /\ silent' = (silent /\ Online(slot', device))
    /\ at' = [at EXCEPT ![s] = "ended"]
    /\ open' = open \ {s}
    /\ UNCHANGED <<sendVars, device, of, start, busVars>>

\* Mutant: the end of any stream is announced.
CleanupAnnounced(s) ==
    /\ at[s] = "cleanup"
    /\ ~Reading /\ ~Opening
    /\ slot' = IF of[s] \in device THEN [slot EXCEPT ![of[s]] = NoStream] ELSE slot
    /\ online' = FALSE
    /\ silent' = (silent /\ Online(slot', device))
    /\ at' = [at EXCEPT ![s] = "ended"]
    /\ open' = open \ {s}
    /\ UNCHANGED <<sendVars, device, of, start, busVars>>

\* The end of events_loop, under the write lock.  It clears the device's sender,
\* whichever stream that belongs to by now.
Cleanup(s) ==
    /\ at[s] = "cleanup"
    /\ ~Reading /\ ~Opening
    /\ slot' = IF of[s] \in device THEN [slot EXCEPT ![of[s]] = NoStream] ELSE slot
    /\ online' = IF Online(slot', device) THEN online ELSE FALSE
    /\ silent' = (silent /\ Online(slot', device))
    /\ at' = [at EXCEPT ![s] = "ended"]
    /\ open' = open \ {s}
    /\ UNCHANGED <<sendVars, device, of, start, busVars>>

Disconnect(s) ==
    /\ s \in open
    /\ open' = open \ {s}
    /\ UNCHANGED <<sendVars, slotVars, at, of, start, busVars>>

-----------------------------------------------------------------------------
\* The webhook task reads the next event and posts it.
Forward ==
    /\ hook \notin lagged
    /\ queue[hook] # <<>>
    /\ queue' = [queue EXCEPT ![hook] = Tail(@)]
    /\ sent' = [sent EXCEPT ![hook] = Append(@, Head(queue[hook]))]
    /\ UNCHANGED <<sendVars, slotVars, streamVars, lagged>>

-----------------------------------------------------------------------------
\* logout and delete_device, under the write lock.
RemoveDevice(d) ==
    /\ ~Reading /\ ~Opening
    /\ d \in device
    /\ device' = device \ {d}
    /\ slot' = [slot EXCEPT ![d] = NoStream]
    /\ silent' = \/ silent
                 \/ /\ \E s \in Stream : slot[d] = s /\ at[s] = "failed"
                    /\ ~Online(slot', device')
    /\ UNCHANGED <<sendVars, online, streamVars, busVars>>

\* do_login, under the write lock.
Login(d) ==
    /\ ~Reading /\ ~Opening
    /\ d \notin device
    /\ device' = device \cup {d}
    /\ UNCHANGED <<sendVars, slot, online, silent, streamVars, busVars>>

Next ==
    \/ \E w \in Writer : BeginSend(w) \/ StoreMessage(w) \/ Broadcast(w) \/ HangUp(w)
    \/ \E s \in Stream, d \in Device : BeginSubscribe(s, d)
    \/ \E s \in Stream :
          \/ SubscribeFails(s) \/ Subscribe(s)
          \/ CopyEvent(s) \/ LoopLagged(s) \/ LoopClientGone(s) \/ LoopSenderGone(s)
          \/ Cleanup(s) \/ Disconnect(s)
    \/ Forward
    \/ \E d \in Device : RemoveDevice(d) \/ Login(d)

Spec == Init /\ [][Next]_vars

-----------------------------------------------------------------------------
\* The type of every variable.
TypeOK ==
    /\ nextMid \in 1 .. MaxMid + 1
    /\ broadcasted \subseteq stored /\ stored \subseteq 1 .. nextMid - 1
    /\ pc \in [Writer -> {"idle", "write", "tell", "orphan"}]
    /\ mid \in [Writer -> 0 .. MaxMid]
    /\ hangUps \in 0 .. MaxHangUps
    /\ device \subseteq Device
    /\ slot \in [Device -> Stream \cup {NoStream}]
    /\ \A d \in Device : slot[d] # NoStream => d \in device /\ of[slot[d]] = d
    /\ online \in BOOLEAN /\ silent \in BOOLEAN
    /\ at \in [Stream -> {"new", "opening", "failed", "loop", "cleanup", "ended"}]
    /\ of \in [Stream -> Device]
    /\ open \subseteq Stream
    /\ start \in [Stream -> 0 .. MaxMid]
    /\ \A x \in Receiver : queue[x] \in Seq(1 .. MaxMid) /\ Len(queue[x]) <= Capacity
    /\ lagged \subseteq Receiver
    /\ \A x \in Receiver : sent[x] \in Seq(1 .. MaxMid)

\* A stream that is up to date with the bus.
Live(s) == at[s] = "loop" /\ s \in open /\ s \notin lagged

\* The messages that a stream has to bring: those after the ones that the
\* client had received on its earlier streams.
Earlier(s) ==
    UNION {ToSet(sent[x]) : x \in {y \in Stream \ {s} : of[y] = of[s] /\ at[y] # "new"}}

\* Between the stored messages that events sends and the bus it listens to
\* there is no gap: on the first stream of a client, every message that was
\* broadcast is sent or in the queue, and none that push_start_id will drop.
NoGapAtSubscribe ==
    \A s \in Stream :
        Live(s) /\ Earlier(s) = {} =>
            \A m \in broadcasted :
                \/ m \in ToSet(sent[s])
                \/ m \in ToSet(queue[s]) /\ m > start[s]

\* No message is sent twice on a stream, with the stored ones and from the bus.
NoMessageTwice ==
    \A s \in Stream : IsInjective(sent[s])

\* The user is not left online for the others: after the last stream has lost
\* its device, its loop is still going to announce that; unless the request for
\* that stream had failed, and there is no loop.
OfflineIsAnnounced ==
    online /\ ~silent /\ ~Online(slot, device) =>
        \E s \in Stream : at[s] \in {"loop", "cleanup"}

\* Nobody is told that the user is offline while a device is connected.
OnlineIsAnnounced == Online(slot, device) => online

\* A stream brings every message once: the stored ones and those of the bus fit
\* together (events, send_message).
StreamExact == TypeOK /\ NoGapAtSubscribe /\ NoMessageTwice

\* What the others are told of the user's presence is so (events, events_loop).
PresenceAnnounced == OfflineIsAnnounced /\ OnlineIsAnnounced

-----------------------------------------------------------------------------
\* What the documents and tests say and the code does not do.

\* design.md, sending a message: "write to MsgDb -> broadcast
\* BroadcastEvent::Chat": when no request is under way, what is stored was
\* broadcast.
StoredIsBroadcast ==
    (\A w \in Writer : pc[w] = "idle") => stored \subseteq broadcasted

\* design.md, same sentence: "-> consumed by the SSE subscribers and by the
\* webhook forwarding task".
WebhookConsumes ==
    broadcasted \subseteq ToSet(sent[hook]) \cup ToSet(queue[hook])

\* The end of events_loop announces a user without a connected device as offline:
\* whoever is shown as online has one, or a loop that is still going to say so.
OfflineAlwaysAnnounced ==
    online /\ ~Online(slot, device) =>
        \E s \in Stream : at[s] \in {"loop", "cleanup"}

\* test_events_after_mid: a client that subscribes again with its last mid gets
\* what was sent in between.
AfterMidMissesNothing ==
    \A s \in Stream :
        Live(s) => broadcasted \subseteq Received(of[s]) \cup ToSet(queue[s])
=============================================================================
