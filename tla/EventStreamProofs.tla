-------------------------- MODULE EventStreamProofs --------------------------
(***************************************************************************)
(* Theorems about EventStream.  A stream brings every message once, for    *)
(* any number of senders, devices and streams and any capacity of the bus, *)
(* because events subscribes when no send_message is between its id and    *)
(* its broadcast: what is stored then is sent at once, and the ids that    *)
(* come over the bus later are all newer.                                  *)
(***************************************************************************)
EXTENDS EventStream, FiniteSetTheorems, TLAPS

-----------------------------------------------------------------------------
\* Finite sets of numbers can be listed in order: the place of a member is the
\* number of members up to it.
LEMMA OrderedListing ==
    ASSUME NEW S \in SUBSET Nat, IsFiniteSet(S)
    PROVE  \E q \in [1 .. Cardinality(S) -> S] :
              \A i, j \in DOMAIN q : i < j => q[i] < q[j]
<1> DEFINE upTo(k) == {x \in S : x <= k}
           n == Cardinality(S)
           place == [k \in S |-> Cardinality(upTo(k))]
<1>1. n \in Nat
  BY FS_CardinalityType
<1>2. \A k \in S : /\ IsFiniteSet(upTo(k)) /\ Cardinality(upTo(k)) \in 1 .. n
  <2> TAKE k \in S
  <2>1. upTo(k) \in SUBSET S /\ upTo(k) # {}
    OBVIOUS
  <2>2. IsFiniteSet(upTo(k)) /\ Cardinality(upTo(k)) <= n
    BY <2>1, FS_Subset
  <2>3. Cardinality(upTo(k)) \in Nat
    BY <2>2, FS_CardinalityType
  <2>4. Cardinality(upTo(k)) # 0
    BY <2>1, <2>2, FS_EmptySet
  <2> QED
    BY <1>1, <2>2, <2>3, <2>4
<1>3. \A k, l \in S : k < l => Cardinality(upTo(k)) < Cardinality(upTo(l))
  <2> SUFFICES ASSUME NEW k \in S, NEW l \in S, k < l
               PROVE  Cardinality(upTo(k)) < Cardinality(upTo(l))
    OBVIOUS
  <2>0. S \subseteq Nat /\ k \in Nat /\ l \in Nat
    OBVIOUS
  <2>1. upTo(k) \in SUBSET upTo(l) /\ l \in upTo(l) /\ l \notin upTo(k)
    <3>1. ASSUME NEW x \in S, x <= k
          PROVE  x <= l
      <4>1. x \in Nat
        BY <2>0
      <4> QED
        BY <2>0, <3>1, <4>1
    <3>2. l <= l /\ ~(l <= k)
      BY <2>0
    <3> QED
      BY <3>1, <3>2
  <2>2. upTo(k) # upTo(l)
    BY <2>1
  <2> HIDE DEF upTo
  <2>3. Cardinality(upTo(k)) <= Cardinality(upTo(l))
    BY <1>2, <2>1, FS_Subset
  <2>4. Cardinality(upTo(k)) # Cardinality(upTo(l))
    BY <1>2, <2>1, <2>2, FS_Subset
  <2> QED
    BY <1>1, <1>2, <2>3, <2>4
<1>4. place \in [S -> 1 .. n] /\ (\A k, l \in S : k < l => place[k] < place[l])
  <2> HIDE DEF upTo, n
  <2> QED
    BY <1>2, <1>3
<1> HIDE DEF place
<1>5. \A k, l \in S : place[k] = place[l] => k = l
  BY <1>1, <1>4
<1>6. place \in Injection(S, 1 .. n)
  BY <1>4, <1>5 DEF Injection, IsInjective
<1>7. IsFiniteSet(1 .. n) /\ Cardinality(1 .. n) = n
  BY <1>1, FS_Interval
<1>8. \A i \in 1 .. n : \E k \in S : place[k] = i
  <2>1. place \in Surjection(S, 1 .. n)
    BY <1>6, <1>7, FS_Injection
  <2> QED
    BY <2>1 DEF Surjection
<1> DEFINE q == [i \in 1 .. n |-> CHOOSE k \in S : place[k] = i]
<1>9. q \in [1 .. n -> S] /\ \A i \in 1 .. n : place[q[i]] = i
  BY <1>8
<1> HIDE DEF q
<1>10. \A i, j \in 1 .. n : i < j => q[i] < q[j]
  <2> SUFFICES ASSUME NEW i \in 1 .. n, NEW j \in 1 .. n, i < j
               PROVE  q[i] < q[j]
    OBVIOUS
  <2>1. q[i] \in S /\ q[j] \in S /\ place[q[i]] = i /\ place[q[j]] = j
    BY <1>9
  <2>2. q[i] # q[j]
    BY <1>1, <2>1
  <2>3. ASSUME q[j] < q[i]
        PROVE  FALSE
    <3>1. place[q[j]] < place[q[i]]
      BY <1>4, <2>1, <2>3
    <3> QED
      BY <1>1, <2>1, <3>1
  <2>4. q[i] \in Nat /\ q[j] \in Nat
    BY <2>1
  <2> QED
    BY <2>2, <2>3, <2>4
<1> QED
  BY <1>9, <1>10

\* What After returns: the stored messages after one, each once.
LEMMA AfterLists ==
    ASSUME NEW m, nextMid \in Nat, stored \subseteq 1 .. nextMid - 1
    PROVE  /\ After(m) \in Seq(stored)
           /\ ToSet(After(m)) = {k \in stored : k > m}
           /\ IsInjective(After(m))
<1> DEFINE newer == {k \in stored : k > m}
           n == Cardinality(newer)
           q == After(m)
<1>1. IsFiniteSet(newer) /\ newer \in SUBSET Nat
  <2>1. newer \in SUBSET (1 .. nextMid - 1)
    OBVIOUS
  <2>2. IsFiniteSet(1 .. nextMid - 1)
    BY FS_Interval
  <2> QED
    BY <2>1, <2>2, FS_Subset
<1>2. n \in Nat
  BY <1>1, FS_CardinalityType
<1>3. newer \subseteq stored
  OBVIOUS
<1>4. /\ q \in [1 .. n -> newer]
      /\ \A i, j \in DOMAIN q : i < j => q[i] < q[j]
  <2>1. \E f \in [1 .. n -> newer] : \A i, j \in DOMAIN f : i < j => f[i] < f[j]
    <3> HIDE DEF newer
    <3> QED
      BY <1>1, OrderedListing
  <2>2. q = CHOOSE f \in [1 .. n -> newer] : \A i, j \in DOMAIN f : i < j => f[i] < f[j]
    BY DEF After
  <2> HIDE DEF n, newer, q
  <2> QED
    BY <2>1, <2>2
<1> HIDE DEF newer, n, q
<1>5. \A i, j \in 1 .. n : q[i] = q[j] => i = j
  <2> SUFFICES ASSUME NEW i \in 1 .. n, NEW j \in 1 .. n, q[i] = q[j]
               PROVE  i = j
    OBVIOUS
  <2>1. i \in DOMAIN q /\ j \in DOMAIN q /\ q[i] \in newer
    BY <1>4
  <2>2. q[i] \in Nat
    BY <1>1, <2>1
  <2>3. ~(i < j) /\ ~(j < i)
    BY <1>4, <2>1, <2>2
  <2> QED
    BY <1>2, <2>3
<1>6. q \in Injection(1 .. n, newer)
  BY <1>4, <1>5 DEF Injection, IsInjective
<1>7. q \in Surjection(1 .. n, newer)
  <2>1. Cardinality(1 .. n) = n /\ IsFiniteSet(1 .. n)
    BY <1>2, FS_Interval
  <2> QED
    BY <1>1, <1>6, <2>1, FS_Injection DEF n
<1>8. ToSet(q) = newer
  BY <1>4, <1>7 DEF ToSet, Surjection
<1>9. q \in Seq(stored)
  <2>1. q \in [1 .. n -> stored]
    BY <1>3, <1>4
  <2> QED
    BY <1>2, <2>1
<1>10. IsInjective(q)
  BY <1>4, <1>5 DEF IsInjective
<1> QED
  BY <1>8, <1>9, <1>10 DEF q, newer

\* Append adds one entry to the contents of a sequence.
LEMMA AppendAdds ==
    ASSUME NEW T, NEW q \in Seq(T), NEW m \in T
    PROVE  /\ Append(q, m) \in Seq(T) /\ Len(Append(q, m)) = Len(q) + 1
           /\ ToSet(Append(q, m)) = ToSet(q) \cup {m}
           /\ (IsInjective(q) /\ m \notin ToSet(q)) => IsInjective(Append(q, m))
<1> DEFINE a == Append(q, m)
<1>1. /\ a \in Seq(T) /\ Len(a) = Len(q) + 1 /\ Len(q) \in Nat
      /\ \A i \in 1 .. Len(q) : a[i] = q[i]
      /\ a[Len(q) + 1] = m
  OBVIOUS
<1>2. DOMAIN a = 1 .. Len(q) + 1 /\ DOMAIN q = 1 .. Len(q)
  BY <1>1
<1> HIDE DEF a
<1>3. ToSet(a) = ToSet(q) \cup {m}
  BY <1>1, <1>2 DEF ToSet
<1>4. IsInjective(q) /\ m \notin ToSet(q) => IsInjective(a)
  BY <1>1, <1>2 DEF ToSet, IsInjective
<1> QED
  BY <1>1, <1>3, <1>4 DEF a

\* Taking the first entry of a sequence removes it from the contents.
LEMMA TailRemoves ==
    ASSUME NEW T, NEW q \in Seq(T), q # <<>>
    PROVE  /\ Head(q) \in T /\ Tail(q) \in Seq(T) /\ Len(Tail(q)) = Len(q) - 1
           /\ ToSet(q) = {Head(q)} \cup ToSet(Tail(q))
           /\ IsInjective(q) => IsInjective(Tail(q)) /\ Head(q) \notin ToSet(Tail(q))
<1> DEFINE t == Tail(q)
           h == Head(q)
<1>1. /\ t \in Seq(T) /\ Len(t) = Len(q) - 1 /\ Len(q) \in Nat \ {0}
      /\ \A i \in 1 .. Len(q) - 1 : t[i] = q[i + 1]
      /\ h = q[1] /\ h \in T
  OBVIOUS
<1>2. DOMAIN t = 1 .. Len(q) - 1 /\ DOMAIN q = 1 .. Len(q)
  BY <1>1
<1> HIDE DEF t, h
<1>3. ToSet(q) = {h} \cup ToSet(t)
  <2>1. ASSUME NEW i \in 1 .. Len(q)
        PROVE  q[i] = h \/ q[i] \in ToSet(t)
    <3>1. CASE i = 1
      BY <1>1, <3>1
    <3>2. CASE i # 1
      <4>1. i - 1 \in 1 .. Len(q) - 1 /\ (i - 1) + 1 = i
        BY <1>1, <3>2
      <4>2. t[i - 1] = q[i]
        BY <1>1, <4>1
      <4> QED
        BY <1>2, <4>1, <4>2 DEF ToSet
    <3> QED
      BY <3>1, <3>2
  <2>2. ASSUME NEW i \in 1 .. Len(q) - 1
        PROVE  t[i] \in ToSet(q)
    <3>1. i + 1 \in DOMAIN q /\ t[i] = q[i + 1]
      BY <1>1, <1>2
    <3> QED
      BY <3>1 DEF ToSet
  <2>3. h \in ToSet(q)
    BY <1>1, <1>2 DEF ToSet
  <2> QED
    BY <1>2, <2>1, <2>2, <2>3 DEF ToSet
<1>4. IsInjective(q) => IsInjective(t) /\ h \notin ToSet(t)
  <2> SUFFICES ASSUME IsInjective(q)
               PROVE  IsInjective(t) /\ h \notin ToSet(t)
    OBVIOUS
  <2>1. \A i \in 1 .. Len(q) - 1 : i + 1 \in DOMAIN q /\ i + 1 # 1 /\ t[i] = q[i + 1]
    BY <1>1, <1>2
  <2>2. 1 \in DOMAIN q
    BY <1>1, <1>2
  <2>3. \A i, j \in 1 .. Len(q) - 1 : t[i] = t[j] => i = j
    BY <1>1, <2>1 DEF IsInjective
  <2>4. \A i \in 1 .. Len(q) - 1 : t[i] # h
    BY <1>1, <2>1, <2>2 DEF IsInjective
  <2> QED
    BY <1>2, <2>3, <2>4 DEF IsInjective, ToSet
<1> QED
  BY <1>1, <1>3, <1>4 DEF t, h

\* The empty sequence.
LEMMA NothingInEmpty ==
    /\ ToSet(<<>>) = {} /\ IsInjective(<<>>) /\ Len(<<>>) = 0
    /\ \A T : <<>> \in Seq(T)
BY DEF ToSet, IsInjective

-----------------------------------------------------------------------------
\* The steps of send_message under the read side of the cache lock.
Sending(w) == pc[w] \in {"write", "tell"}

\* Senders and ids: an id in use was taken, no two senders use the same, and a
\* message is stored before it is broadcast.
SendersInv ==
    /\ nextMid \in 1 .. MaxMid + 1
    /\ broadcasted \subseteq stored /\ stored \subseteq 1 .. nextMid - 1
    /\ pc \in [Writer -> {"idle", "write", "tell", "orphan"}]
    /\ mid \in [Writer -> 0 .. MaxMid]
    /\ hangUps \in 0 .. MaxHangUps
    /\ \A w \in Writer : pc[w] # "idle" => mid[w] \in 1 .. nextMid - 1
    /\ \A w \in Writer : pc[w] = "tell" => mid[w] \in stored
    /\ \A v, w \in Writer : Sending(v) /\ Sending(w) /\ v # w => mid[v] # mid[w]

\* Where the request for a stream, and then its loop, can be.
Places == {"new", "opening", "failed", "loop", "cleanup", "ended"}

\* Devices and loops: a device that has a sender is there, and the stream it
\* belongs to was opened and has not cleaned up.
SlotsInv ==
    /\ device \subseteq Device
    /\ slot \in [Device -> Stream \cup {NoStream}]
    /\ online \in BOOLEAN /\ silent \in BOOLEAN
    /\ at \in [Stream -> Places]
    /\ of \in [Stream -> Device]
    /\ \A d \in Device : slot[d] # NoStream =>
          d \in device /\ of[slot[d]] = d /\ at[slot[d]] \notin {"new", "ended"}
    /\ PresenceAnnounced

\* While a request for a stream has the lock no send_message is in its own.
OpeningInv ==
    \A s \in Stream : at[s] = "opening" => \A w \in Writer : ~Sending(w)

\* What a receiver has read and has not.
ReceiversInv ==
    /\ open \subseteq Stream
    /\ start \in [Stream -> 0 .. MaxMid]
    /\ lagged \subseteq Receiver
    /\ queue \in [Receiver -> Seq(1 .. MaxMid)]
    /\ sent \in [Receiver -> Seq(1 .. MaxMid)]
    /\ \A x \in Receiver : Len(queue[x]) <= Capacity

\* What waits for a stream is not older than what it was started with, ...
QueueIsNewer(s) == \A m \in ToSet(queue[s]) : m > start[s]

\* ... nor is what is on its way to the bus, which no stream has had.
SendingIsNewer(s) ==
    \A w \in Writer : Sending(w) =>
        mid[w] > start[s] /\ mid[w] \notin ToSet(queue[s]) \cup ToSet(sent[s])

\* The messages of a stream are stored, and each comes once.
EachOnce(s) ==
    /\ ToSet(queue[s]) \cup ToSet(sent[s]) \subseteq stored
    /\ ToSet(queue[s]) \cap ToSet(sent[s]) = {}
    /\ IsInjective(queue[s]) /\ IsInjective(sent[s])

\* The first stream of a client has, or will have, all that was broadcast.
NoGap(s) ==
    Live(s) /\ Earlier(s) = {} => broadcasted \subseteq ToSet(sent[s]) \cup ToSet(queue[s])

StreamOK(s) ==
    /\ at[s] # "loop" => queue[s] = <<>>
    /\ at[s] \in {"new", "opening"} => sent[s] = <<>>
    /\ start[s] <= nextMid - 1
    /\ QueueIsNewer(s) /\ SendingIsNewer(s) /\ EachOnce(s) /\ NoGap(s)

\* The inductive invariant.
StreamInv ==
    SendersInv /\ SlotsInv /\ OpeningInv /\ ReceiversInv /\ \A s \in Stream : StreamOK(s)

\* The invariant has what the runs check.
LEMMA InvGivesProperties == StreamInv => StreamExact /\ PresenceAnnounced
<1> SUFFICES ASSUME StreamInv
             PROVE  StreamExact /\ PresenceAnnounced
  OBVIOUS
<1>1. TypeOK
  BY DEF StreamInv, SendersInv, SlotsInv, ReceiversInv, TypeOK, Places
<1>2. NoGapAtSubscribe
  BY DEF StreamInv, StreamOK, NoGap, QueueIsNewer, NoGapAtSubscribe
<1>3. NoMessageTwice
  BY DEF StreamInv, StreamOK, EachOnce, NoMessageTwice
<1> QED
  BY <1>1, <1>2, <1>3 DEF StreamExact, StreamInv, SlotsInv

\* Streams are not the hook, and neither is a stream that is not there.
LEMMA StreamsAreReceivers ==
    /\ \A s \in Stream : s \in Receiver /\ s # hook /\ s # NoStream
    /\ hook \in Receiver
BY StreamAssumption DEF Receiver

\* In the beginning nothing is sent and no stream was opened.
LEMMA InitInv == Init => StreamInv
<1> SUFFICES ASSUME Init
             PROVE  StreamInv
  OBVIOUS
<1>1. SendersInv
  BY MidBoundAssumption DEF Init, SendersInv, Sending
<1>2. SlotsInv
  <2>1. (CHOOSE d \in Device : TRUE) \in Device
    BY DeviceAssumption
  <2>2. of \in [Stream -> Device]
    BY <2>1 DEF Init
  <2>3. \A d \in Device : slot[d] = NoStream
    BY DEF Init
  <2>4. ~Online(slot, device) /\ ~online
    BY <2>3 DEF Init, Online
  <2>5. /\ device \subseteq Device /\ slot \in [Device -> Stream \cup {NoStream}]
        /\ online \in BOOLEAN /\ silent \in BOOLEAN /\ at \in [Stream -> Places]
    BY DEF Init, Places
  <2> QED
    BY <2>2, <2>3, <2>4, <2>5
       DEF SlotsInv, PresenceAnnounced, OfflineIsAnnounced, OnlineIsAnnounced
<1>3. \A x \in Receiver : queue[x] = <<>> /\ sent[x] = <<>>
  BY DEF Init
<1>4. ReceiversInv
  <2>1. queue \in [Receiver -> Seq(1 .. MaxMid)] /\ sent \in [Receiver -> Seq(1 .. MaxMid)]
    BY NothingInEmpty DEF Init
  <2>2. \A x \in Receiver : Len(queue[x]) <= Capacity
    BY <1>3, NothingInEmpty, CapacityAssumption
  <2> QED
    BY <2>1, <2>2, MidBoundAssumption DEF Init, ReceiversInv
<1>5. ASSUME NEW s \in Stream
      PROVE  StreamOK(s)
  <2>1. at[s] = "new" /\ start[s] = 0 /\ queue[s] = <<>> /\ sent[s] = <<>>
    BY <1>3, StreamsAreReceivers DEF Init
  <2>2. ToSet(queue[s]) = {} /\ ToSet(sent[s]) = {}
    BY <2>1, NothingInEmpty
  <2>3. \A w \in Writer : ~Sending(w)
    BY DEF Init, Sending
  <2> QED
    BY <2>1, <2>2, <2>3, NothingInEmpty DEF StreamOK, QueueIsNewer, SendingIsNewer, EachOnce,
       NoGap, Live, Init
<1>6. OpeningInv
  BY DEF Init, OpeningInv
<1> QED
  BY <1>1, <1>2, <1>4, <1>5, <1>6 DEF StreamInv

-----------------------------------------------------------------------------
\* A step that leaves the senders alone keeps their part of the invariant.
LEMMA SendersRest == SendersInv /\ UNCHANGED sendVars => SendersInv'
BY DEF SendersInv, sendVars, Sending

\* The same for the devices and the loops, ...
LEMMA SlotsRest == SlotsInv /\ UNCHANGED <<slotVars, at, of>> => SlotsInv'
BY DEF SlotsInv, slotVars, PresenceAnnounced, OfflineIsAnnounced, OnlineIsAnnounced, Online

\* for the requests that have the lock, ...
LEMMA OpeningRest ==
    ASSUME StreamInv,
           \A s \in Stream : at'[s] = "opening" => at[s] = "opening",
           \A w \in Writer : Sending(w)' => Sending(w)
    PROVE  OpeningInv'
BY DEF StreamInv, OpeningInv

\* ... and for what the receivers have and wait for.
LEMMA ReceiversRest == ReceiversInv /\ UNCHANGED <<open, start, busVars>> => ReceiversInv'
BY DEF ReceiversInv, busVars

\* The streams that a client had before bring no less later.
LEMMA EarlierGrows ==
    ASSUME NEW s \in Stream, of'[s] = of[s],
           \A y \in Stream : y # s /\ at[y] # "new" =>
              at'[y] # "new" /\ of'[y] = of[y] /\ ToSet(sent[y]) \subseteq ToSet(sent'[y])
    PROVE  Earlier(s) \subseteq Earlier(s)'
<1>1. ASSUME NEW m \in Earlier(s)
      PROVE  m \in Earlier(s)'
  <2>1. PICK y \in Stream : y # s /\ of[y] = of[s] /\ at[y] # "new" /\ m \in ToSet(sent[y])
    BY <1>1 DEF Earlier
  <2>2. of'[y] = of'[s] /\ at'[y] # "new" /\ m \in ToSet(sent'[y])
    BY <2>1
  <2> QED
    BY <2>1, <2>2 DEF Earlier
<1> QED
  BY <1>1

\* A stream whose queue, messages and start rest is as good as before, when the
\* messages that are stored only grow and a new sender takes the next id.
LEMMA StreamStays ==
    ASSUME StreamInv, NEW s \in Stream,
           queue'[s] = queue[s], sent'[s] = sent[s], start'[s] = start[s],
           at'[s] # "loop" => at[s] # "loop",
           at'[s] \in {"new", "opening"} => at[s] \in {"new", "opening"},
           nextMid' \in Nat, nextMid <= nextMid',
           stored \subseteq stored', broadcasted' = broadcasted,
           \A w \in Writer : Sending(w)' =>
              mid'[w] = nextMid \/ (Sending(w) /\ mid'[w] = mid[w]),
           Live(s)' => Live(s),
           Earlier(s) \subseteq Earlier(s)'
    PROVE  StreamOK(s)'
<1>0. nextMid \in Nat /\ start[s] \in Nat
  BY DEF StreamInv, SendersInv, ReceiversInv
<1>1. StreamOK(s)
  BY DEF StreamInv
<1>2. /\ at'[s] # "loop" => queue'[s] = <<>>
      /\ at'[s] \in {"new", "opening"} => sent'[s] = <<>>
      /\ start'[s] <= nextMid' - 1
  BY <1>0, <1>1 DEF StreamOK
<1>3. QueueIsNewer(s)'
  BY <1>1 DEF StreamOK, QueueIsNewer
<1>4. SendingIsNewer(s)'
  <2> SUFFICES ASSUME NEW w \in Writer, Sending(w)'
               PROVE  /\ mid'[w] > start[s]
                      /\ mid'[w] \notin ToSet(queue[s]) \cup ToSet(sent[s])
    BY DEF SendingIsNewer
  <2>1. CASE Sending(w) /\ mid'[w] = mid[w]
    BY <1>1, <2>1 DEF StreamOK, SendingIsNewer
  <2>2. CASE mid'[w] = nextMid
    <3>1. stored \subseteq 1 .. nextMid - 1
      BY DEF StreamInv, SendersInv
    <3>2. nextMid \notin stored
      BY <1>0, <3>1
    <3> QED
      BY <1>0, <1>1, <2>2, <3>2 DEF StreamOK, EachOnce
  <2> QED
    BY <2>1, <2>2
<1>5. EachOnce(s)'
  BY <1>1 DEF StreamOK, EachOnce
<1>6. NoGap(s)'
  BY <1>1 DEF StreamOK, NoGap
<1> QED
  BY <1>2, <1>3, <1>4, <1>5, <1>6 DEF StreamOK

\* A step that changes nothing of the streams, the bus and what is broadcast.
LEMMA StreamsRest ==
    ASSUME StreamInv, UNCHANGED <<streamVars, busVars, broadcasted>>,
           nextMid' \in Nat, nextMid <= nextMid', stored \subseteq stored',
           \A w \in Writer : Sending(w)' =>
              mid'[w] = nextMid \/ (Sending(w) /\ mid'[w] = mid[w])
    PROVE  \A s \in Stream : StreamOK(s)'
<1> TAKE s \in Stream
<1>1. Earlier(s) \subseteq Earlier(s)'
  BY EarlierGrows DEF streamVars, busVars
<1> QED
  BY <1>1, StreamStays DEF streamVars, busVars, Live

-----------------------------------------------------------------------------
\* send_message takes an id, newer than all that is stored or on its way.
LEMMA BeginSendInv ==
    ASSUME StreamInv, NEW w \in Writer, BeginSend(w)
    PROVE  StreamInv'
<1>1. nextMid \in Nat /\ nextMid' = nextMid + 1 /\ nextMid <= MaxMid /\ MaxMid \in Nat
  BY MidBoundAssumption DEF StreamInv, SendersInv, BeginSend
<1>2. /\ mid' = [mid EXCEPT ![w] = nextMid] /\ pc' = [pc EXCEPT ![w] = "write"]
      /\ UNCHANGED <<stored, broadcasted, hangUps>>
      /\ mid \in [Writer -> 0 .. MaxMid] /\ mid'[w] = nextMid /\ pc'[w] = "write"
      /\ \A v \in Writer : v # w => pc'[v] = pc[v] /\ mid'[v] = mid[v]
  BY DEF StreamInv, SendersInv, BeginSend
<1>3. SendersInv'
  <2>1. stored' \subseteq 1 .. nextMid' - 1 /\ broadcasted' \subseteq stored'
    BY <1>1, <1>2 DEF StreamInv, SendersInv
  <2>2. /\ pc' \in [Writer -> {"idle", "write", "tell", "orphan"}]
        /\ mid' \in [Writer -> 0 .. MaxMid]
    BY <1>1, <1>2 DEF StreamInv, SendersInv
  <2>3. \A v \in Writer : pc'[v] # "idle" => mid'[v] \in 1 .. nextMid' - 1
    BY <1>1, <1>2 DEF StreamInv, SendersInv
  <2>4. \A v \in Writer : pc'[v] = "tell" => mid'[v] \in stored'
    BY <1>2 DEF StreamInv, SendersInv
  <2>5. \A u, v \in Writer : Sending(u)' /\ Sending(v)' /\ u # v => mid'[u] # mid'[v]
    <3>1. \A v \in Writer : v # w /\ Sending(v)' =>
             Sending(v) /\ mid'[v] = mid[v] /\ mid'[v] # nextMid
      BY <1>1, <1>2 DEF StreamInv, SendersInv, Sending
    <3> QED
      BY <1>2, <3>1 DEF StreamInv, SendersInv
  <2> QED
    BY <1>1, <1>2, <2>1, <2>2, <2>3, <2>4, <2>5 DEF SendersInv, StreamInv
<1>4. SlotsInv' /\ ReceiversInv' /\ OpeningInv'
  BY SlotsRest, ReceiversRest DEF BeginSend, StreamInv, streamVars, Opening, OpeningInv
<1>5. \A s \in Stream : StreamOK(s)'
  <2>1. \A v \in Writer : Sending(v)' =>
           mid'[v] = nextMid \/ (Sending(v) /\ mid'[v] = mid[v])
    BY <1>2 DEF Sending
  <2> QED
    BY <1>1, <1>2, <2>1, StreamsRest DEF BeginSend
<1> QED
  BY <1>3, <1>4, <1>5 DEF StreamInv

\* The message is stored; nothing of it goes to the streams yet.
LEMMA StoreMessageInv ==
    ASSUME StreamInv, NEW w \in Writer, StoreMessage(w)
    PROVE  StreamInv'
<1>1. nextMid \in Nat /\ mid[w] \in 1 .. nextMid - 1
  BY DEF StreamInv, SendersInv, StoreMessage
<1>2. /\ pc[w] \in {"write", "orphan"} /\ stored' = stored \cup {mid[w]}
      /\ pc' = [pc EXCEPT ![w] = IF pc[w] = "write" THEN "tell" ELSE "idle"]
      /\ UNCHANGED <<nextMid, broadcasted, mid, hangUps>>
      /\ pc'[w] \in {"tell", "idle"} /\ (pc'[w] = "tell" => pc[w] = "write")
      /\ \A v \in Writer : v # w => pc'[v] = pc[v]
  BY DEF StreamInv, SendersInv, StoreMessage
<1>3. \A v \in Writer : Sending(v)' => Sending(v) /\ mid'[v] = mid[v]
  BY <1>2 DEF Sending
<1>4. SendersInv'
  <2>1. stored' \subseteq 1 .. nextMid' - 1 /\ broadcasted' \subseteq stored'
    BY <1>1, <1>2 DEF StreamInv, SendersInv
  <2>2. pc' \in [Writer -> {"idle", "write", "tell", "orphan"}]
    BY <1>2 DEF StreamInv, SendersInv
  <2>3. \A v \in Writer : pc'[v] # "idle" => mid'[v] \in 1 .. nextMid' - 1
    BY <1>1, <1>2 DEF StreamInv, SendersInv
  <2>4. \A v \in Writer : pc'[v] = "tell" => mid'[v] \in stored'
    BY <1>2 DEF StreamInv, SendersInv
  <2>5. \A u, v \in Writer : Sending(u)' /\ Sending(v)' /\ u # v => mid'[u] # mid'[v]
    BY <1>2, <1>3 DEF StreamInv, SendersInv
  <2> QED
    BY <1>1, <1>2, <2>1, <2>2, <2>3, <2>4, <2>5 DEF SendersInv, StreamInv
<1>5. SlotsInv' /\ ReceiversInv' /\ OpeningInv'
  BY <1>3, SlotsRest, ReceiversRest, OpeningRest DEF StoreMessage, StreamInv, streamVars
<1>6. \A s \in Stream : StreamOK(s)'
  BY <1>1, <1>2, <1>3, StreamsRest DEF StoreMessage
<1> QED
  BY <1>4, <1>5, <1>6 DEF StreamInv

\* The sender is gone; its message may still be stored, and is not broadcast.
LEMMA HangUpInv ==
    ASSUME StreamInv, NEW w \in Writer, HangUp(w)
    PROVE  StreamInv'
<1>1. nextMid \in Nat /\ MaxHangUps \in Nat /\ hangUps' \in 0 .. MaxHangUps
  BY MidBoundAssumption DEF StreamInv, SendersInv, HangUp
<1>2. /\ pc[w] \in {"write", "tell"}
      /\ pc' = [pc EXCEPT ![w] = IF pc[w] = "write" THEN "orphan" ELSE "idle"]
      /\ UNCHANGED <<nextMid, stored, broadcasted, mid>>
      /\ pc'[w] \in {"orphan", "idle"}
      /\ \A v \in Writer : v # w => pc'[v] = pc[v]
  BY DEF StreamInv, SendersInv, HangUp
<1>3. \A v \in Writer : Sending(v)' => Sending(v) /\ mid'[v] = mid[v]
  BY <1>2 DEF Sending
<1>4. SendersInv'
  <2>1. pc' \in [Writer -> {"idle", "write", "tell", "orphan"}]
    BY <1>2 DEF StreamInv, SendersInv
  <2>2. \A v \in Writer : pc'[v] # "idle" => mid'[v] \in 1 .. nextMid' - 1
    BY <1>2 DEF StreamInv, SendersInv
  <2>3. \A v \in Writer : pc'[v] = "tell" => mid'[v] \in stored'
    BY <1>2 DEF StreamInv, SendersInv
  <2>4. \A u, v \in Writer : Sending(u)' /\ Sending(v)' /\ u # v => mid'[u] # mid'[v]
    BY <1>2, <1>3 DEF StreamInv, SendersInv
  <2> QED
    BY <1>1, <1>2, <2>1, <2>2, <2>3, <2>4 DEF SendersInv, StreamInv
<1>5. SlotsInv' /\ ReceiversInv' /\ OpeningInv'
  BY <1>3, SlotsRest, ReceiversRest, OpeningRest DEF HangUp, StreamInv, streamVars
<1>6. \A s \in Stream : StreamOK(s)'
  BY <1>1, <1>2, <1>3, StreamsRest DEF HangUp
<1> QED
  BY <1>4, <1>5, <1>6 DEF StreamInv

\* A broadcast reaches the queue of every stream that is up to date, and none
\* of them has had the message.
LEMMA BroadcastInv ==
    ASSUME StreamInv, NEW w \in Writer, Broadcast(w)
    PROVE  StreamInv'
<1> DEFINE m == mid[w]
           full(x) == Subscribed(x) /\ Len(queue[x]) = Capacity
           gets(x) == Subscribed(x) /\ x \notin lagged'
<1>1. /\ pc[w] = "tell" /\ Sending(w) /\ m \in stored /\ m \in 1 .. MaxMid
      /\ nextMid \in Nat
  BY MidBoundAssumption DEF StreamInv, SendersInv, Broadcast, Sending
<1>2. /\ broadcasted' = broadcasted \cup {m}
      /\ UNCHANGED <<nextMid, stored, mid, hangUps, slotVars, streamVars, sent>>
      /\ pc' = [pc EXCEPT ![w] = "idle"] /\ pc'[w] = "idle"
      /\ \A v \in Writer : v # w => pc'[v] = pc[v]
  BY DEF StreamInv, SendersInv, Broadcast
<1>3. /\ lagged' = lagged \cup {x \in Receiver : full(x)}
      /\ \A x \in Receiver : queue'[x] = IF gets(x) THEN Append(queue[x], m) ELSE queue[x]
      /\ DOMAIN queue' = Receiver
      /\ queue' = [x \in Receiver |-> queue'[x]]
  BY DEF Broadcast
<1>4. \A v \in Writer : Sending(v)' => v # w /\ Sending(v) /\ mid'[v] = mid[v] /\ mid[v] # m
  BY <1>1, <1>2 DEF Sending, StreamInv, SendersInv
<1>5. SendersInv'
  <2>1. broadcasted' \subseteq stored'
    BY <1>1, <1>2 DEF StreamInv, SendersInv
  <2>2. pc' \in [Writer -> {"idle", "write", "tell", "orphan"}]
    BY <1>2 DEF StreamInv, SendersInv
  <2>3. /\ \A v \in Writer : pc'[v] # "idle" => mid'[v] \in 1 .. nextMid' - 1
        /\ \A v \in Writer : pc'[v] = "tell" => mid'[v] \in stored'
    BY <1>2 DEF StreamInv, SendersInv
  <2>4. \A u, v \in Writer : Sending(u)' /\ Sending(v)' /\ u # v => mid'[u] # mid'[v]
    BY <1>2, <1>4 DEF StreamInv, SendersInv
  <2> QED
    BY <1>1, <1>2, <2>1, <2>2, <2>3, <2>4 DEF SendersInv, StreamInv
<1>6. SlotsInv' /\ OpeningInv'
  BY <1>2, <1>4, SlotsRest, OpeningRest DEF StreamInv, streamVars
<1>7. \A x \in Receiver : queue[x] \in Seq(1 .. MaxMid) /\ Len(queue[x]) <= Capacity
  BY DEF StreamInv, ReceiversInv
<1>8. \A x \in Receiver : queue'[x] \in Seq(1 .. MaxMid) /\ Len(queue'[x]) <= Capacity
  <2> TAKE x \in Receiver
  <2>1. CASE ~gets(x)
    BY <1>3, <1>7, <2>1
  <2>2. CASE gets(x)
    <3>1. ~full(x) /\ Subscribed(x)
      BY <1>3, <2>2
    <3>2. Len(queue[x]) # Capacity
      BY <3>1
    <3>3. queue'[x] = Append(queue[x], m)
      BY <1>3, <2>2
    <3>4. /\ queue'[x] \in Seq(1 .. MaxMid) /\ Len(queue'[x]) = Len(queue[x]) + 1
      BY <1>1, <1>7, <3>3, AppendAdds
    <3> QED
      BY <1>7, <3>2, <3>4, CapacityAssumption
  <2> QED
    BY <2>1, <2>2
<1>9. ReceiversInv'
  <2>1. queue' \in [Receiver -> Seq(1 .. MaxMid)]
    BY <1>3, <1>8
  <2>2. lagged' \subseteq Receiver
    BY <1>3 DEF StreamInv, ReceiversInv
  <2> QED
    BY <1>2, <1>8, <2>1, <2>2 DEF StreamInv, ReceiversInv, streamVars
<1> HIDE DEF m, full, gets
<1>10. ASSUME NEW s \in Stream
       PROVE  StreamOK(s)'
  <2>1. /\ StreamOK(s) /\ s \in Receiver
        /\ at'[s] = at[s] /\ sent'[s] = sent[s] /\ start'[s] = start[s]
    BY <1>2, StreamsAreReceivers DEF StreamInv, streamVars
  <2>2. m > start[s] /\ m \notin ToSet(queue[s]) \cup ToSet(sent[s])
    BY <1>1, <2>1 DEF StreamOK, SendingIsNewer, m
  <2>3. \A v \in Writer : Sending(v)' =>
           /\ mid'[v] > start[s] /\ mid'[v] \notin ToSet(queue[s]) \cup ToSet(sent[s])
           /\ mid'[v] # m
    BY <1>4, <2>1 DEF StreamOK, SendingIsNewer, m
  <2>4. Live(s)' => at[s] = "loop" /\ gets(s) /\ Live(s)
    <3>1. gets(s) = (at[s] \in {"opening", "loop"} /\ s \notin lagged')
      BY <2>1, StreamsAreReceivers DEF gets, Subscribed
    <3> QED
      BY <1>2, <1>3, <2>1, <3>1 DEF Live, streamVars
  <2>5. Earlier(s)' = Earlier(s)
    BY <1>2 DEF Earlier, streamVars
  <2>6. CASE ~gets(s)
    <3>1. queue'[s] = queue[s]
      BY <1>3, <2>1, <2>6
    <3> QED
      BY <1>2, <2>1, <2>3, <2>4, <2>6, <3>1
         DEF StreamOK, QueueIsNewer, SendingIsNewer, EachOnce, NoGap
  <2>7. CASE gets(s)
    <3>1. queue'[s] = Append(queue[s], m)
      BY <1>3, <2>1, <2>7
    <3>2. /\ IsInjective(queue[s]) /\ queue[s] \in Seq(1 .. MaxMid)
          /\ m \in 1 .. MaxMid /\ m \notin ToSet(queue[s])
      BY <1>1, <1>7, <2>1, <2>2 DEF StreamOK, EachOnce, m
    <3>3. /\ ToSet(queue'[s]) = ToSet(queue[s]) \cup {m}
          /\ IsInjective(queue'[s])
      <4> DEFINE T == 1 .. MaxMid
                 q == queue[s]
      <4>1. q \in Seq(T) /\ m \in T /\ IsInjective(q) /\ m \notin ToSet(q)
        BY <3>2
      <4> HIDE DEF T, q
      <4>2. ToSet(Append(q, m)) = ToSet(q) \cup {m} /\ IsInjective(Append(q, m))
        BY <4>1, AppendAdds
      <4> QED
        BY <3>1, <4>2 DEF q
    <3>4. at[s] = "loop"
      <4>1. at[s] \in {"opening", "loop"}
        BY <2>1, <2>7, StreamsAreReceivers DEF gets, Subscribed
      <4>2. at[s] # "opening"
        BY <1>1 DEF StreamInv, OpeningInv
      <4> QED
        BY <4>1, <4>2
    <3>5. QueueIsNewer(s)'
      BY <2>1, <2>2, <3>3 DEF StreamOK, QueueIsNewer
    <3>6. SendingIsNewer(s)'
      BY <2>1, <2>3, <3>3 DEF SendingIsNewer
    <3>7. EachOnce(s)'
      BY <1>1, <1>2, <2>1, <2>2, <3>3 DEF StreamOK, EachOnce, m
    <3>8. NoGap(s)'
      BY <1>2, <2>1, <2>4, <2>5, <3>3 DEF StreamOK, NoGap
    <3> QED
      BY <1>2, <2>1, <3>4, <3>5, <3>6, <3>7, <3>8 DEF StreamOK
  <2> QED
    BY <2>6, <2>7
<1> QED
  BY <1>5, <1>6, <1>9, <1>10 DEF StreamInv

-----------------------------------------------------------------------------
\* A request for a stream gets the lock: no send_message is under way.  The user
\* is online, and is shown so.
LEMMA BeginSubscribeInv ==
    ASSUME StreamInv, NEW s \in Stream, NEW d \in Device, BeginSubscribe(s, d)
    PROVE  StreamInv'
<1>1. /\ at[s] = "new" /\ d \in device /\ \A w \in Writer : ~Sending(w)
      /\ UNCHANGED <<sendVars, device, open, start, busVars>>
      /\ nextMid \in Nat
  BY DEF BeginSubscribe, Reading, Sending, StreamInv, SendersInv
<1>2. /\ slot' = [slot EXCEPT ![d] = s]
      /\ online' = (online \/ ~Online(slot, device))
      /\ silent' = FALSE
      /\ at' = [at EXCEPT ![s] = "opening"]
      /\ of' = [of EXCEPT ![s] = d]
  BY DEF BeginSubscribe
<1>3. /\ at'[s] = "opening" /\ of'[s] = d /\ slot'[d] = s
      /\ \A x \in Stream : x # s => at'[x] = at[x] /\ of'[x] = of[x]
      /\ \A c \in Device : c # d => slot'[c] = slot[c]
  BY <1>2 DEF StreamInv, SlotsInv
<1>4. SendersInv'
  BY <1>1, SendersRest DEF StreamInv
<1>5. SlotsInv'
  <2>1. /\ slot' \in [Device -> Stream \cup {NoStream}]
        /\ at' \in [Stream -> Places]
        /\ of' \in [Stream -> Device]
        /\ silent' \in BOOLEAN
    BY <1>2 DEF StreamInv, SlotsInv, Places
  <2>2. ASSUME NEW c \in Device, slot'[c] # NoStream
        PROVE  c \in device' /\ of'[slot'[c]] = c /\ at'[slot'[c]] \notin {"new", "ended"}
    <3>1. CASE c = d
      BY <1>1, <1>3, <3>1
    <3>2. CASE c # d
      <4>1. /\ slot'[c] = slot[c] /\ slot[c] # NoStream /\ slot[c] \in Stream
            /\ c \in device /\ of[slot[c]] = c /\ at[slot[c]] \notin {"new", "ended"}
        BY <1>3, <2>2, <3>2 DEF StreamInv, SlotsInv
      <4>2. slot[c] # s
        BY <1>1, <4>1
      <4> QED
        BY <1>1, <1>3, <4>1, <4>2
    <3> QED
      BY <3>1, <3>2
  <2>3. online'
    BY <1>2 DEF StreamInv, SlotsInv, PresenceAnnounced, OnlineIsAnnounced
  <2>4. online' \in BOOLEAN
    BY <2>3, <1>2 DEF StreamInv, SlotsInv
  <2>5. Online(slot, device)'
    BY <1>1, <1>3, StreamsAreReceivers DEF Online
  <2>6. PresenceAnnounced'
    BY <2>3, <2>5 DEF PresenceAnnounced, OfflineIsAnnounced, OnlineIsAnnounced
  <2> QED
    BY <1>1, <2>1, <2>2, <2>4, <2>6 DEF StreamInv, SlotsInv
<1>6. OpeningInv'
  BY <1>1 DEF OpeningInv, Sending, sendVars
<1>7. ReceiversInv'
  BY <1>1 DEF StreamInv, ReceiversInv, busVars
<1>8. ASSUME NEW x \in Stream, x # s
      PROVE  StreamOK(x)'
  <2>1. Earlier(x) \subseteq Earlier(x)'
    BY <1>1, <1>3, <1>8, EarlierGrows DEF busVars
  <2>2. Live(x)' => Live(x)
    BY <1>1, <1>3, <1>8 DEF Live, busVars
  <2> QED
    BY <1>1, <1>3, <1>8, <2>1, <2>2, StreamStays DEF sendVars, busVars, Sending
<1>9. StreamOK(s)'
  <2>1. StreamOK(s) /\ ~Live(s)'
    BY <1>3 DEF StreamInv, Live
  <2> QED
    BY <1>1, <1>3, <2>1 DEF StreamOK, QueueIsNewer, SendingIsNewer, EachOnce, NoGap,
       sendVars, busVars, Sending
<1> QED
  BY <1>4, <1>5, <1>6, <1>7, <1>8, <1>9 DEF StreamInv

\* The request fails: its stream will never run, and no other is concerned.
LEMMA SubscribeFailsInv ==
    ASSUME StreamInv, NEW s \in Stream, SubscribeFails(s)
    PROVE  StreamInv'
<1>1. /\ at[s] = "opening" /\ at' = [at EXCEPT ![s] = "failed"]
      /\ UNCHANGED <<sendVars, slotVars, of, open, start, busVars>>
      /\ nextMid \in Nat
  BY DEF SubscribeFails, StreamInv, SendersInv
<1>2. at'[s] = "failed" /\ \A x \in Stream : x # s => at'[x] = at[x]
  BY <1>1 DEF StreamInv, SlotsInv
<1>3. SendersInv'
  BY <1>1, SendersRest DEF StreamInv
<1>4. SlotsInv'
  <2>1. at' \in [Stream -> Places]
    BY <1>1 DEF StreamInv, SlotsInv, Places
  <2>2. \A d \in Device : slot'[d] # NoStream =>
           d \in device' /\ of'[slot'[d]] = d /\ at'[slot'[d]] \notin {"new", "ended"}
    BY <1>1, <1>2 DEF StreamInv, SlotsInv, slotVars
  <2>3. PresenceAnnounced'
    BY <1>1, <1>2 DEF StreamInv, SlotsInv, slotVars, PresenceAnnounced,
       OfflineIsAnnounced, OnlineIsAnnounced, Online
  <2> QED
    BY <1>1, <2>1, <2>2, <2>3 DEF StreamInv, SlotsInv, slotVars
<1>5. OpeningInv' /\ ReceiversInv'
  BY <1>1, <1>2, OpeningRest, ReceiversRest DEF StreamInv, Sending, sendVars
<1>6. ASSUME NEW x \in Stream
      PROVE  StreamOK(x)'
  <2>1. \A y \in Stream : at[y] # "new" => at'[y] # "new"
    BY <1>2
  <2>2. Earlier(x) \subseteq Earlier(x)'
    BY <1>1, <2>1, EarlierGrows DEF busVars
  <2>3. /\ at'[x] # "loop" => at[x] # "loop"
        /\ at'[x] \in {"new", "opening"} => at[x] \in {"new", "opening"}
        /\ Live(x)' => Live(x)
    BY <1>1, <1>2 DEF Live, busVars
  <2> QED
    BY <1>1, <2>2, <2>3, StreamStays DEF sendVars, busVars, Sending
<1> QED
  BY <1>3, <1>4, <1>5, <1>6 DEF StreamInv

\* A stream starts: no send_message is under way, so all that was broadcast is
\* stored, and what is stored is sent; a later id is newer.
LEMMA SubscribeInv ==
    ASSUME StreamInv, NEW s \in Stream, Subscribe(s)
    PROVE  StreamInv'
<1> DEFINE d == of[s]
           newest == After(LastReceived(d))
<1>1. /\ at[s] = "opening" /\ \A w \in Writer : ~Sending(w)
      /\ UNCHANGED <<sendVars, slotVars, of, queue, lagged>>
      /\ nextMid \in Nat /\ nextMid - 1 \in 0 .. MaxMid
      /\ stored \subseteq 1 .. nextMid - 1 /\ broadcasted \subseteq stored
      /\ stored \subseteq 1 .. MaxMid
  BY MidBoundAssumption DEF Subscribe, OpeningInv, StreamInv, SendersInv
<1>2. /\ at' = [at EXCEPT ![s] = "loop"]
      /\ open' = open \cup {s}
      /\ start' = [start EXCEPT ![s] = IF newest = <<>> THEN 0 ELSE Last(newest)]
      /\ sent' = [sent EXCEPT ![s] = newest]
  BY DEF Subscribe
<1>3. /\ newest \in Seq(stored) /\ ToSet(newest) = {k \in stored : k > LastReceived(d)}
      /\ IsInjective(newest)
  BY <1>1, AfterLists
<1>4. LastReceived(d) = Max({0} \cup Received(d))
  BY DEF LastReceived
<1> HIDE DEF d, newest
<1>5. /\ at'[s] = "loop" /\ sent'[s] = newest
      /\ start'[s] = (IF newest = <<>> THEN 0 ELSE Last(newest))
      /\ \A x \in Stream : x # s =>
            at'[x] = at[x] /\ start'[x] = start[x] /\ sent'[x] = sent[x]
      /\ sent'[hook] = sent[hook]
  BY <1>2, StreamsAreReceivers DEF StreamInv, SlotsInv, ReceiversInv
<1>6. start'[s] \in 0 .. nextMid - 1
  <2>1. CASE newest = <<>>
    BY <1>1, <1>5, <2>1
  <2>2. CASE newest # <<>>
    <3>1. Last(newest) = newest[Len(newest)] /\ newest[Len(newest)] \in stored
      BY <1>3, <2>2 DEF Last
    <3>2. Last(newest) \in 1 .. nextMid - 1
      BY <1>1, <3>1
    <3>3. start'[s] = Last(newest)
      BY <1>5, <2>2
    <3> QED
      BY <1>1, <3>2, <3>3
  <2> QED
    BY <2>1, <2>2
<1>7. SendersInv' /\ OpeningInv'
  BY <1>1, <1>5, SendersRest, OpeningRest DEF StreamInv, Sending, sendVars
<1>8. SlotsInv'
  <2>1. at' \in [Stream -> Places]
    BY <1>2 DEF StreamInv, SlotsInv, Places
  <2>2. \A c \in Device : slot'[c] # NoStream =>
           c \in device' /\ of'[slot'[c]] = c /\ at'[slot'[c]] \notin {"new", "ended"}
    BY <1>1, <1>5 DEF StreamInv, SlotsInv, slotVars
  <2>3. PresenceAnnounced'
    BY <1>1, <1>5 DEF StreamInv, SlotsInv, slotVars, PresenceAnnounced,
       OfflineIsAnnounced, OnlineIsAnnounced, Online
  <2> QED
    BY <1>1, <2>1, <2>2, <2>3 DEF StreamInv, SlotsInv, slotVars
<1>9. ReceiversInv'
  <2>1. newest \in Seq(1 .. MaxMid)
    <3> DEFINE T == 1 .. MaxMid
    <3>1. stored \subseteq T
      BY <1>1
    <3> HIDE DEF T
    <3>2. newest \in Seq(T)
      BY <1>3, <3>1
    <3> QED
      BY <3>2 DEF T
  <2>2. sent' \in [Receiver -> Seq(1 .. MaxMid)]
    BY <1>2, <2>1 DEF StreamInv, ReceiversInv
  <2>3. start' \in [Stream -> 0 .. MaxMid]
    <3>1. start'[s] \in 0 .. MaxMid
      BY <1>1, <1>6, MidBoundAssumption
    <3> QED
      BY <1>2, <1>5, <3>1 DEF StreamInv, ReceiversInv
  <2> QED
    BY <1>1, <1>2, <2>2, <2>3 DEF StreamInv, ReceiversInv
<1>10. ASSUME NEW x \in Stream, x # s
       PROVE  StreamOK(x)'
  <2>1. ToSet(sent[s]) = {}
    BY <1>1, NothingInEmpty DEF StreamInv, StreamOK
  <2>2. Earlier(x) \subseteq Earlier(x)'
    <3>1. \A y \in Stream : at[y] # "new" =>
             at'[y] # "new" /\ ToSet(sent[y]) \subseteq ToSet(sent'[y])
      BY <1>1, <1>5, <2>1
    <3> QED
      BY <1>1, <3>1, EarlierGrows
  <2>3. Live(x)' => Live(x)
    BY <1>1, <1>2, <1>5, <1>10 DEF Live
  <2> QED
    BY <1>1, <1>5, <1>10, <2>2, <2>3, StreamStays DEF sendVars, Sending
<1>11. StreamOK(s)'
  <2>6. sent[s] = <<>>
    BY <1>1 DEF StreamInv, StreamOK
  <2>1. queue'[s] = <<>> /\ ToSet(queue'[s]) = {} /\ IsInjective(queue'[s])
    BY <1>1, NothingInEmpty DEF StreamInv, StreamOK
  <2>2. QueueIsNewer(s)' /\ SendingIsNewer(s)'
    BY <1>1, <2>1 DEF QueueIsNewer, SendingIsNewer, Sending, sendVars
  <2>3. EachOnce(s)'
    BY <1>1, <1>3, <1>5, <2>1 DEF EachOnce, sendVars
  <2>4. ASSUME Earlier(s)' = {}
        PROVE  broadcasted' \subseteq ToSet(sent'[s])
    <3>1. ASSUME NEW x \in Stream, of[x] = d, at[x] # "new"
          PROVE  ToSet(sent[x]) = {}
      <4>1. CASE x = s
        BY <4>1, <2>6, NothingInEmpty
      <4>2. CASE x # s
        <5>1. of'[x] = of'[s] /\ at'[x] # "new" /\ sent'[x] = sent[x]
          BY <1>1, <1>5, <3>1, <4>2 DEF d
        <5>2. ToSet(sent'[x]) \subseteq Earlier(s)'
          BY <4>2, <5>1 DEF Earlier
        <5> QED
          BY <2>4, <5>1, <5>2
      <4> QED
        BY <4>1, <4>2
    <3>2. Received(d) = {}
      BY <3>1 DEF Received
    <3>3. Max({0}) = 0
      BY DEF Max
    <3>4. LastReceived(d) = 0
      <4>1. {0} \cup Received(d) = {0}
        BY <3>2
      <4> QED
        BY <1>4, <3>3, <4>1
    <3>5. ToSet(newest) = stored
      <4>1. \A k \in stored : k > 0
        BY <1>1
      <4> QED
        BY <1>3, <3>4, <4>1
    <3> QED
      BY <1>1, <1>5, <3>5 DEF sendVars
  <2>5. NoGap(s)'
    BY <2>4 DEF NoGap
  <2>7. start'[s] <= nextMid' - 1
    BY <1>1, <1>6 DEF sendVars
  <2> QED
    BY <1>5, <2>1, <2>2, <2>3, <2>5, <2>7 DEF StreamOK
<1> QED
  BY <1>7, <1>8, <1>9, <1>10, <1>11 DEF StreamInv

-----------------------------------------------------------------------------
\* The loop of a stream copies an event: it is newer than the start of the
\* stream, so none is left out.
LEMMA CopyEventInv ==
    ASSUME StreamInv, NEW s \in Stream, CopyEvent(s)
    PROVE  StreamInv'
<1> DEFINE m == Head(queue[s])
           rest == Tail(queue[s])
<1>1. /\ at[s] = "loop" /\ queue[s] # <<>> /\ queue[s] \in Seq(1 .. MaxMid)
      /\ sent[s] \in Seq(1 .. MaxMid) /\ s \in Receiver
      /\ UNCHANGED <<sendVars, slotVars, at, of, open, lagged>>
      /\ queue' = [queue EXCEPT ![s] = rest]
      /\ StreamOK(s)
  BY StreamsAreReceivers DEF StreamInv, ReceiversInv, CopyEvent
<1>2. /\ m \in 1 .. MaxMid /\ rest \in Seq(1 .. MaxMid) /\ Len(rest) = Len(queue[s]) - 1
      /\ ToSet(queue[s]) = {m} \cup ToSet(rest)
      /\ IsInjective(queue[s]) => IsInjective(rest) /\ m \notin ToSet(rest)
  BY <1>1, TailRemoves
<1>3. m > start[s] /\ start[s] \in 0 .. MaxMid
  BY <1>1, <1>2 DEF StreamOK, QueueIsNewer, StreamInv, ReceiversInv
<1>4. start' = [start EXCEPT ![s] = 0] /\ sent' = [sent EXCEPT ![s] = Append(@, m)]
  BY <1>2, <1>3, MidBoundAssumption DEF CopyEvent
<1> HIDE DEF m, rest
<1>5. /\ queue'[s] = rest /\ start'[s] = 0 /\ sent'[s] = Append(sent[s], m)
      /\ \A x \in Receiver : x # s => queue'[x] = queue[x] /\ sent'[x] = sent[x]
      /\ \A x \in Stream : x # s => start'[x] = start[x]
  BY <1>1, <1>4 DEF StreamInv, ReceiversInv
<1>6. /\ IsInjective(queue[s]) /\ IsInjective(sent[s]) /\ m \notin ToSet(sent[s])
  BY <1>1, <1>2 DEF StreamOK, EachOnce
<1>7. /\ Append(sent[s], m) \in Seq(1 .. MaxMid)
      /\ ToSet(Append(sent[s], m)) = ToSet(sent[s]) \cup {m}
      /\ IsInjective(Append(sent[s], m))
  <2> DEFINE T == 1 .. MaxMid
             q == sent[s]
  <2>1. q \in Seq(T) /\ m \in T /\ IsInjective(q) /\ m \notin ToSet(q)
    BY <1>1, <1>2, <1>6
  <2> HIDE DEF T, q
  <2>2. /\ Append(q, m) \in Seq(T) /\ ToSet(Append(q, m)) = ToSet(q) \cup {m}
        /\ IsInjective(Append(q, m))
    BY <2>1, AppendAdds
  <2> QED
    BY <2>2 DEF q, T
<1>8. SendersInv' /\ SlotsInv' /\ OpeningInv'
  BY <1>1, SendersRest, SlotsRest, OpeningRest DEF StreamInv, sendVars, Sending
<1>9. ReceiversInv'
  <2>1. /\ queue' \in [Receiver -> Seq(1 .. MaxMid)]
        /\ sent' \in [Receiver -> Seq(1 .. MaxMid)]
    BY <1>1, <1>2, <1>4, <1>7 DEF StreamInv, ReceiversInv
  <2>2. start' \in [Stream -> 0 .. MaxMid]
    BY <1>4, MidBoundAssumption DEF StreamInv, ReceiversInv
  <2>3. \A x \in Receiver : Len(queue'[x]) <= Capacity
    <3>1. Len(rest) <= Capacity
      <4>1. Len(queue[s]) \in Nat /\ Len(queue[s]) <= Capacity
        BY <1>1 DEF StreamInv, ReceiversInv
      <4> QED
        BY <1>2, <4>1, CapacityAssumption
    <3> QED
      BY <1>5, <3>1 DEF StreamInv, ReceiversInv
  <2> QED
    BY <1>1, <2>1, <2>2, <2>3 DEF StreamInv, ReceiversInv
<1>10. ASSUME NEW x \in Stream
       PROVE  Earlier(x) \subseteq Earlier(x)'
  <2>1. \A y \in Stream : ToSet(sent[y]) \subseteq ToSet(sent'[y])
    BY <1>5, <1>7, StreamsAreReceivers
  <2> QED
    BY <1>1, <2>1, EarlierGrows
<1>11. ASSUME NEW x \in Stream, x # s
       PROVE  StreamOK(x)'
  <2>1. x \in Receiver
    BY StreamsAreReceivers
  <2>2. nextMid \in Nat
    BY DEF StreamInv, SendersInv
  <2> QED
    BY <1>1, <1>5, <1>10, <1>11, <2>1, <2>2, StreamStays DEF sendVars, Sending, Live
<1>12. StreamOK(s)'
  <2>1. QueueIsNewer(s)'
    <3>1. \A i \in 1 .. Len(rest) : rest[i] \in 1 .. MaxMid
      <4> DEFINE T == 1 .. MaxMid
      <4>1. rest \in Seq(T)
        BY <1>2
      <4> HIDE DEF T
      <4>2. \A i \in 1 .. Len(rest) : rest[i] \in T
        BY <4>1
      <4> QED
        BY <4>2 DEF T
    <3>2. DOMAIN rest = 1 .. Len(rest)
      BY <1>2
    <3>3. \A k \in ToSet(rest) : k \in 1 .. MaxMid
      BY <3>1, <3>2 DEF ToSet
    <3> QED
      BY <1>5, <3>3, MidBoundAssumption DEF QueueIsNewer
  <2>2. SendingIsNewer(s)'
    <3>1. \A w \in Writer : Sending(w)' => Sending(w) /\ mid'[w] = mid[w] /\ mid[w] \in Nat
      BY <1>1 DEF sendVars, Sending, StreamInv, SendersInv
    <3> QED
      BY <1>1, <1>2, <1>3, <1>5, <1>7, <3>1 DEF StreamOK, SendingIsNewer
  <2>3. EachOnce(s)'
    BY <1>1, <1>2, <1>5, <1>6, <1>7 DEF StreamOK, EachOnce, sendVars
  <2>4. NoGap(s)'
    <3>1. Live(s)' /\ Earlier(s)' = {} => Live(s) /\ Earlier(s) = {}
      BY <1>1, <1>10 DEF Live
    <3> QED
      BY <1>1, <1>2, <1>5, <1>7, <3>1 DEF StreamOK, NoGap, sendVars
  <2>5. start'[s] <= nextMid' - 1
    BY <1>1, <1>5 DEF sendVars, StreamInv, SendersInv
  <2> QED
    BY <1>1, <2>1, <2>2, <2>3, <2>4, <2>5 DEF StreamOK
<1> QED
  BY <1>8, <1>9, <1>11, <1>12 DEF StreamInv

\* A loop ends, for whatever reason: what is left of its queue is gone, and the
\* user stays online until it has cleaned up.
LEMMA EndLoopInv ==
    ASSUME StreamInv, NEW s \in Stream, at[s] = "loop", EndLoop(s)
    PROVE  StreamInv'
<1>1. /\ at' = [at EXCEPT ![s] = "cleanup"]
      /\ queue' = [queue EXCEPT ![s] = <<>>]
      /\ UNCHANGED <<sendVars, slotVars, of, open, start, lagged, sent>>
      /\ s \in Receiver
  BY StreamsAreReceivers DEF EndLoop
<1>2. /\ at'[s] = "cleanup" /\ queue'[s] = <<>>
      /\ \A x \in Stream : x # s => at'[x] = at[x]
      /\ \A x \in Receiver : x # s => queue'[x] = queue[x]
      /\ nextMid \in Nat
  BY <1>1 DEF StreamInv, SlotsInv, ReceiversInv, SendersInv
<1>3. SendersInv' /\ OpeningInv'
  BY <1>1, <1>2, SendersRest, OpeningRest DEF StreamInv, sendVars, Sending
<1>4. SlotsInv'
  <2>1. at' \in [Stream -> Places]
    BY <1>1 DEF StreamInv, SlotsInv, Places
  <2>2. \A d \in Device : slot'[d] # NoStream =>
           d \in device' /\ of'[slot'[d]] = d /\ at'[slot'[d]] \notin {"new", "ended"}
    BY <1>1, <1>2 DEF StreamInv, SlotsInv, slotVars
  <2>3. PresenceAnnounced'
    BY <1>1, <1>2 DEF StreamInv, SlotsInv, slotVars, PresenceAnnounced,
       OfflineIsAnnounced, OnlineIsAnnounced, Online
  <2> QED
    BY <1>1, <2>1, <2>2, <2>3 DEF StreamInv, SlotsInv, slotVars
<1>5. ReceiversInv'
  <2>1. queue' \in [Receiver -> Seq(1 .. MaxMid)]
    BY <1>1, NothingInEmpty DEF StreamInv, ReceiversInv
  <2>2. \A x \in Receiver : Len(queue'[x]) <= Capacity
    BY <1>2, NothingInEmpty, CapacityAssumption DEF StreamInv, ReceiversInv
  <2> QED
    BY <1>1, <2>1, <2>2 DEF StreamInv, ReceiversInv
<1>6. ASSUME NEW x \in Stream
      PROVE  Earlier(x) \subseteq Earlier(x)'
  <2>1. \A y \in Stream : at[y] # "new" => at'[y] # "new"
    BY <1>2
  <2> QED
    BY <1>1, <2>1, EarlierGrows
<1>7. ASSUME NEW x \in Stream, x # s
      PROVE  StreamOK(x)'
  <2>1. x \in Receiver
    BY StreamsAreReceivers
  <2> QED
    BY <1>1, <1>2, <1>6, <1>7, <2>1, StreamStays DEF sendVars, Sending, Live
<1>8. StreamOK(s)'
  <2>1. StreamOK(s)
    BY DEF StreamInv
  <2>2. ToSet(queue'[s]) = {} /\ IsInjective(queue'[s])
    BY <1>2, NothingInEmpty
  <2>3. ~Live(s)'
    BY <1>2 DEF Live
  <2> QED
    BY <1>1, <1>2, <2>1, <2>2, <2>3
       DEF StreamOK, QueueIsNewer, SendingIsNewer, EachOnce, NoGap, sendVars, Sending
<1> QED
  BY <1>3, <1>4, <1>5, <1>7, <1>8 DEF StreamInv

\* The end of events_loop: whoever is still connected keeps the user online.
LEMMA CleanupInv ==
    ASSUME StreamInv, NEW s \in Stream, Cleanup(s)
    PROVE  StreamInv'
<1>1. /\ at[s] = "cleanup"
      /\ slot' = IF of[s] \in device THEN [slot EXCEPT ![of[s]] = NoStream] ELSE slot
      /\ online' = IF Online(slot', device) THEN online ELSE FALSE
      /\ silent' = (silent /\ Online(slot', device))
      /\ at' = [at EXCEPT ![s] = "ended"]
      /\ open' = open \ {s}
      /\ UNCHANGED <<sendVars, device, of, start, busVars>>
  BY DEF Cleanup
<1>2. /\ at'[s] = "ended" /\ nextMid \in Nat /\ of[s] \in Device
      /\ \A x \in Stream : x # s => at'[x] = at[x]
  BY <1>1 DEF StreamInv, SlotsInv, SendersInv
<1>3. \A d \in Device : slot'[d] # NoStream =>
         slot'[d] = slot[d] /\ (d = of[s] => d \notin device)
  BY <1>1, <1>2 DEF StreamInv, SlotsInv
<1>4. SendersInv' /\ OpeningInv'
  BY <1>1, <1>2, SendersRest, OpeningRest DEF StreamInv, sendVars, Sending
<1>5. SlotsInv'
  <2>1. /\ at' \in [Stream -> Places]
        /\ slot' \in [Device -> Stream \cup {NoStream}]
    BY <1>1 DEF StreamInv, SlotsInv, Places
  <2>2. ASSUME NEW d \in Device, slot'[d] # NoStream
        PROVE  d \in device' /\ of'[slot'[d]] = d /\ at'[slot'[d]] \notin {"new", "ended"}
    <3>1. /\ slot'[d] = slot[d] /\ slot[d] \in Stream
          /\ d \in device /\ of[slot[d]] = d /\ at[slot[d]] \notin {"new", "ended"}
      BY <1>3, <2>2 DEF StreamInv, SlotsInv
    <3>2. slot[d] # s
      BY <1>3, <2>2, <3>1
    <3> QED
      BY <1>1, <1>2, <3>1, <3>2
  <2>3. Online(slot', device) => Online(slot, device)
    BY <1>3 DEF Online, StreamInv, SlotsInv
  <2>4. online' \in BOOLEAN /\ silent' \in BOOLEAN
    BY <1>1 DEF StreamInv, SlotsInv
  <2>5. PresenceAnnounced'
    <3>1. CASE Online(slot', device)
      BY <1>1, <2>3, <3>1 DEF StreamInv, SlotsInv, PresenceAnnounced,
         OfflineIsAnnounced, OnlineIsAnnounced
    <3>2. CASE ~Online(slot', device)
      BY <1>1, <3>2 DEF PresenceAnnounced, OfflineIsAnnounced, OnlineIsAnnounced
    <3> QED
      BY <3>1, <3>2
  <2> QED
    BY <1>1, <2>1, <2>2, <2>4, <2>5 DEF StreamInv, SlotsInv
<1>6. ReceiversInv'
  BY <1>1 DEF StreamInv, ReceiversInv, busVars
<1>7. ASSUME NEW x \in Stream
      PROVE  StreamOK(x)'
  <2>1. \A y \in Stream : at[y] # "new" => at'[y] # "new"
    BY <1>2
  <2>2. Earlier(x) \subseteq Earlier(x)'
    BY <1>1, <2>1, EarlierGrows DEF busVars
  <2>3. /\ at'[x] # "loop" => at[x] # "loop"
        /\ at'[x] \in {"new", "opening"} => at[x] \in {"new", "opening"}
        /\ Live(x)' => Live(x)
    BY <1>1, <1>2 DEF Live, busVars
  <2> QED
    BY <1>1, <1>2, <2>2, <2>3, StreamStays DEF sendVars, busVars, Sending
<1> QED
  BY <1>4, <1>5, <1>6, <1>7 DEF StreamInv

\* A client goes away; its loop finds out later.
LEMMA DisconnectInv ==
    ASSUME StreamInv, NEW s \in Stream, Disconnect(s)
    PROVE  StreamInv'
<1>1. open' = open \ {s} /\ UNCHANGED <<sendVars, slotVars, at, of, start, busVars>>
  BY DEF Disconnect
<1>2. SendersInv' /\ SlotsInv' /\ OpeningInv'
  BY <1>1, SendersRest, SlotsRest, OpeningRest DEF StreamInv, sendVars, Sending
<1>3. ReceiversInv'
  BY <1>1 DEF StreamInv, ReceiversInv, busVars
<1>4. nextMid \in Nat
  BY DEF StreamInv, SendersInv
<1>5. ASSUME NEW x \in Stream
      PROVE  StreamOK(x)'
  <2>1. Earlier(x) \subseteq Earlier(x)'
    BY <1>1, EarlierGrows DEF busVars
  <2>2. Live(x)' => Live(x)
    BY <1>1 DEF Live, busVars
  <2> QED
    BY <1>1, <1>4, <2>1, <2>2, StreamStays DEF sendVars, busVars, Sending
<1> QED
  BY <1>2, <1>3, <1>5 DEF StreamInv

\* The webhook task reads an event of its own.
LEMMA ForwardInv ==
    ASSUME StreamInv, Forward
    PROVE  StreamInv'
<1> DEFINE m == Head(queue[hook])
           rest == Tail(queue[hook])
           T == 1 .. MaxMid
<1>1. /\ queue[hook] \in Seq(T) /\ sent[hook] \in Seq(T) /\ queue[hook] # <<>>
      /\ Len(queue[hook]) <= Capacity /\ hook \in Receiver
      /\ queue' = [queue EXCEPT ![hook] = rest]
      /\ sent' = [sent EXCEPT ![hook] = Append(@, m)]
      /\ UNCHANGED <<sendVars, slotVars, streamVars, lagged>>
  BY StreamsAreReceivers DEF Forward, StreamInv, ReceiversInv
<1> HIDE DEF T
<1>2. m \in T /\ rest \in Seq(T) /\ Len(rest) = Len(queue[hook]) - 1
  BY <1>1, TailRemoves
<1>3. Append(sent[hook], m) \in Seq(T)
  BY <1>1, <1>2, AppendAdds
<1>4. Len(rest) <= Capacity
  <2>1. Len(queue[hook]) \in Nat
    BY <1>1
  <2> QED
    BY <1>1, <1>2, <2>1, CapacityAssumption
<1> HIDE DEF m, rest
<1>5. SendersInv' /\ SlotsInv' /\ OpeningInv'
  BY <1>1, SendersRest, SlotsRest, OpeningRest DEF StreamInv, streamVars, sendVars, Sending
<1>6. ReceiversInv'
  <2>1. /\ queue' \in [Receiver -> Seq(T)] /\ sent' \in [Receiver -> Seq(T)]
        /\ \A x \in Receiver : Len(queue'[x]) <= Capacity
    BY <1>1, <1>2, <1>3, <1>4 DEF StreamInv, ReceiversInv, T
  <2> QED
    BY <1>1, <2>1 DEF StreamInv, ReceiversInv, streamVars, T
<1>7. \A x \in Stream : queue'[x] = queue[x] /\ sent'[x] = sent[x]
  BY <1>1, StreamsAreReceivers
<1>8. nextMid \in Nat
  BY DEF StreamInv, SendersInv
<1>9. ASSUME NEW x \in Stream
      PROVE  StreamOK(x)'
  <2>1. Earlier(x) \subseteq Earlier(x)'
    BY <1>1, <1>7, EarlierGrows DEF streamVars
  <2>2. Live(x)' => Live(x)
    BY <1>1 DEF Live, streamVars
  <2> QED
    BY <1>1, <1>7, <1>8, <2>1, <2>2, StreamStays DEF sendVars, streamVars, Sending
<1> QED
  BY <1>5, <1>6, <1>9 DEF StreamInv

-----------------------------------------------------------------------------
\* A device logs out: its stream has lost its sender, and still runs.
LEMMA RemoveDeviceInv ==
    ASSUME StreamInv, NEW d \in Device, RemoveDevice(d)
    PROVE  StreamInv'
<1>1. /\ d \in device /\ device' = device \ {d}
      /\ slot' = [slot EXCEPT ![d] = NoStream]
      /\ silent' = \/ silent
                   \/ /\ \E s \in Stream : slot[d] = s /\ at[s] = "failed"
                      /\ ~Online(slot', device')
      /\ UNCHANGED <<sendVars, online, streamVars, busVars>>
      /\ \A s \in Stream : at[s] # "opening"
  BY DEF RemoveDevice, Opening
<1>2. \A c \in Device : slot'[c] # NoStream => c # d /\ slot'[c] = slot[c]
  BY <1>1 DEF StreamInv, SlotsInv
<1>3. SendersInv' /\ ReceiversInv' /\ OpeningInv'
  BY <1>1, SendersRest, ReceiversRest DEF StreamInv, streamVars, OpeningInv
<1>4. SlotsInv'
  <2>1. slot' \in [Device -> Stream \cup {NoStream}]
    BY <1>1 DEF StreamInv, SlotsInv
  <2>2. Online(slot, device)' => Online(slot, device)
    BY <1>1, <1>2 DEF Online, StreamInv, SlotsInv
  <2>3. ASSUME ~silent', ~Online(slot, device)', Online(slot, device)
        PROVE  \E s \in Stream : at[s] \in {"loop", "cleanup"}
    <3>1. PICK c \in device : slot[c] # NoStream
      BY <2>3 DEF Online
    <3>2. c = d
      <4>1. c \in Device /\ (c # d => slot'[c] = slot[c] /\ c \in device')
        BY <1>1, <3>1 DEF StreamInv, SlotsInv
      <4> QED
        BY <2>3, <3>1, <4>1 DEF Online
    <3>3. slot[d] \in Stream /\ at[slot[d]] \in Places /\ at[slot[d]] \notin {"new", "ended"}
      BY <3>1, <3>2 DEF StreamInv, SlotsInv
    <3>4. at[slot[d]] # "failed"
      BY <1>1, <2>3, <3>3
    <3> QED
      BY <1>1, <3>3, <3>4 DEF Places
  <2>4. PresenceAnnounced'
    BY <1>1, <2>2, <2>3 DEF StreamInv, SlotsInv, PresenceAnnounced,
       OfflineIsAnnounced, OnlineIsAnnounced, streamVars
  <2>5. silent' \in BOOLEAN
    BY <1>1
  <2> QED
    BY <1>1, <1>2, <2>1, <2>4, <2>5 DEF StreamInv, SlotsInv, streamVars
<1>5. \A s \in Stream : StreamOK(s)'
  BY <1>1, StreamsRest DEF sendVars, Sending, StreamInv, SendersInv
<1> QED
  BY <1>3, <1>4, <1>5 DEF StreamInv

\* A device logs in; it has no sender yet.
LEMMA LoginInv ==
    ASSUME StreamInv, NEW d \in Device, Login(d)
    PROVE  StreamInv'
<1>1. /\ d \notin device /\ device' = device \cup {d}
      /\ UNCHANGED <<sendVars, slot, online, silent, streamVars, busVars>>
  BY DEF Login
<1>2. SendersInv' /\ ReceiversInv' /\ OpeningInv'
  BY <1>1, SendersRest, ReceiversRest, OpeningRest DEF StreamInv, streamVars, sendVars, Sending
<1>3. SlotsInv'
  <2>1. slot[d] = NoStream
    BY <1>1 DEF StreamInv, SlotsInv
  <2>2. Online(slot, device)' = Online(slot, device)
    BY <1>1, <2>1 DEF Online, StreamInv, SlotsInv
  <2>3. PresenceAnnounced'
    BY <1>1, <2>2 DEF StreamInv, SlotsInv, PresenceAnnounced,
       OfflineIsAnnounced, OnlineIsAnnounced, streamVars
  <2> QED
    BY <1>1, <2>3 DEF StreamInv, SlotsInv, streamVars
<1>4. \A s \in Stream : StreamOK(s)'
  BY <1>1, StreamsRest DEF sendVars, Sending, StreamInv, SendersInv
<1> QED
  BY <1>2, <1>3, <1>4 DEF StreamInv

-----------------------------------------------------------------------------
\* A step that changes nothing.
LEMMA StutterInv == StreamInv /\ UNCHANGED vars => StreamInv'
<1> SUFFICES ASSUME StreamInv, UNCHANGED vars
             PROVE  StreamInv'
  OBVIOUS
<1>1. UNCHANGED <<sendVars, slotVars, streamVars, busVars>>
  BY DEF vars
<1>2. SendersInv' /\ SlotsInv' /\ ReceiversInv' /\ OpeningInv'
  BY <1>1, SendersRest, SlotsRest, ReceiversRest, OpeningRest
     DEF StreamInv, streamVars, sendVars, Sending
<1>3. \A s \in Stream : StreamOK(s)'
  BY <1>1, StreamsRest DEF sendVars, Sending, StreamInv, SendersInv
<1> QED
  BY <1>2, <1>3 DEF StreamInv

\* Every step keeps the invariant.
LEMMA NextInv == StreamInv /\ [Next]_vars => StreamInv'
<1> SUFFICES ASSUME StreamInv, [Next]_vars
             PROVE  StreamInv'
  OBVIOUS
<1>1. ASSUME NEW w \in Writer, BeginSend(w) \/ StoreMessage(w) \/ Broadcast(w) \/ HangUp(w)
      PROVE  StreamInv'
  BY <1>1, BeginSendInv, StoreMessageInv, BroadcastInv, HangUpInv
<1>2. ASSUME NEW s \in Stream, NEW d \in Device, BeginSubscribe(s, d)
      PROVE  StreamInv'
  BY <1>2, BeginSubscribeInv
<1>3. ASSUME NEW s \in Stream, LoopLagged(s) \/ LoopClientGone(s) \/ LoopSenderGone(s)
      PROVE  StreamInv'
  BY <1>3, EndLoopInv DEF LoopLagged, LoopClientGone, LoopSenderGone
<1>4. ASSUME NEW s \in Stream, CopyEvent(s) \/ Cleanup(s) \/ Disconnect(s)
                         \/ SubscribeFails(s) \/ Subscribe(s)
      PROVE  StreamInv'
  BY <1>4, CopyEventInv, CleanupInv, DisconnectInv, SubscribeFailsInv, SubscribeInv
<1>5. CASE Forward
  BY <1>5, ForwardInv
<1>6. ASSUME NEW d \in Device, RemoveDevice(d) \/ Login(d)
      PROVE  StreamInv'
  BY <1>6, RemoveDeviceInv, LoginInv
<1>7. CASE UNCHANGED vars
  BY <1>7, StutterInv
<1> QED
  BY <1>1, <1>2, <1>3, <1>4, <1>5, <1>6, <1>7 DEF Next

-----------------------------------------------------------------------------
\* A stream brings every message once: what is stored when it is opened and
\* what the bus brings after that leave no gap and have nothing in common
\* (events, events_loop, send_message).
THEOREM StreamsAreExact == Spec => []StreamExact
<1>1. Init => StreamInv
  BY InitInv
<1>2. StreamInv /\ [Next]_vars => StreamInv'
  BY NextInv
<1>3. StreamInv => StreamExact
  BY InvGivesProperties
<1> QED
  BY <1>1, <1>2, <1>3, PTL DEF Spec

\* A user with a connected device is shown as online, and one that is shown so
\* without a device has a loop that will still say otherwise, unless the last
\* device that had a sender had it from a request that failed before its loop
\* was started (events, events_loop).
THEOREM PresenceIsTold == Spec => []PresenceAnnounced
<1>1. Init => StreamInv
  BY InitInv
<1>2. StreamInv /\ [Next]_vars => StreamInv'
  BY NextInv
<1>3. StreamInv => PresenceAnnounced
  BY InvGivesProperties
<1> QED
  BY <1>1, <1>2, <1>3, PTL DEF Spec
=============================================================================
