----------------------------- MODULE LocksProofs -----------------------------
(***************************************************************************)
(* Requests whose handlers keep to an order of the locks never wait for    *)
(* each other in a circle: for any number of requests and of locks, any    *)
(* such handlers, readers and writers in fair queues, and requests that    *)
(* end anywhere.  TLC evaluates on LockOrder that the handlers which take  *)
(* State.cache first do so (HandlersKeepOrder in MC_Locks).                *)
(*                                                                         *)
(* The last part is about what the cache lock is held for in Pinned: the   *)
(* pinned copies, which show what the messages say (PinInv).               *)
(***************************************************************************)
EXTENDS Locks, Pinned, SequenceTheorems, WellFoundedInduction, TLAPS

Holds(r, l) == writer[l] = r \/ reads[l][r] > 0

\* Until a request drops a lock that it holds, it takes only later ones.
HeldUntil(t, l, rank) ==
    \E d \in DOMAIN t :
        /\ Drops(t[d], l)
        /\ \A j \in 1 .. d - 1 : Takes(t[j]) => rank[l] < rank[t[j].lock]

\* What is left of a program: each lock that it takes is held until a drop, ...
TakesInOrder(t, rank) ==
    \A i \in DOMAIN t : Takes(t[i]) =>
        \E d \in i + 1 .. Len(t) :
            /\ Drops(t[d], t[i].lock)
            /\ \A j \in i + 1 .. d - 1 : Takes(t[j]) => rank[t[i].lock] < rank[t[j].lock]

\* ... and what it drops it takes before, unless the request holds it by now.
TakenBefore(t, d) ==
    \E i \in 1 .. d - 1 :
        /\ Takes(t[i]) /\ t[i].lock = t[d].lock
        /\ \A j \in i + 1 .. d - 1 : ~Drops(t[j], t[d].lock)

FirstDrop(t, d) == \A j \in 1 .. d - 1 : ~Drops(t[j], t[d].lock)

DropsWhatItHolds(r, t) ==
    \A d \in DOMAIN t : ~Takes(t[d]) =>
        TakenBefore(t, d) \/ (Holds(r, t[d].lock) /\ FirstDrop(t, d))

\* A request waits in the queue of the lock that it asks for, and only once.
QueuesOK ==
    \A l \in Lock : \A i \in DOMAIN queue[l] :
        /\ todo[queue[l][i]] # <<>>
        /\ Head(todo[queue[l][i]]).lock = l
        /\ Head(todo[queue[l][i]]).op # "drop"
        /\ \A j \in DOMAIN queue[l] : queue[l][j] = queue[l][i] => i = j

Types ==
    /\ todo \in [Request -> Seq(Step)]
    /\ reads \in [Lock -> [Request -> Nat]]
    /\ writer \in [Lock -> Request \cup {Nobody}]
    /\ queue \in [Lock -> Seq(Request)]

\* The guards of a request and what it has left to do fit together.
RequestOK(r, rank) ==
    /\ TakesInOrder(todo[r], rank)
    /\ DropsWhatItHolds(r, todo[r])
    /\ \A l \in Lock : Holds(r, l) => HeldUntil(todo[r], l, rank)
    /\ \A l \in Lock : reads[l][r] <= 1 /\ (writer[l] = r => reads[l][r] = 0)

\* The inductive invariant.
LocksInv(rank) ==
    Types /\ QueuesOK /\ \A r \in Request : RequestOK(r, rank)

-----------------------------------------------------------------------------
\* A set of numbers that is not empty has a least member.
LEMMA LeastExists ==
    ASSUME NEW T, T \subseteq Nat, T # {}
    PROVE  \E x \in T : \A y \in T : x <= y
<1>1. IsWellFoundedOn(OpToRel(<, Nat), Nat)
  BY NatLessThanWellFounded
<1>2. PICK x \in T : \A y \in T : ~(<<y, x>> \in OpToRel(<, Nat))
  BY <1>1, WFMin
<1>3. ASSUME NEW y \in T
      PROVE  x <= y
  <2>1. x \in Nat /\ y \in Nat
    OBVIOUS
  <2>2. ~(y < x)
    BY <1>2, <2>1 DEF OpToRel
  <2> QED
    BY <2>1, <2>2
<1> QED
  BY <1>2, <1>3

\* The invariant says that the types are right.
LEMMA InvTypes == Types /\ QueuesOK => TypeOK
BY DEF Types, QueuesOK, TypeOK

\* Who waits, waits for the lock that it asks for.
LEMMA WaitsForOne ==
    ASSUME QueuesOK, NEW r, NEW l \in Lock, Waits(r, l)
    PROVE  todo[r] # <<>> /\ Head(todo[r]).lock = l /\ Takes(Head(todo[r]))
BY DEF QueuesOK, Waits, Queued, Takes

\* Circles are impossible: of the requests of a circle, take those that wait
\* for the last lock, and of these the first in its queue.  Whoever holds the
\* lock waits for a later one, and whoever is ahead is not in the circle.
LEMMA NoCircle ==
    ASSUME NEW N \in Nat, NEW rank \in [Lock -> 0 .. N], LocksInv(rank)
    PROVE  NoCircularWait
<1> SUFFICES ASSUME NEW S \in SUBSET Request, S # {},
                    \A r \in S : Blockers(r) \cap S # {}
             PROVE  FALSE
  BY DEF NoCircularWait, IsCircle
<1> DEFINE asks(r) == Head(todo[r]).lock
<1>1. Types /\ QueuesOK /\ \A r \in Request : RequestOK(r, rank)
  BY DEF LocksInv
<1>2. ASSUME NEW r \in S
      PROVE  /\ asks(r) \in Lock /\ Waits(r, asks(r)) /\ Takes(Head(todo[r]))
             /\ todo[r] # <<>>
             /\ \A l \in Lock : Waits(r, l) => l = asks(r)
  <2>1. PICK q \in S : q \in Blockers(r)
    BY <1>2
  <2>2. PICK l \in Lock : Waits(r, l)
    BY <2>1 DEF Blockers
  <2>3. \A k \in Lock : Waits(r, k) =>
           todo[r] # <<>> /\ Head(todo[r]).lock = k /\ Takes(Head(todo[r]))
    BY <1>1, WaitsForOne
  <2> QED
    BY <2>2, <2>3
<1> HIDE DEF asks
<1>3. PICK r0 \in S : \A r \in S : rank[asks(r)] <= rank[asks(r0)]
  <2> DEFINE T == {N - rank[asks(r)] : r \in S}
  <2>1. \A r \in S : rank[asks(r)] \in 0 .. N
    BY <1>2
  <2>2. T \subseteq Nat /\ T # {}
    BY <2>1
  <2>3. PICK x \in T : \A y \in T : x <= y
    BY <2>2, LeastExists
  <2>4. PICK r0 \in S : x = N - rank[asks(r0)]
    OBVIOUS
  <2>5. \A r \in S : N - rank[asks(r0)] <= N - rank[asks(r)]
    BY <2>3, <2>4
  <2>6. \A r \in S : rank[asks(r)] <= rank[asks(r0)]
    <3> TAKE r \in S
    <3>1. rank[asks(r)] \in 0 .. N /\ rank[asks(r0)] \in 0 .. N
      BY <2>1
    <3> QED
      BY <2>5, <3>1
  <2> QED
    BY <2>6
<1> DEFINE l0 == asks(r0)
           P == {i \in DOMAIN queue[l0] : queue[l0][i] \in S}
<1>4. l0 \in Lock /\ queue[l0] \in Seq(Request)
  BY <1>1, <1>2 DEF Types
<1>5. P \subseteq Nat /\ P # {}
  <2>1. DOMAIN queue[l0] \subseteq Nat
    BY <1>4
  <2>2. \E i \in DOMAIN queue[l0] : queue[l0][i] = r0
    BY <1>2 DEF Waits, Queued
  <2> QED
    BY <2>1, <2>2
<1>6. PICK i0 \in P : \A i \in P : i0 <= i
  BY <1>5, LeastExists
<1> DEFINE r1 == queue[l0][i0]
<1>7. r1 \in S /\ i0 \in DOMAIN queue[l0] /\ Waits(r1, l0) /\ asks(r1) = l0
  <2>1. r1 \in S /\ Waits(r1, l0)
    BY DEF Waits, Queued
  <2> QED
    BY <1>2, <1>4, <2>1
<1>8. PICK q \in S : q \in Blockers(r1)
  BY <1>7
<1>9. q \in Ahead(l0, r1) \/ q \in Holders(l0, Head(todo[r1]).op)
  BY <1>2, <1>7, <1>8 DEF Blockers
<1>10. CASE q \in Ahead(l0, r1)
  <2>1. PICK k \in DOMAIN queue[l0], j \in DOMAIN queue[l0] :
           q = queue[l0][k] /\ k < j /\ queue[l0][j] = r1
    BY <1>10 DEF Ahead
  <2>2. j = i0
    BY <1>1, <1>4, <1>7, <2>1 DEF QueuesOK
  <2>3. k \in P
    BY <2>1
  <2>4. k \in Nat /\ i0 \in Nat
    BY <1>5, <2>3
  <2> QED
    BY <1>6, <2>1, <2>2, <2>3, <2>4
<1>11. CASE q \in Holders(l0, Head(todo[r1]).op)
  <2>1. Holds(q, l0) /\ q \in Request
    BY <1>11 DEF Holders, Holds
  <2> DEFINE t == todo[q]
  <2>2. PICK d \in DOMAIN t :
           /\ Drops(t[d], l0)
           /\ \A j \in 1 .. d - 1 : Takes(t[j]) => rank[l0] < rank[t[j].lock]
    BY <1>1, <1>4, <2>1 DEF RequestOK, HeldUntil
  <2>3. t \in Seq(Step) /\ t # <<>>
    BY <1>1, <1>2, <2>1 DEF Types
  <2>4. Head(t) = t[1] /\ d \in Nat /\ d >= 1
    BY <2>2, <2>3
  <2>5. Takes(t[1]) /\ t[1].lock = asks(q)
    BY <1>2, <2>4 DEF asks
  <2>6. d # 1
    BY <2>2, <2>5 DEF Takes, Drops
  <2>7. rank[l0] < rank[asks(q)]
    BY <2>2, <2>4, <2>5, <2>6
  <2>8. rank[asks(q)] <= rank[l0] /\ rank[asks(q)] \in 0 .. N /\ rank[l0] \in 0 .. N
    BY <1>2, <1>3, <1>4
  <2> QED
    BY <2>7, <2>8
<1> QED
  BY <1>9, <1>10, <1>11

-----------------------------------------------------------------------------
\* The steps that are left when the first is done.
LEMMA TailSteps ==
    ASSUME NEW t \in Seq(Step), t # <<>>
    PROVE  /\ Head(t) \in Step /\ Head(t) = t[1] /\ Tail(t) \in Seq(Step)
           /\ Len(t) \in Nat /\ Len(t) >= 1 /\ Len(Tail(t)) = Len(t) - 1
           /\ DOMAIN t = 1 .. Len(t) /\ DOMAIN Tail(t) = 1 .. Len(t) - 1
           /\ \A j \in 1 .. Len(t) - 1 : Tail(t)[j] = t[j + 1]
OBVIOUS

\* What is left of a program keeps to the order; so does a lock that is held,
\* unless it was dropped, and one that was just taken.
LEMMA TailInOrder ==
    ASSUME NEW rank, NEW t \in Seq(Step), t # <<>>, TakesInOrder(t, rank)
    PROVE  /\ TakesInOrder(Tail(t), rank)
           /\ Takes(Head(t)) => HeldUntil(Tail(t), Head(t).lock, rank)
           /\ \A l \in Lock : HeldUntil(t, l, rank) /\ ~Drops(Head(t), l) =>
                 /\ HeldUntil(Tail(t), l, rank)
                 /\ Takes(Head(t)) => rank[l] < rank[Head(t).lock]
<1> DEFINE u == Tail(t)
           s == Head(t)
           n == Len(t)
<1>1. /\ s = t[1] /\ n \in Nat /\ n >= 1 /\ Len(u) = n - 1
      /\ DOMAIN t = 1 .. n /\ DOMAIN u = 1 .. n - 1
      /\ \A j \in 1 .. n - 1 : u[j] = t[j + 1]
  BY TailSteps
<1> HIDE DEF u, s, n
\* What comes before a drop in the rest of the program comes before it in t.
<1>2. ASSUME NEW l, NEW a \in 1 .. n, NEW d \in a + 1 .. n, Drops(t[d], l),
             \A j \in a + 1 .. d - 1 : Takes(t[j]) => rank[l] < rank[t[j].lock]
      PROVE  /\ d - 1 \in DOMAIN u /\ d - 1 \in a .. n - 1 /\ Drops(u[d - 1], l)
             /\ \A j \in a .. d - 2 : Takes(u[j]) => rank[l] < rank[u[j].lock]
  <2>1. d - 1 \in 1 .. n - 1 /\ d - 1 \in a .. n - 1 /\ (d - 1) + 1 = d
    BY <1>1
  <2>2. Drops(u[d - 1], l)
    BY <1>1, <1>2, <2>1
  <2>3. ASSUME NEW j \in a .. d - 2, Takes(u[j])
        PROVE  rank[l] < rank[u[j].lock]
    <3>1. j \in 1 .. n - 1 /\ j + 1 \in a + 1 .. d - 1
      BY <1>1, <2>1
    <3>2. u[j] = t[j + 1]
      BY <1>1, <3>1
    <3> QED
      BY <1>2, <2>3, <3>1, <3>2
  <2> QED
    BY <1>1, <2>1, <2>2, <2>3
<1>3. ASSUME NEW i \in DOMAIN u, Takes(u[i])
      PROVE  \E d \in i + 1 .. Len(u) :
                /\ Drops(u[d], u[i].lock)
                /\ \A j \in i + 1 .. d - 1 :
                      Takes(u[j]) => rank[u[i].lock] < rank[u[j].lock]
  <2>1. i \in 1 .. n - 1 /\ i + 1 \in DOMAIN t /\ i + 1 \in 1 .. n /\ u[i] = t[i + 1]
    BY <1>1
  <2> DEFINE a == i + 1
  <2>2. PICK d \in a + 1 .. n :
           /\ Drops(t[d], t[a].lock)
           /\ \A j \in a + 1 .. d - 1 :
                 Takes(t[j]) => rank[t[a].lock] < rank[t[j].lock]
    BY <1>3, <2>1 DEF TakesInOrder, n
  <2>3. a \in 1 .. n /\ u[i] = t[a] /\ d - 2 = (d - 1) - 1
    BY <1>1, <2>1
  <2> HIDE DEF a
  <2>4. /\ d - 1 \in a .. n - 1 /\ Drops(u[d - 1], t[a].lock)
        /\ \A j \in a .. d - 2 : Takes(u[j]) => rank[t[a].lock] < rank[u[j].lock]
    BY <1>2, <2>2, <2>3
  <2> QED
    BY <1>1, <2>3, <2>4 DEF a
<1>4. TakesInOrder(u, rank)
  BY <1>3 DEF TakesInOrder
<1>5. ASSUME NEW l, NEW d \in 2 .. n, Drops(t[d], l),
             \A j \in 2 .. d - 1 : Takes(t[j]) => rank[l] < rank[t[j].lock]
      PROVE  HeldUntil(u, l, rank)
  <2> DEFINE a == 1
  <2>1. a \in 1 .. n /\ d \in a + 1 .. n /\ a + 1 = 2 /\ d - 2 = (d - 1) - 1
    BY <1>1
  <2> HIDE DEF a
  <2>2. /\ d - 1 \in DOMAIN u /\ Drops(u[d - 1], l)
        /\ \A j \in a .. d - 2 : Takes(u[j]) => rank[l] < rank[u[j].lock]
    BY <1>2, <1>5, <2>1
  <2> QED
    BY <2>1, <2>2 DEF HeldUntil, a
<1>6. ASSUME Takes(s)
      PROVE  HeldUntil(u, s.lock, rank)
  <2>1. 1 \in DOMAIN t /\ Takes(t[1])
    BY <1>1, <1>6
  <2>2. PICK d \in 1 + 1 .. n :
           /\ Drops(t[d], t[1].lock)
           /\ \A j \in 1 + 1 .. d - 1 : Takes(t[j]) => rank[t[1].lock] < rank[t[j].lock]
    BY <2>1 DEF TakesInOrder, n
  <2> DEFINE l == t[1].lock
  <2>3. /\ d \in 2 .. n /\ Drops(t[d], l)
        /\ \A j \in 2 .. d - 1 : Takes(t[j]) => rank[l] < rank[t[j].lock]
    BY <2>2
  <2>4. l = s.lock
    BY <1>1
  <2> HIDE DEF l
  <2> QED
    BY <1>5, <2>3, <2>4
<1>7. ASSUME NEW l \in Lock, HeldUntil(t, l, rank), ~Drops(s, l)
      PROVE  HeldUntil(u, l, rank) /\ (Takes(s) => rank[l] < rank[s.lock])
  <2>1. PICK d \in DOMAIN t :
           /\ Drops(t[d], l)
           /\ \A j \in 1 .. d - 1 : Takes(t[j]) => rank[l] < rank[t[j].lock]
    BY <1>7 DEF HeldUntil
  <2>2. d \in 2 .. n /\ 1 \in 1 .. d - 1
    BY <1>1, <1>7, <2>1
  <2>3. \A j \in 2 .. d - 1 : j \in 1 .. d - 1
    BY <2>2
  <2> QED
    BY <1>1, <1>5, <2>1, <2>2, <2>3
<1> QED
  BY <1>4, <1>6, <1>7 DEF u, s

\* A lock that the rest of a program drops is taken in the rest, or was taken
\* by the first step, or was held before and not dropped by the first step.
LEMMA TailDrops ==
    ASSUME NEW r, NEW t \in Seq(Step), t # <<>>, DropsWhatItHolds(r, t),
           NEW e \in DOMAIN Tail(t), ~Takes(Tail(t)[e])
    PROVE  \/ TakenBefore(Tail(t), e)
           \/ /\ FirstDrop(Tail(t), e)
              /\ \/ Takes(Head(t)) /\ Head(t).lock = Tail(t)[e].lock
                 \/ Holds(r, Tail(t)[e].lock) /\ ~Drops(Head(t), Tail(t)[e].lock)
<1> DEFINE u == Tail(t)
           s == Head(t)
           n == Len(t)
<1>1. /\ s = t[1] /\ n \in Nat /\ n >= 1
      /\ DOMAIN t = 1 .. n /\ DOMAIN u = 1 .. n - 1
      /\ \A j \in 1 .. n - 1 : u[j] = t[j + 1]
  BY TailSteps
<1> HIDE DEF u, s, n
<1>2. e \in 1 .. n - 1 /\ e + 1 \in DOMAIN t /\ u[e] = t[e + 1] /\ ~Takes(t[e + 1])
  BY <1>1 DEF u
<1>3. \A j \in 1 .. e - 1 : u[j] = t[j + 1] /\ j + 1 \in 2 .. e
  BY <1>1, <1>2
<1>4. TakenBefore(t, e + 1) \/ (Holds(r, t[e + 1].lock) /\ FirstDrop(t, e + 1))
  BY <1>2 DEF DropsWhatItHolds
<1>5. CASE TakenBefore(t, e + 1)
  <2>1. PICK i \in 1 .. e : /\ Takes(t[i]) /\ t[i].lock = t[e + 1].lock
                            /\ \A j \in i + 1 .. e : ~Drops(t[j], t[e + 1].lock)
    <3>1. (e + 1) - 1 = e
      BY <1>2
    <3> QED
      BY <1>5, <3>1 DEF TakenBefore
  <2>2. CASE i = 1
    <3>1. FirstDrop(u, e)
      BY <1>2, <1>3, <2>1, <2>2 DEF FirstDrop
    <3> QED
      BY <1>1, <1>2, <2>1, <2>2, <3>1 DEF u, s
  <2>3. CASE i # 1
    <3>1. i - 1 \in 1 .. e - 1 /\ (i - 1) + 1 = i
      BY <1>2, <2>3
    <3>2. Takes(u[i - 1]) /\ u[i - 1].lock = u[e].lock
      BY <1>2, <1>3, <2>1, <3>1
    <3>3. ASSUME NEW j \in (i - 1) + 1 .. e - 1
          PROVE  ~Drops(u[j], u[e].lock)
      <4>1. j \in 1 .. e - 1 /\ j + 1 \in i + 1 .. e
        BY <1>2, <3>1
      <4> QED
        BY <1>2, <1>3, <2>1, <4>1
    <3> QED
      BY <3>1, <3>2, <3>3 DEF TakenBefore, u
  <2> QED
    BY <2>2, <2>3
<1>6. CASE Holds(r, t[e + 1].lock) /\ FirstDrop(t, e + 1)
  <2>1. \A j \in 1 .. e : ~Drops(t[j], t[e + 1].lock)
    <3>1. (e + 1) - 1 = e
      BY <1>2
    <3> QED
      BY <1>6, <3>1 DEF FirstDrop
  <2>2. FirstDrop(u, e)
    <3>1. \A j \in 1 .. e - 1 : j + 1 \in 1 .. e
      BY <1>2
    <3> QED
      BY <1>2, <1>3, <2>1, <3>1 DEF FirstDrop
  <2>3. ~Drops(s, t[e + 1].lock)
    BY <1>1, <1>2, <2>1
  <2> QED
    BY <1>2, <1>6, <2>2, <2>3 DEF u, s
<1> QED
  BY <1>4, <1>5, <1>6

-----------------------------------------------------------------------------
\* Every step is about a lock.
LEMMA StepsHaveLocks ==
    ASSUME NEW t \in Seq(Step), NEW d \in DOMAIN t
    PROVE  t[d].lock \in Lock
<1>1. t[d] \in Step
  OBVIOUS
<1> QED
  BY <1>1 DEF Step

\* A request that does nothing, and whose guards nobody changes, is as it was.
LEMMA OthersStay ==
    ASSUME NEW rank, NEW q \in Request, Types, RequestOK(q, rank),
           todo'[q] = todo[q],
           \A l \in Lock : reads'[l][q] = reads[l][q] /\ (writer'[l] = q <=> writer[l] = q)
    PROVE  RequestOK(q, rank)'
<1>1. \A d \in DOMAIN todo[q] : todo[q][d].lock \in Lock
  BY StepsHaveLocks DEF Types
<1>2. \A l \in Lock : Holds(q, l)' <=> Holds(q, l)
  BY DEF Holds
<1>3. DropsWhatItHolds(q, todo[q])'
  BY <1>1, <1>2 DEF RequestOK, DropsWhatItHolds
<1> QED
  BY <1>2, <1>3 DEF RequestOK

\* A request that has done its first step, and holds what it has taken and not
\* dropped.
LEMMA StepKeeps ==
    ASSUME NEW rank, NEW r \in Request, Types, RequestOK(r, rank), todo[r] # <<>>,
           todo' = [todo EXCEPT ![r] = Tail(@)],
           \A l \in Lock : Holds(r, l)' <=>
              (Takes(Head(todo[r])) /\ Head(todo[r]).lock = l)
                 \/ (Holds(r, l) /\ ~Drops(Head(todo[r]), l)),
           \A l \in Lock : reads'[l][r] <= 1 /\ (writer'[l] = r => reads'[l][r] = 0)
    PROVE  RequestOK(r, rank)'
<1> DEFINE t == todo[r]
           u == Tail(t)
           s == Head(t)
<1>1. /\ t \in Seq(Step) /\ t # <<>> /\ s \in Step /\ u \in Seq(Step) /\ todo'[r] = u
  BY TailSteps DEF Types
<1>2. s.lock \in Lock /\ \A e \in DOMAIN u : u[e].lock \in Lock
  <2>1. s.lock \in Lock
    BY <1>1 DEF Step
  <2> QED
    BY <1>1, <2>1, StepsHaveLocks
<1>3. TakesInOrder(t, rank) /\ DropsWhatItHolds(r, t)
      /\ \A l \in Lock : Holds(r, l) => HeldUntil(t, l, rank)
  BY DEF RequestOK
<1>4. /\ TakesInOrder(u, rank)
      /\ Takes(s) => HeldUntil(u, s.lock, rank)
      /\ \A l \in Lock : HeldUntil(t, l, rank) /\ ~Drops(s, l) => HeldUntil(u, l, rank)
  BY <1>1, <1>3, TailInOrder
<1>5. ASSUME NEW e \in DOMAIN u, ~Takes(u[e])
      PROVE  \A l \in Lock : l = u[e].lock =>
                TakenBefore(u, e) \/ (Holds(r, l)' /\ FirstDrop(u, e))
  <2>1. \/ TakenBefore(u, e)
        \/ /\ FirstDrop(u, e)
           /\ \/ Takes(s) /\ s.lock = u[e].lock
              \/ Holds(r, u[e].lock) /\ ~Drops(s, u[e].lock)
    BY <1>1, <1>3, <1>5, TailDrops
  <2> QED
    BY <1>2, <1>5, <2>1
<1> HIDE DEF t, u, s
<1>6. DropsWhatItHolds(r, todo[r])'
  <2>1. ASSUME NEW e \in DOMAIN todo'[r], ~Takes(todo'[r][e])
        PROVE  \/ TakenBefore(todo'[r], e)
               \/ Holds(r, todo[r][e].lock)' /\ FirstDrop(todo'[r], e)
    <3>1. e \in DOMAIN u /\ ~Takes(u[e]) /\ u[e].lock \in Lock
      BY <1>1, <1>2, <2>1
    <3>2. PICK l \in Lock : l = u[e].lock
      BY <3>1
    <3>3. TakenBefore(u, e) \/ (Holds(r, l)' /\ FirstDrop(u, e))
      BY <1>5, <3>1, <3>2
    <3>4. todo'[r][e].lock = l
      BY <1>1, <3>2
    <3> QED
      BY <1>1, <3>3, <3>4 DEF Holds
  <2> QED
    BY <2>1 DEF DropsWhatItHolds
<1>7. \A l \in Lock : Holds(r, l)' => HeldUntil(u, l, rank)
  <2>1. \A l \in Lock : Holds(r, l)' =>
           (Takes(s) /\ s.lock = l) \/ (Holds(r, l) /\ ~Drops(s, l))
    BY DEF s, t
  <2> QED
    BY <1>3, <1>4, <2>1
<1> QED
  BY <1>1, <1>4, <1>6, <1>7 DEF RequestOK

-----------------------------------------------------------------------------
\* A request gets the guard that it asks for: it did not hold the lock before,
\* and nobody else loses it.
LEMMA TakeKeeps ==
    ASSUME NEW N \in Nat, NEW rank \in [Lock -> 0 .. N], LocksInv(rank),
           NEW r \in Request, todo[r] # <<>>, Takes(Head(todo[r])),
           CanTake(r, Head(todo[r])), Take(r, Head(todo[r]))
    PROVE  /\ todo' \in [Request -> Seq(Step)]
           /\ reads' \in [Lock -> [Request -> Nat]]
           /\ writer' \in [Lock -> Request \cup {Nobody}]
           /\ \A q \in Request : RequestOK(q, rank)'
<1> DEFINE s == Head(todo[r])
           k == s.lock
<1>1. Types /\ \A q \in Request : RequestOK(q, rank)
  BY DEF LocksInv
<1>2. /\ s \in Step /\ Tail(todo[r]) \in Seq(Step) /\ Head(todo[r]) = s
      /\ todo[r] \in Seq(Step)
  BY <1>1, TailSteps DEF Types
<1>3. k \in Lock /\ s.op \in {"read", "write"}
  BY <1>2 DEF Step, Takes
<1>4. ~Holds(r, k)
  <2>1. SUFFICES ASSUME Holds(r, k)
                 PROVE  FALSE
    OBVIOUS
  <2>2. HeldUntil(todo[r], k, rank) /\ TakesInOrder(todo[r], rank)
    BY <1>1, <1>3, <2>1 DEF RequestOK
  <2>3. ~Drops(s, k)
    BY DEF Takes, Drops
  <2>4. rank[k] < rank[k]
    BY <1>2, <1>3, <2>2, <2>3, TailInOrder
  <2>5. rank[k] \in Nat
    BY <1>3
  <2> QED
    BY <2>4, <2>5
<1>5. /\ todo' = [todo EXCEPT ![r] = Tail(@)]
      /\ s.op = "read" => reads' = [reads EXCEPT ![k][r] = @ + 1] /\ writer' = writer
      /\ s.op = "write" => writer' = [writer EXCEPT ![k] = r] /\ reads' = reads
      /\ writer[k] = Nobody
      /\ s.op = "write" => \A q \in Request : reads[k][q] = 0
  BY <1>3 DEF Take, CanTake
<1> HIDE DEF s, k
<1>6. reads \in [Lock -> [Request -> Nat]] /\ writer \in [Lock -> Request \cup {Nobody}]
      /\ todo \in [Request -> Seq(Step)]
  BY <1>1 DEF Types
<1>7. writer[k] # r /\ reads[k][r] = 0
  <2>1. reads[k][r] \in Nat
    BY <1>3, <1>6
  <2> QED
    BY <1>4, <2>1 DEF Holds
<1>8. \A l \in Lock : reads[l][r] <= 1 /\ (writer[l] = r => reads[l][r] = 0)
  BY <1>1 DEF RequestOK
<1>9. todo' \in [Request -> Seq(Step)]
  BY <1>2, <1>5, <1>6
<1>10. ASSUME NEW q \in Request, q # r
       PROVE  RequestOK(q, rank)'
  <2>1. todo'[q] = todo[q]
    BY <1>5, <1>6, <1>10
  <2>2. \A l \in Lock : reads'[l][q] = reads[l][q] /\ (writer'[l] = q <=> writer[l] = q)
    <3>1. CASE s.op = "read"
      <4>1. writer' = writer /\ reads' = [reads EXCEPT ![k][r] = reads[k][r] + 1]
        BY <1>5, <3>1
      <4>2. \A l \in Lock : reads'[l][q] = reads[l][q]
        BY <1>3, <1>6, <1>10, <4>1
      <4> QED
        BY <4>1, <4>2
    <3>2. CASE s.op = "write"
      <4>1. Nobody # q
        BY NobodyAssumption
      <4> QED
        BY <1>3, <1>5, <1>6, <1>10, <3>2, <4>1
    <3> QED
      BY <1>3, <3>1, <3>2
  <2> QED
    BY <1>1, <2>1, <2>2, OthersStay
<1>11. ASSUME NEW l \in Lock
       PROVE  /\ Holds(r, l)' <=> k = l \/ Holds(r, l)
              /\ reads'[l][r] <= 1 /\ (writer'[l] = r => reads'[l][r] = 0)
  <2>1. CASE s.op = "read"
    <3>1. reads'[l][r] = (IF l = k THEN 1 ELSE reads[l][r]) /\ writer'[l] = writer[l]
      BY <1>3, <1>5, <1>6, <1>7, <2>1
    <3> QED
      BY <1>7, <1>8, <3>1 DEF Holds
  <2>2. CASE s.op = "write"
    <3>1. writer'[l] = (IF l = k THEN r ELSE writer[l]) /\ reads'[l][r] = reads[l][r]
      BY <1>3, <1>5, <1>6, <2>2
    <3> QED
      BY <1>7, <1>8, <3>1 DEF Holds
  <2> QED
    BY <1>3, <2>1, <2>2
<1>12. RequestOK(r, rank)'
  <2>1. \A l \in Lock : ~Drops(Head(todo[r]), l)
    BY DEF Takes, Drops
  <2>2. \A l \in Lock : Holds(r, l)' <=>
           (Takes(Head(todo[r])) /\ Head(todo[r]).lock = l)
              \/ (Holds(r, l) /\ ~Drops(Head(todo[r]), l))
    BY <1>11, <2>1 DEF s, k
  <2> QED
    BY <1>1, <1>5, <1>11, <2>2, StepKeeps
<1>13. reads' \in [Lock -> [Request -> Nat]] /\ writer' \in [Lock -> Request \cup {Nobody}]
  <2>1. CASE s.op = "read"
    <3> DEFINE new == [reads[k] EXCEPT ![r] = @ + 1]
    <3>1. new \in [Request -> Nat]
      BY <1>3, <1>6
    <3>2. reads' = [reads EXCEPT ![k] = new] /\ writer' = writer
      BY <1>5, <2>1
    <3> HIDE DEF new
    <3> QED
      BY <1>6, <3>1, <3>2
  <2>2. CASE s.op = "write"
    BY <1>3, <1>5, <1>6, <2>2
  <2> QED
    BY <1>3, <2>1, <2>2
<1> QED
  BY <1>9, <1>10, <1>12, <1>13

-----------------------------------------------------------------------------
\* The queues stay good when the requests in them do.
LEMMA QueuesStay ==
    ASSUME Types, QueuesOK, UNCHANGED queue,
           \A l \in Lock : \A i \in DOMAIN queue[l] : todo'[queue[l][i]] = todo[queue[l][i]]
    PROVE  QueuesOK'
BY DEF QueuesOK

\* In the beginning no lock is taken and nobody waits.
LEMMA InitInv == ASSUME NEW rank, Init PROVE LocksInv(rank)
<1>1. <<>> \in Seq(Step) /\ <<>> \in Seq(Request) /\ DOMAIN <<>> = {}
  OBVIOUS
<1>2. Types
  BY <1>1 DEF Init, Types
<1>3. QueuesOK
  BY <1>1 DEF Init, QueuesOK
<1>4. ASSUME NEW r \in Request
      PROVE  RequestOK(r, rank)
  <2>1. todo[r] = <<>> /\ \A l \in Lock : reads[l][r] = 0 /\ writer[l] = Nobody
    BY DEF Init
  <2>2. \A l \in Lock : ~Holds(r, l)
    BY <2>1, NobodyAssumption DEF Holds
  <2> QED
    BY <1>1, <2>1, <2>2, NobodyAssumption DEF RequestOK, TakesInOrder, DropsWhatItHolds
<1> QED
  BY <1>2, <1>3, <1>4 DEF LocksInv

\* A request begins: it holds nothing, so the order of its program is all there
\* is to keep.
LEMMA StartInv ==
    ASSUME NEW rank, LocksInv(rank), \A p \in Program : KeepsOrder(p, rank),
           NEW r \in Request, NEW p \in Program, Start(r, p)
    PROVE  LocksInv(rank)'
<1>1. Types /\ QueuesOK /\ \A q \in Request : RequestOK(q, rank)
  BY DEF LocksInv
<1>2. /\ todo[r] = <<>> /\ todo' = [todo EXCEPT ![r] = p]
      /\ UNCHANGED <<reads, writer, queue>>
      /\ p \in Seq(Step) /\ KeepsOrder(p, rank)
  BY ProgramAssumption DEF Start
<1>3. /\ todo'[r] = p /\ \A q \in Request : q # r => todo'[q] = todo[q]
      /\ todo' \in [Request -> Seq(Step)]
  BY <1>1, <1>2 DEF Types
<1>4. Types'
  BY <1>1, <1>2, <1>3 DEF Types
<1>5. QueuesOK'
  <2>1. ASSUME NEW l \in Lock, NEW i \in DOMAIN queue[l]
        PROVE  todo'[queue[l][i]] = todo[queue[l][i]]
    <3>1. queue[l][i] \in Request /\ todo[queue[l][i]] # <<>>
      BY <1>1 DEF Types, QueuesOK
    <3> QED
      BY <1>2, <1>3, <3>1
  <2> QED
    BY <1>1, <1>2, <2>1, QueuesStay
<1>6. ASSUME NEW q \in Request, q # r
      PROVE  RequestOK(q, rank)'
  BY <1>1, <1>2, <1>3, <1>6, OthersStay
<1>7. RequestOK(r, rank)'
  <2>1. \A l \in Lock : ~Holds(r, l)
    <3>1. DOMAIN todo[r] = {}
      BY <1>2
    <3> QED
      BY <1>1, <3>1 DEF RequestOK, HeldUntil
  <2>2. TakesInOrder(todo'[r], rank)
    BY <1>2, <1>3 DEF KeepsOrder, TakesInOrder
  <2>3. \A d \in DOMAIN p : ~Takes(p[d]) => TakenBefore(p, d)
    BY <1>2 DEF KeepsOrder, TakenBefore
  <2>4. DropsWhatItHolds(r, todo[r])'
    BY <1>3, <2>3 DEF DropsWhatItHolds
  <2>5. \A l \in Lock : ~Holds(r, l)'
    BY <1>2, <2>1 DEF Holds
  <2> QED
    BY <1>1, <1>2, <2>2, <2>4, <2>5 DEF RequestOK
<1> QED
  BY <1>4, <1>5, <1>6, <1>7 DEF LocksInv

\* One more at the end of a queue.
LEMMA AppendOne ==
    ASSUME NEW T, NEW q \in Seq(T), NEW x \in T
    PROVE  /\ Append(q, x) \in Seq(T) /\ Len(q) \in Nat
           /\ DOMAIN q = 1 .. Len(q) /\ DOMAIN Append(q, x) = 1 .. Len(q) + 1
           /\ \A i \in 1 .. Len(q) : Append(q, x)[i] = q[i]
           /\ Append(q, x)[Len(q) + 1] = x
OBVIOUS

\* A request takes the lock at once, or joins the end of its queue.
LEMMA AcquireInv ==
    ASSUME NEW N \in Nat, NEW rank \in [Lock -> 0 .. N], LocksInv(rank),
           NEW r \in Request, Acquire(r)
    PROVE  LocksInv(rank)'
<1> DEFINE s == Head(todo[r])
           k == s.lock
<1>1. Types /\ QueuesOK /\ \A q \in Request : RequestOK(q, rank)
  BY DEF LocksInv
<1>2. todo[r] # <<>> /\ Takes(s) /\ r \notin Queued(k) /\ k \in Lock
  <2>1. todo[r] # <<>> /\ todo[r] \in Seq(Step)
    BY <1>1 DEF Acquire, Types
  <2>2. s \in Step
    BY <2>1, TailSteps
  <2> QED
    BY <2>1, <2>2 DEF Acquire, Takes, Step
<1>3. \A l \in Lock : \A i \in DOMAIN queue[l] : queue[l][i] # r
  <2>1. ASSUME NEW l \in Lock, NEW i \in DOMAIN queue[l], queue[l][i] = r
        PROVE  FALSE
    <3>1. l = k
      BY <1>1, <2>1 DEF QueuesOK
    <3> QED
      BY <1>2, <2>1, <3>1 DEF Queued
  <2> QED
    BY <2>1
<1>4. CASE CanTake(r, s) /\ Take(r, s) /\ UNCHANGED queue
  <2>1. /\ todo' \in [Request -> Seq(Step)]
        /\ reads' \in [Lock -> [Request -> Nat]]
        /\ writer' \in [Lock -> Request \cup {Nobody}]
        /\ \A q \in Request : RequestOK(q, rank)'
    BY <1>2, <1>4, TakeKeeps
  <2>2. todo' = [todo EXCEPT ![r] = Tail(@)]
    BY <1>4 DEF Take
  <2>3. QueuesOK'
    <3>1. ASSUME NEW l \in Lock, NEW i \in DOMAIN queue[l]
          PROVE  todo'[queue[l][i]] = todo[queue[l][i]]
      <4>1. queue[l][i] \in Request /\ queue[l][i] # r
        BY <1>1, <1>3 DEF Types
      <4> QED
        BY <1>1, <2>2, <4>1 DEF Types
    <3> QED
      BY <1>1, <1>4, <3>1, QueuesStay
  <2> QED
    BY <1>1, <1>4, <2>1, <2>3 DEF LocksInv, Types
<1>5. CASE /\ queue' = [queue EXCEPT ![k] = Append(@, r)]
           /\ UNCHANGED <<todo, reads, writer>>
  <2> HIDE DEF s, k
  <2>1. queue \in [Lock -> Seq(Request)] /\ queue[k] \in Seq(Request)
    BY <1>1, <1>2 DEF Types
  <2>2. /\ queue'[k] = Append(queue[k], r)
        /\ \A l \in Lock : l # k => queue'[l] = queue[l]
        /\ queue' \in [Lock -> Seq(Request)]
    BY <1>2, <1>5, <2>1
  <2> DEFINE n == Len(queue[k])
             a == queue'[k]
  <2>3. /\ n \in Nat /\ DOMAIN queue[k] = 1 .. n /\ DOMAIN a = 1 .. n + 1
        /\ \A i \in 1 .. n : a[i] = queue[k][i]
        /\ a[n + 1] = r
    BY <2>1, <2>2, AppendOne
  <2>4. QueuesOK'
    <3>1. ASSUME NEW l \in Lock, NEW i \in DOMAIN queue'[l], l # k
          PROVE  /\ todo'[queue'[l][i]] # <<>>
                 /\ Head(todo'[queue'[l][i]]).lock = l
                 /\ Head(todo'[queue'[l][i]]).op # "drop"
                 /\ \A j \in DOMAIN queue'[l] : queue'[l][j] = queue'[l][i] => i = j
      BY <1>1, <1>5, <2>2, <3>1 DEF QueuesOK
    <3> HIDE DEF a, n
    <3>2. ASSUME NEW i \in DOMAIN a
          PROVE  /\ todo[a[i]] # <<>>
                 /\ Head(todo[a[i]]).lock = k
                 /\ Head(todo[a[i]]).op # "drop"
                 /\ \A j \in DOMAIN a : a[j] = a[i] => i = j
      <4>1. \A j \in 1 .. n : a[j] # r
        BY <1>2, <1>3, <2>3
      <4>2. CASE i = n + 1
        <5>1. a[i] = r
          BY <2>3, <4>2
        <5>2. \A j \in DOMAIN a : a[j] = a[i] => i = j
          <6>1. ASSUME NEW j \in DOMAIN a, a[j] = r
                PROVE  j = n + 1
            <7>1. j \in 1 .. n + 1 /\ j \notin 1 .. n
              BY <2>3, <4>1, <6>1
            <7> QED
              BY <2>3, <7>1
          <6> QED
            BY <4>2, <5>1, <6>1
        <5> QED
          BY <1>2, <5>1, <5>2 DEF s, k, Takes
      <4>3. CASE i \in 1 .. n
        <5>1. a[i] = queue[k][i] /\ a[i] # r /\ i \in DOMAIN queue[k]
          BY <2>3, <4>1, <4>3
        <5>2. /\ todo[a[i]] # <<>>
              /\ Head(todo[a[i]]).lock = k
              /\ Head(todo[a[i]]).op # "drop"
              /\ \A j \in DOMAIN queue[k] : queue[k][j] = a[i] => i = j
          BY <1>1, <1>2, <5>1 DEF QueuesOK
        <5>3. ASSUME NEW j \in DOMAIN a, a[j] = a[i]
              PROVE  i = j
          <6>1. j \in 1 .. n + 1 /\ j # n + 1
            BY <2>3, <5>1, <5>3
          <6>2. j \in 1 .. n
            BY <2>3, <6>1
          <6> QED
            BY <2>3, <5>2, <5>3, <6>2
        <5> QED
          BY <5>2, <5>3
      <4> QED
        BY <2>3, <4>2, <4>3
    <3>3. ASSUME NEW l \in Lock, NEW i \in DOMAIN queue'[l]
          PROVE  /\ todo'[queue'[l][i]] # <<>>
                 /\ Head(todo'[queue'[l][i]]).lock = l
                 /\ Head(todo'[queue'[l][i]]).op # "drop"
                 /\ \A j \in DOMAIN queue'[l] : queue'[l][j] = queue'[l][i] => i = j
      <4>1. CASE l = k
        <5>1. queue'[l] = a
          BY <4>1 DEF a
        <5>2. todo' = todo
          BY <1>5
        <5> QED
          BY <3>2, <3>3, <4>1, <5>1, <5>2
      <4>2. CASE l # k
        BY <3>1, <3>3, <4>2
      <4> QED
        BY <4>1, <4>2
    <3> QED
      BY <3>3 DEF QueuesOK
  <2>5. \A q \in Request : RequestOK(q, rank)'
    BY <1>1, <1>5, OthersStay
  <2> QED
    BY <1>1, <1>5, <2>2, <2>4, <2>5 DEF LocksInv, Types
<1> QED
  BY <1>4, <1>5 DEF Acquire

\* The first in a queue gets the lock.
LEMMA GrantInv ==
    ASSUME NEW N \in Nat, NEW rank \in [Lock -> 0 .. N], LocksInv(rank),
           NEW l \in Lock, Grant(l)
    PROVE  LocksInv(rank)'
<1> DEFINE r == Head(queue[l])
           s == Head(todo[r])
           n == Len(queue[l])
           rest == Tail(queue[l])
<1>1. Types /\ QueuesOK /\ \A q \in Request : RequestOK(q, rank)
  BY DEF LocksInv
<1>2. /\ queue[l] # <<>> /\ CanTake(r, s) /\ Take(r, s)
      /\ queue' = [queue EXCEPT ![l] = rest]
      /\ queue[l] \in Seq(Request) /\ queue \in [Lock -> Seq(Request)]
  BY <1>1 DEF Grant, Types
<1>3. /\ r = queue[l][1] /\ r \in Request /\ rest \in Seq(Request)
      /\ n \in Nat /\ n >= 1 /\ DOMAIN queue[l] = 1 .. n /\ DOMAIN rest = 1 .. n - 1
      /\ \A j \in 1 .. n - 1 : rest[j] = queue[l][j + 1]
  BY <1>2
<1>4. todo[r] # <<>> /\ s.lock = l /\ Takes(s)
  BY <1>1, <1>3 DEF QueuesOK, Takes
<1>5. /\ todo' \in [Request -> Seq(Step)]
      /\ reads' \in [Lock -> [Request -> Nat]]
      /\ writer' \in [Lock -> Request \cup {Nobody}]
      /\ \A q \in Request : RequestOK(q, rank)'
  BY <1>2, <1>3, <1>4, TakeKeeps
<1>6. todo' = [todo EXCEPT ![r] = Tail(@)]
  BY <1>2 DEF Take
<1> HIDE DEF r, s, n, rest
<1>7. \A q \in Request : q # r => todo'[q] = todo[q]
  BY <1>1, <1>3, <1>6 DEF Types
<1>8. /\ queue'[l] = rest /\ \A m \in Lock : m # l => queue'[m] = queue[m]
      /\ queue' \in [Lock -> Seq(Request)]
  BY <1>2, <1>3
<1>9. \A i \in DOMAIN queue[l] : queue[l][i] = r => i = 1
  BY <1>1, <1>3 DEF QueuesOK
<1>10. ASSUME NEW m \in Lock, m # l, NEW i \in DOMAIN queue'[m]
       PROVE  /\ todo'[queue'[m][i]] # <<>>
              /\ Head(todo'[queue'[m][i]]).lock = m
              /\ Head(todo'[queue'[m][i]]).op # "drop"
              /\ \A j \in DOMAIN queue'[m] : queue'[m][j] = queue'[m][i] => i = j
  <2> DEFINE q == queue[m][i]
  <2>1. i \in DOMAIN queue[m] /\ queue'[m] = queue[m] /\ q \in Request
    BY <1>1, <1>8, <1>10 DEF Types
  <2>2. /\ todo[q] # <<>> /\ Head(todo[q]).lock = m /\ Head(todo[q]).op # "drop"
        /\ \A j \in DOMAIN queue[m] : queue[m][j] = q => i = j
    BY <1>1, <2>1 DEF QueuesOK
  <2>3. q # r
    BY <1>4, <1>10, <2>2 DEF s
  <2> QED
    BY <1>7, <2>1, <2>2, <2>3
<1>11. ASSUME NEW i \in DOMAIN rest
       PROVE  /\ todo'[rest[i]] # <<>>
              /\ Head(todo'[rest[i]]).lock = l
              /\ Head(todo'[rest[i]]).op # "drop"
              /\ \A j \in DOMAIN rest : rest[j] = rest[i] => i = j
  <2> DEFINE q == rest[i]
  <2>1. /\ i \in 1 .. n - 1 /\ q = queue[l][i + 1] /\ i + 1 \in DOMAIN queue[l] /\ i + 1 # 1
    <3>1. i \in 1 .. n - 1 /\ n \in Nat
      BY <1>3, <1>11
    <3>2. i + 1 \in 1 .. n /\ i + 1 # 1
      BY <3>1
    <3> QED
      BY <1>3, <3>1, <3>2
  <2>2. /\ todo[q] # <<>> /\ Head(todo[q]).lock = l /\ Head(todo[q]).op # "drop"
        /\ \A j \in DOMAIN queue[l] : queue[l][j] = q => i + 1 = j
    BY <1>1, <2>1 DEF QueuesOK
  <2>3. q \in Request
    BY <1>2, <2>1
  <2>4. q # r
    BY <1>9, <2>1
  <2>5. todo'[q] = todo[q]
    BY <1>7, <2>3, <2>4
  <2>6. ASSUME NEW j \in DOMAIN rest, rest[j] = q
        PROVE  i = j
    <3>1. j \in 1 .. n - 1 /\ n \in Nat /\ DOMAIN queue[l] = 1 .. n /\ rest[j] = queue[l][j + 1]
      BY <1>3, <2>6
    <3>2. j + 1 \in 1 .. n
      BY <3>1
    <3>3. i + 1 = j + 1
      BY <2>2, <2>6, <3>1, <3>2
    <3> QED
      BY <2>1, <3>1, <3>3
  <2> QED
    BY <2>2, <2>5, <2>6
<1>12. QueuesOK'
  BY <1>8, <1>10, <1>11 DEF QueuesOK
<1> QED
  BY <1>5, <1>8, <1>12 DEF LocksInv, Types

\* A guard goes out of scope: the request held it, and holds it no more.
LEMMA DropInv ==
    ASSUME NEW rank, LocksInv(rank), NEW r \in Request, Drop(r)
    PROVE  LocksInv(rank)'
<1> DEFINE s == Head(todo[r])
           k == s.lock
<1>1. Types /\ QueuesOK /\ \A q \in Request : RequestOK(q, rank)
  BY DEF LocksInv
<1>2. /\ todo[r] # <<>> /\ s.op = "drop" /\ todo' = [todo EXCEPT ![r] = Tail(@)]
      /\ todo[r] \in Seq(Step) /\ queue' = queue
      /\ IF writer[k] = r
         THEN writer' = [writer EXCEPT ![k] = Nobody] /\ reads' = reads
         ELSE reads' = [reads EXCEPT ![k][r] = @ - 1] /\ writer' = writer
  BY <1>1 DEF Drop, Types
<1>3. k \in Lock /\ s = todo[r][1] /\ 1 \in DOMAIN todo[r] /\ Tail(todo[r]) \in Seq(Step)
  <2>1. s \in Step
    BY <1>2, TailSteps
  <2>2. s.lock \in Lock
    BY <2>1 DEF Step
  <2>3. s = todo[r][1] /\ 1 \in DOMAIN todo[r] /\ Tail(todo[r]) \in Seq(Step)
    BY <1>2, TailSteps
  <2> QED
    BY <2>2, <2>3
<1> HIDE DEF s, k
<1>4. Holds(r, k)
  <2>1. ~TakenBefore(todo[r], 1)
    BY DEF TakenBefore
  <2>2. ~Takes(todo[r][1])
    BY <1>2, <1>3 DEF Takes
  <2>3. Holds(r, todo[r][1].lock)
    BY <1>1, <1>3, <2>1, <2>2 DEF RequestOK, DropsWhatItHolds
  <2> QED
    BY <1>3, <2>3 DEF k
<1>5. /\ reads \in [Lock -> [Request -> Nat]] /\ writer \in [Lock -> Request \cup {Nobody}]
      /\ todo \in [Request -> Seq(Step)] /\ Nobody # r
      /\ \A l \in Lock : reads[l][r] <= 1 /\ (writer[l] = r => reads[l][r] = 0)
  BY <1>1, NobodyAssumption DEF Types, RequestOK
<1>6. writer[k] # r => reads[k][r] = 1
  <2>1. reads[k][r] \in Nat /\ reads[k][r] <= 1
    BY <1>3, <1>5
  <2> QED
    BY <1>4, <2>1 DEF Holds
<1>7. reads' \in [Lock -> [Request -> Nat]] /\ writer' \in [Lock -> Request \cup {Nobody}]
  <2>1. CASE writer[k] = r
    BY <1>2, <1>3, <1>5, <2>1
  <2>2. CASE writer[k] # r
    <3> DEFINE new == [reads[k] EXCEPT ![r] = @ - 1]
    <3>1. new \in [Request -> Nat]
      BY <1>3, <1>5, <1>6, <2>2
    <3>2. reads' = [reads EXCEPT ![k] = new] /\ writer' = writer
      BY <1>2, <2>2
    <3> HIDE DEF new
    <3> QED
      BY <1>5, <3>1, <3>2
  <2> QED
    BY <2>1, <2>2
<1>8. Types'
  <2>1. todo' \in [Request -> Seq(Step)]
    BY <1>2, <1>3, <1>5
  <2> QED
    BY <1>1, <1>2, <1>7, <2>1 DEF Types
<1>9. QueuesOK'
  <2>1. ASSUME NEW l \in Lock, NEW i \in DOMAIN queue[l]
        PROVE  todo'[queue[l][i]] = todo[queue[l][i]]
    <3>1. queue[l][i] \in Request /\ Head(todo[queue[l][i]]).op # "drop"
      BY <1>1 DEF Types, QueuesOK
    <3>2. queue[l][i] # r
      BY <1>2, <3>1 DEF s
    <3> QED
      BY <1>2, <1>5, <3>1, <3>2
  <2> QED
    BY <1>1, <1>2, <2>1, QueuesStay
<1>10. ASSUME NEW q \in Request, q # r
       PROVE  RequestOK(q, rank)'
  <2>1. todo'[q] = todo[q]
    BY <1>2, <1>5, <1>10
  <2>2. \A l \in Lock : reads'[l][q] = reads[l][q] /\ (writer'[l] = q <=> writer[l] = q)
    <3>1. CASE writer[k] = r
      <4>1. Nobody # q
        BY NobodyAssumption
      <4> QED
        BY <1>2, <1>3, <1>5, <1>10, <3>1, <4>1
    <3>2. CASE writer[k] # r
      <4> DEFINE new == [reads[k] EXCEPT ![r] = @ - 1]
      <4>1. new[q] = reads[k][q]
        BY <1>3, <1>5, <1>10
      <4>2. reads' = [reads EXCEPT ![k] = new] /\ writer' = writer
        BY <1>2, <3>2
      <4> HIDE DEF new
      <4> QED
        BY <1>3, <1>5, <4>1, <4>2
    <3> QED
      BY <3>1, <3>2
  <2> QED
    BY <1>1, <2>1, <2>2, OthersStay
<1>11. ASSUME NEW l \in Lock
       PROVE  /\ Holds(r, l)' <=> Holds(r, l) /\ l # k
              /\ reads'[l][r] <= 1 /\ (writer'[l] = r => reads'[l][r] = 0)
  <2>1. CASE writer[k] = r
    <3>1. writer'[l] = (IF l = k THEN Nobody ELSE writer[l]) /\ reads'[l][r] = reads[l][r]
      BY <1>2, <1>3, <1>5, <2>1
    <3> QED
      BY <1>5, <2>1, <3>1 DEF Holds
  <2>2. CASE writer[k] # r
    <3>1. reads'[l][r] = (IF l = k THEN 0 ELSE reads[l][r]) /\ writer'[l] = writer[l]
      BY <1>2, <1>3, <1>5, <1>6, <2>2
    <3> QED
      BY <1>5, <2>2, <3>1 DEF Holds
  <2> QED
    BY <2>1, <2>2
<1>12. RequestOK(r, rank)'
  <2>1. ~Takes(s) /\ \A l \in Lock : Drops(s, l) <=> l = k
    BY <1>2 DEF Takes, Drops, k
  <2>2. \A l \in Lock : Holds(r, l)' <=>
           (Takes(Head(todo[r])) /\ Head(todo[r]).lock = l)
              \/ (Holds(r, l) /\ ~Drops(Head(todo[r]), l))
    BY <1>11, <2>1 DEF s
  <2> QED
    BY <1>1, <1>2, <1>11, <2>2, StepKeeps
<1> QED
  BY <1>8, <1>9, <1>10, <1>12 DEF LocksInv

-----------------------------------------------------------------------------
\* A queue that a request leaves has the others in their order.
LEMMA LeaveSkips ==
    ASSUME NEW q \in Seq(Request), NEW r, \E i \in DOMAIN q : q[i] = r
    PROVE  \E p \in DOMAIN q :
              /\ q[p] = r
              /\ Leave(q, r) \in Seq(Request)
              /\ DOMAIN Leave(q, r) = 1 .. Len(q) - 1
              /\ \A i \in 1 .. Len(q) - 1 :
                    Leave(q, r)[i] = IF i < p THEN q[i] ELSE q[i + 1]
<1> DEFINE p == CHOOSE i \in DOMAIN q : q[i] = r
           n == Len(q)
           a == SubSeq(q, 1, p - 1)
           b == SubSeq(q, p + 1, n)
<1>1. p \in DOMAIN q /\ q[p] = r
  OBVIOUS
<1>2. Leave(q, r) = a \o b
  BY DEF Leave, RemoveAt
<1> HIDE DEF p
<1>3. n \in Nat /\ DOMAIN q = 1 .. n /\ p \in 1 .. n
  BY <1>1
<1>4. /\ a \in Seq(Request) /\ Len(a) = p - 1
      /\ \A i \in 1 .. p - 1 : a[i] = q[i]
  BY <1>3
<1>5. /\ b \in Seq(Request) /\ Len(b) = n - p
      /\ \A i \in 1 .. n - p : b[i] = q[p + i]
  <2> HIDE DEF n
  <2>1. p + 1 \in Int /\ n \in Int /\ \A i \in p + 1 .. n : q[i] \in Request
    BY <1>3
  <2>2. /\ b \in Seq(Request)
        /\ Len(b) = IF p + 1 <= n THEN n - (p + 1) + 1 ELSE 0
        /\ \A i \in 1 .. n - (p + 1) + 1 : b[i] = q[(p + 1) + i - 1]
    BY <2>1, SubSeqProperties
  <2>3. Len(b) = n - p
    BY <1>3, <2>2
  <2>4. n - (p + 1) + 1 = n - p /\ \A i \in 1 .. n - p : (p + 1) + i - 1 = p + i
    BY <1>3
  <2> QED
    BY <2>2, <2>3, <2>4
<1> HIDE DEF a, b, n
<1>6. /\ a \o b \in Seq(Request) /\ Len(a \o b) = n - 1
      /\ \A i \in 1 .. n - 1 : (a \o b)[i] = IF i <= p - 1 THEN a[i] ELSE b[i - (p - 1)]
  <2>1. /\ a \o b \in Seq(Request) /\ Len(a \o b) = Len(a) + Len(b)
        /\ \A i \in 1 .. Len(a) + Len(b) : (a \o b)[i] = IF i <= Len(a) THEN a[i] ELSE b[i - Len(a)]
    BY <1>4, <1>5, ConcatProperties
  <2>2. Len(a) + Len(b) = n - 1 /\ Len(a) = p - 1
    BY <1>3, <1>4, <1>5
  <2> QED
    BY <2>1, <2>2
<1>7. ASSUME NEW i \in 1 .. n - 1
      PROVE  (a \o b)[i] = IF i < p THEN q[i] ELSE q[i + 1]
  <2>1. CASE i < p
    <3>1. i <= p - 1 /\ i \in 1 .. p - 1
      BY <1>3, <2>1
    <3> QED
      BY <1>4, <1>6, <2>1, <3>1
  <2>2. CASE ~(i < p)
    <3>1. ~(i <= p - 1) /\ i - (p - 1) \in 1 .. n - p /\ p + (i - (p - 1)) = i + 1
      BY <1>3, <2>2
    <3> QED
      BY <1>5, <1>6, <2>2, <3>1
  <2> QED
    BY <2>1, <2>2
<1>8. DOMAIN (a \o b) = 1 .. n - 1
  BY <1>6
<1> QED
  BY <1>1, <1>2, <1>6, <1>7, <1>8 DEF n

\* A request ends early: nobody else notices but those behind it in a queue.
LEMMA CutInv ==
    ASSUME NEW rank, LocksInv(rank), NEW r \in Request, Cut(r)
    PROVE  LocksInv(rank)'
<1>1. Types /\ QueuesOK /\ \A q \in Request : RequestOK(q, rank)
  BY DEF LocksInv
<1>2. /\ todo' = [todo EXCEPT ![r] = <<>>]
      /\ reads' = [l \in Lock |-> [reads[l] EXCEPT ![r] = 0]]
      /\ writer' = [l \in Lock |-> IF writer[l] = r THEN Nobody ELSE writer[l]]
      /\ queue' = [l \in Lock |-> Leave(queue[l], r)]
  BY DEF Cut
<1>3. /\ todo \in [Request -> Seq(Step)] /\ reads \in [Lock -> [Request -> Nat]]
      /\ writer \in [Lock -> Request \cup {Nobody}] /\ queue \in [Lock -> Seq(Request)]
  BY <1>1 DEF Types
<1>4. todo'[r] = <<>> /\ \A q \in Request : q # r => todo'[q] = todo[q]
  BY <1>2, <1>3
<1>5. ASSUME NEW l \in Lock
      PROVE  /\ queue'[l] \in Seq(Request)
             /\ \A i \in DOMAIN queue'[l] :
                  /\ todo'[queue'[l][i]] # <<>>
                  /\ Head(todo'[queue'[l][i]]).lock = l
                  /\ Head(todo'[queue'[l][i]]).op # "drop"
                  /\ \A j \in DOMAIN queue'[l] : queue'[l][j] = queue'[l][i] => i = j
  <2> DEFINE q == queue[l]
             n == Len(q)
             new == queue'[l]
  <2>1. new = Leave(q, r) /\ q \in Seq(Request)
    BY <1>2, <1>3
  <2>2. \A i \in DOMAIN q : /\ todo[q[i]] # <<>>
                            /\ Head(todo[q[i]]).lock = l
                            /\ Head(todo[q[i]]).op # "drop"
                            /\ \A j \in DOMAIN q : q[j] = q[i] => i = j
    BY <1>1 DEF QueuesOK
  <2> HIDE DEF q, new
  <2>3. CASE ~\E i \in DOMAIN q : q[i] = r
    <3>1. new = q
      BY <2>1, <2>3 DEF Leave
    <3>2. \A i \in DOMAIN q : q[i] \in Request /\ q[i] # r
      BY <2>1, <2>3
    <3>3. \A i \in DOMAIN q : todo'[q[i]] = todo[q[i]]
      BY <1>4, <3>2
    <3> QED
      BY <2>1, <2>2, <3>1, <3>3 DEF new
  <2>4. CASE \E i \in DOMAIN q : q[i] = r
    <3>1. PICK p \in DOMAIN q :
             /\ q[p] = r
             /\ new \in Seq(Request)
             /\ DOMAIN new = 1 .. n - 1
             /\ \A i \in 1 .. n - 1 : new[i] = IF i < p THEN q[i] ELSE q[i + 1]
      BY <2>1, <2>4, LeaveSkips
    <3>2. n \in Nat /\ DOMAIN q = 1 .. n /\ p \in 1 .. n
      BY <2>1, <3>1
    <3> HIDE DEF n
    <3> DEFINE from(i) == IF i < p THEN i ELSE i + 1
    <3>3. \A i \in 1 .. n - 1 : from(i) \in DOMAIN q /\ from(i) # p /\ new[i] = q[from(i)]
      BY <3>1, <3>2
    <3>4. \A i, j \in 1 .. n - 1 : from(i) = from(j) => i = j
      BY <3>2
    <3> HIDE DEF from
    <3>5. ASSUME NEW i \in 1 .. n - 1
          PROVE  /\ todo'[new[i]] # <<>>
                 /\ Head(todo'[new[i]]).lock = l
                 /\ Head(todo'[new[i]]).op # "drop"
                 /\ \A j \in 1 .. n - 1 : new[j] = new[i] => i = j
      <4>1. from(i) \in DOMAIN q /\ new[i] = q[from(i)] /\ from(i) # p
        BY <3>3
      <4>2. new[i] # r
        BY <2>2, <3>1, <4>1
      <4>3. new[i] \in Request
        BY <2>1, <4>1
      <4>4. todo'[new[i]] = todo[new[i]]
        BY <1>4, <4>2, <4>3
      <4>5. ASSUME NEW j \in 1 .. n - 1, new[j] = new[i]
            PROVE  i = j
        <5>1. from(j) \in DOMAIN q /\ q[from(j)] = q[from(i)]
          BY <3>3, <4>1, <4>5
        <5>2. from(i) = from(j)
          BY <2>2, <4>1, <5>1
        <5> QED
          BY <3>4, <5>2
      <4> QED
        BY <2>2, <4>1, <4>4, <4>5
    <3> QED
      BY <3>1, <3>5 DEF new
  <2> QED
    BY <2>3, <2>4
<1>6. QueuesOK'
  BY <1>5 DEF QueuesOK
<1>7. Types'
  <2>1. <<>> \in Seq(Step)
    OBVIOUS
  <2>2. todo' \in [Request -> Seq(Step)]
    BY <1>2, <1>3, <2>1
  <2>3. reads' \in [Lock -> [Request -> Nat]] /\ writer' \in [Lock -> Request \cup {Nobody}]
    BY <1>2, <1>3
  <2>4. queue' \in [Lock -> Seq(Request)]
    BY <1>2, <1>5
  <2> QED
    BY <2>2, <2>3, <2>4 DEF Types
<1>8. \A l \in Lock : reads'[l][r] = 0 /\ writer'[l] # r
  BY <1>2, <1>3, NobodyAssumption
<1>9. ASSUME NEW q \in Request, q # r
      PROVE  RequestOK(q, rank)'
  <2>1. \A l \in Lock : reads'[l][q] = reads[l][q] /\ (writer'[l] = q <=> writer[l] = q)
    BY <1>2, <1>3, <1>9, NobodyAssumption
  <2> QED
    BY <1>1, <1>4, <1>9, <2>1, OthersStay
<1>10. RequestOK(r, rank)'
  <2>1. DOMAIN todo'[r] = {}
    BY <1>4
  <2>2. \A l \in Lock : ~Holds(r, l)'
    BY <1>8 DEF Holds
  <2> QED
    BY <1>8, <2>1, <2>2 DEF RequestOK, TakesInOrder, DropsWhatItHolds
<1> QED
  BY <1>6, <1>7, <1>9, <1>10 DEF LocksInv

\* A step that changes nothing.
LEMMA StutterInv == ASSUME NEW rank, LocksInv(rank), UNCHANGED vars PROVE LocksInv(rank)'
<1>1. Types /\ QueuesOK /\ \A q \in Request : RequestOK(q, rank)
  BY DEF LocksInv
<1>2. UNCHANGED <<todo, reads, writer, queue>>
  BY DEF vars
<1>3. Types' /\ QueuesOK'
  BY <1>1, <1>2 DEF Types, QueuesOK
<1>4. \A q \in Request : RequestOK(q, rank)'
  BY <1>1, <1>2, OthersStay
<1> QED
  BY <1>3, <1>4 DEF LocksInv

\* Every step keeps the invariant.
LEMMA NextInv ==
    ASSUME NEW N \in Nat, NEW rank \in [Lock -> 0 .. N],
           \A p \in Program : KeepsOrder(p, rank)
    PROVE  LocksInv(rank) /\ [Next]_vars => LocksInv(rank)'
<1> SUFFICES ASSUME LocksInv(rank), [Next]_vars
             PROVE  LocksInv(rank)'
  OBVIOUS
<1>1. ASSUME NEW r \in Request, NEW p \in Program, Start(r, p)
      PROVE  LocksInv(rank)'
  BY <1>1, StartInv
<1>2. ASSUME NEW r \in Request, Acquire(r)
      PROVE  LocksInv(rank)'
  BY <1>2, AcquireInv
<1>3. ASSUME NEW r \in Request, Drop(r) \/ Cut(r)
      PROVE  LocksInv(rank)'
  BY <1>3, DropInv, CutInv
<1>4. ASSUME NEW l \in Lock, Grant(l)
      PROVE  LocksInv(rank)'
  BY <1>4, GrantInv
<1>5. CASE UNCHANGED vars
  BY <1>5, StutterInv
<1> QED
  BY <1>1, <1>2, <1>3, <1>4, <1>5 DEF Next

-----------------------------------------------------------------------------
\* When the handlers keep to an order of the locks, no requests ever wait for
\* each other in a circle, however many there are and wherever they end
\* (State.cache, key_config, G_LICENSE).
THEOREM OrderedWaitsEnd ==
    ASSUME NEW CONSTANT N \in Nat, NEW CONSTANT rank \in [Lock -> 0 .. N],
           \A p \in Program : KeepsOrder(p, rank)
    PROVE  Spec => []WaitsAreOrdered
<1>1. Init => LocksInv(rank)
  BY InitInv
<1>2. LocksInv(rank) /\ [Next]_vars => LocksInv(rank)'
  BY NextInv
<1>3. LocksInv(rank) => WaitsAreOrdered
  BY NoCircle, InvTypes DEF LocksInv, WaitsAreOrdered
<1> QED
  BY <1>1, <1>2, <1>3, PTL DEF Spec

-----------------------------------------------------------------------------
\* Pinned messages.

\* Where a request may be.
Steps == {"idle", "store", "merge", "tell", "orphan store", "orphan merge"}

Job == [mid : 0 .. MaxMid, content : 0 .. MaxEdits]

\* The two halves of PinTypeOK: of what is sent, ...
SendOK ==
    /\ stored \subseteq Mid
    /\ DOMAIN merged \subseteq stored
    /\ \A m \in DOMAIN merged : merged[m] \in 0 .. edits
    /\ DOMAIN disk.merged \subseteq disk.stored /\ disk.stored \subseteq stored
    /\ \A m \in DOMAIN disk.merged : disk.merged[m] \in 0 .. edits
    /\ edits \in 0 .. MaxEdits
    /\ pc \in [Writer -> Steps]
    /\ job \in [Writer -> Job]
    /\ channel \in Seq(Mid) /\ ToSet(channel) \subseteq stored
    /\ task = NoJob \/ (task.mid \in stored /\ task.content \in Absent .. edits)
    /\ dropped \subseteq Mid
    /\ hangUps \in 0 .. MaxHangUps

\* ... and of what is pinned.
PinsOK ==
    /\ users \subseteq Pinner
    /\ pinRows \subseteq Pin /\ DOMAIN pinned \subseteq Pin
    /\ \A p \in DOMAIN pinned : p.mid \in DOMAIN merged
    /\ shared \subseteq Mid
    /\ torn \subseteq Gid \X Mid
    /\ lost \subseteq Pin

\* What a writer has in hand is stored by the time it is merged, and a writer
\* whose handler is gone is remembered for its message.
JobOK(step, j) ==
    /\ step = "idle" => j = NoJob
    /\ step # "idle" => j.mid \in Mid
    /\ j.content <= edits
    /\ step \in {"merge", "tell", "orphan merge"} => j.mid \in stored
    /\ step \in {"orphan store", "orphan merge"} => j.mid \in dropped

JobsOK == \A w \in Writer : JobOK(pc[w], job[w])

\* The merged copy of m, as the task reads it.
Newest(m) == IF m \in DOMAIN merged THEN merged[m] ELSE Absent

\* The messages that some other work than the task is under way for, or was.
Elsewhere == {job[w].mid : w \in Writer} \cup ToSet(channel) \cup dropped

\* What the task has read is the merged copy still, unless a writer or the
\* channel has the message again.
TaskIsFresh ==
    task # NoJob /\ task.mid \notin Elsewhere => task.content = Newest(task.mid)

OnePin(rows) == \A p, q \in rows : p.gid = q.gid /\ p.mid = q.mid => p = q

\* A group has one pin of a message, in the cache and in the rows, and `shared`
\* has the messages that the task would have to look for further.
PinsOnce ==
    /\ OnePin(DOMAIN pinned) /\ OnePin(pinRows)
    /\ \A p, q \in DOMAIN pinned : p.mid = q.mid /\ p.gid # q.gid => p.mid \in shared

\* A row goes with its user, and one that was passed over stays: its message can
\* be neither pinned nor unpinned in the group.
RowsStay ==
    /\ \A row \in pinRows : row.by \in users
    /\ \A p \in lost : p.by \in users =>
         p \in pinRows /\ \A q \in DOMAIN pinned : q.gid # p.gid \/ q.mid # p.mid

\* PinnedIsMerged alone is not inductive: the task writes what it read earlier,
\* and to one group only.
PinInv ==
    /\ SendOK /\ PinsOK
    /\ JobsOK
    /\ TaskIsFresh
    /\ PinsOnce
    /\ RowsStay
    /\ PinnedIsMerged
    /\ PinsSurviveRestart

-----------------------------------------------------------------------------
\* The queue of the channel.
LEMMA QueueFacts ==
    ASSUME NEW S, NEW q \in Seq(S)
    PROVE  /\ \A x \in S : Append(q, x) \in Seq(S) /\ ToSet(Append(q, x)) = ToSet(q) \cup {x}
           /\ ToSet(q) \subseteq S
           /\ q # <<>> => /\ Head(q) \in S /\ Tail(q) \in Seq(S)
                          /\ ToSet(q) = ToSet(Tail(q)) \cup {Head(q)}
<1>1. ASSUME NEW x \in S PROVE Append(q, x) \in Seq(S) /\ ToSet(Append(q, x)) = ToSet(q) \cup {x}
  <2>1. /\ Append(q, x) \in Seq(S) /\ DOMAIN q = 1 .. Len(q) /\ Len(q) \in Nat
        /\ DOMAIN Append(q, x) = 1 .. Len(q) + 1 /\ Append(q, x)[Len(q) + 1] = x
        /\ \A i \in 1 .. Len(q) : Append(q, x)[i] = q[i]
    OBVIOUS
  <2>2. ToSet(Append(q, x)) \subseteq ToSet(q) \cup {x}
    BY <2>1 DEF ToSet
  <2>3. ToSet(q) \cup {x} \subseteq ToSet(Append(q, x))
    BY <2>1 DEF ToSet
  <2> QED BY <2>1, <2>2, <2>3
<1>2. ToSet(q) \subseteq S
  BY DEF ToSet
<1>3. ASSUME q # <<>>
      PROVE  /\ Head(q) \in S /\ Tail(q) \in Seq(S)
             /\ ToSet(q) = ToSet(Tail(q)) \cup {Head(q)}
  <2>1. /\ Head(q) \in S /\ Tail(q) \in Seq(S) /\ Head(q) = q[1]
        /\ DOMAIN q = 1 .. Len(q) /\ Len(q) \in Nat \ {0}
        /\ DOMAIN Tail(q) = 1 .. Len(q) - 1
        /\ \A i \in 1 .. Len(q) - 1 : Tail(q)[i] = q[i + 1]
    BY <1>3
  <2>2. ToSet(Tail(q)) \cup {Head(q)} \subseteq ToSet(q)
    BY <2>1 DEF ToSet
  <2>3. ASSUME NEW i \in DOMAIN q PROVE q[i] \in ToSet(Tail(q)) \cup {Head(q)}
    <3>1. CASE i = 1
      BY <2>1, <3>1
    <3>2. CASE i # 1
      <4>1. i - 1 \in 1 .. Len(q) - 1 /\ Tail(q)[i - 1] = q[i]
        BY <2>1, <3>2
      <4> QED BY <4>1, <2>1 DEF ToSet
    <3> QED BY <3>1, <3>2
  <2>4. ToSet(q) \subseteq ToSet(Tail(q)) \cup {Head(q)}
    BY <2>3 DEF ToSet
  <2> QED BY <2>1, <2>2, <2>4
<1> QED BY <1>1, <1>2, <1>3

\* An unshared message has one pin, which is the first.
LEMMA FirstIsOnly ==
    ASSUME PinInv, NEW p \in DOMAIN pinned, p.mid \notin shared
    PROVE  FirstPin(p.mid) = {p}
<1>1. \A q \in DOMAIN pinned : q.mid = p.mid => q = p
  BY DEF PinInv, PinsOnce, OnePin
<1>2. p \in Pin /\ MaxGid \in Nat
  BY PinBoundAssumption DEF PinInv, PinsOK
<1>3. p.gid \in Int
  BY <1>2 DEF Pin, Gid
<1> QED BY <1>1, <1>3 DEF FirstPin, Pins

-----------------------------------------------------------------------------
\* A step that leaves the pins alone.
LEMMA PinsRest ==
    ASSUME PinInv, UNCHANGED pinVars, DOMAIN merged \subseteq DOMAIN merged'
    PROVE  PinsOK' /\ PinsOnce' /\ RowsStay' /\ PinsSurviveRestart'
<1>1. pinVars' = pinVars
  OBVIOUS
<1> QED BY <1>1 DEF PinInv, PinsOK, pinVars, PinsOnce, OnePin, RowsStay, PinsSurviveRestart, Whole

\* A step of the pins.
LEMMA SendRests ==
    ASSUME PinInv, UNCHANGED <<sendVars, channel, task, dropped>>, hangUps' \in 0 .. MaxHangUps
    PROVE  SendOK' /\ JobsOK' /\ TaskIsFresh'
BY DEF PinInv, SendOK, sendVars, JobsOK, JobOK, TaskIsFresh, Elsewhere, Newest, NoJob, Job

\* The bounds of the model are numbers.
LEMMA Bounds == MaxMid \in Nat /\ MaxGid \in Nat /\ MaxEdits \in Nat /\ MaxHangUps \in Nat
BY PinBoundAssumption

\* The job of an idle writer.
LEMMA NoJobFacts == NoJob \in Job /\ NoJob.mid = 0 /\ NoJob.content = 0
BY Bounds DEF NoJob, Job

\* What is known of a writer.
LEMMA WriterFacts ==
    ASSUME SendOK, JobsOK, NEW w \in Writer
    PROVE  /\ edits \in Nat /\ edits \in edits .. MaxEdits
           /\ JobOK(pc[w], job[w]) /\ job[w] \in Job /\ pc[w] \in Steps
           /\ job[w].mid \in Int /\ job[w].content \in 0 .. edits
           /\ pc[w] # "idle" => job[w].mid \in Mid
<1>1. edits \in Nat /\ edits <= MaxEdits
  BY Bounds DEF SendOK
<1>2. JobOK(pc[w], job[w]) /\ job[w] \in Job /\ pc[w] \in Steps
  BY DEF SendOK, JobsOK
<1>3. job[w].mid \in Int /\ job[w].content \in Nat
  BY <1>2, Bounds DEF Job
<1>4. job[w].content <= edits /\ (pc[w] # "idle" => job[w].mid \in Mid)
  BY <1>2 DEF JobOK
<1>5. job[w].content \in 0 .. edits
  BY <1>1, <1>3, <1>4
<1> QED BY <1>1, <1>2, <1>3, <1>4, <1>5, Bounds

\* A step of a writer: the others keep their jobs.
LEMMA WriterKeeps ==
    ASSUME SendOK, JobsOK, NEW w \in Writer, NEW step \in Steps, NEW new \in Job,
           pc' = [pc EXCEPT ![w] = step], job' = [job EXCEPT ![w] = new],
           stored \subseteq stored', dropped \subseteq dropped', edits' \in edits .. MaxEdits,
           JobOK(step, new)'
    PROVE  /\ pc' \in [Writer -> Steps] /\ job' \in [Writer -> Job]
           /\ JobsOK'
           /\ job'[w] = new /\ \A v \in Writer \ {w} : job'[v] = job[v]
<1>1. /\ pc' \in [Writer -> Steps] /\ job' \in [Writer -> Job]
      /\ job'[w] = new /\ \A v \in Writer \ {w} : job'[v] = job[v]
      /\ pc'[w] = step /\ \A v \in Writer \ {w} : pc'[v] = pc[v]
  BY DEF SendOK
<1>2. ASSUME NEW v \in Writer PROVE JobOK(pc[v], job[v])'
  <2>1. CASE v = w
    BY <1>1, <2>1 DEF JobOK
  <2>2. CASE v # w
    <3>1. JobOK(pc[v], job[v]) /\ pc'[v] = pc[v] /\ job'[v] = job[v]
      BY <1>1, <2>2 DEF JobsOK
    <3>2. job[v].content \in 0 .. edits /\ edits \in Nat
      BY WriterFacts
    <3>3. job[v].content <= edits'
      BY <3>2, Bounds
      <3> QED BY <3>1, <3>3 DEF JobOK, Mid
  <2> QED BY <2>1, <2>2
<1> QED BY <1>1, <1>2 DEF JobsOK

\* Nothing under way is forgotten, and a merged copy that changes has work under
\* way.
LEMMA NothingLost ==
    ASSUME PinInv, UNCHANGED pinVars, UNCHANGED task,
           Elsewhere \subseteq Elsewhere' \cup {0},
           \A m \in Mid \ Elsewhere' :
               /\ m \in DOMAIN merged' <=> m \in DOMAIN merged
               /\ m \in DOMAIN merged => merged'[m] = merged[m]
    PROVE  TaskIsFresh' /\ PinnedIsMerged'
<1>1. 0 \notin Mid
  BY DEF Mid
<1>2. TaskIsFresh'
  <2>1. CASE task = NoJob
    BY <2>1 DEF TaskIsFresh
  <2>2. CASE task # NoJob
    <3>1. task.mid \in Mid
      BY <2>2 DEF PinInv, SendOK
    <3> QED BY <1>1, <3>1 DEF PinInv, TaskIsFresh, Newest
  <2> QED BY <2>1, <2>2
<1>3. ASSUME NEW p \in DOMAIN pinned, p.mid \notin (Pending \cup dropped \cup shared)'
      PROVE  pinned[p] = merged'[p.mid]
  <2>1. p.mid \in Mid /\ p.mid \in DOMAIN merged
    BY DEF PinInv, PinsOK, SendOK
  <2>2. p.mid \notin Elsewhere' /\ p.mid \notin Elsewhere \cup {task.mid}
    BY <1>1, <1>3, <2>1 DEF Pending, Elsewhere
  <2>3. p.mid \notin Pending \cup dropped \cup shared
    BY <1>3, <2>2 DEF Pending, Elsewhere, pinVars
  <2> QED BY <2>1, <2>2, <2>3 DEF PinInv, PinnedIsMerged
<1>4. PinnedIsMerged'
  BY <1>3 DEF PinnedIsMerged, pinVars
<1> QED BY <1>2, <1>4

-----------------------------------------------------------------------------
\* send_message of a new message: it is under way, and nothing else changes.
LEMMA BeginSendKeeps ==
    ASSUME PinInv, NEW w \in Writer, BeginSend(w)
    PROVE  PinInv'
<1>1. PICK m \in Mid :
        /\ pc[w] = "idle" /\ \A x \in stored : x < m /\ \A v \in Writer : job[v].mid < m
        /\ job' = [job EXCEPT ![w] = [mid |-> m, content |-> 0]]
        /\ pc' = [pc EXCEPT ![w] = "store"]
        /\ UNCHANGED <<stored, merged, disk, edits, channel, task, pinVars, dropped, hangUps>>
  BY DEF BeginSend
<1> DEFINE new == [mid |-> m, content |-> 0]
<1>2. /\ UNCHANGED pinVars /\ UNCHANGED task /\ UNCHANGED merged
      /\ job[w] = NoJob /\ edits \in 0 .. MaxEdits
  BY <1>1 DEF PinInv, JobsOK, JobOK, SendOK
<1>9. new \in Job /\ new.mid = m /\ new.content = 0
  BY PinBoundAssumption DEF Job, Mid
<1>3. JobOK("store", new)'
  BY <1>1, <1>2, <1>9, PinBoundAssumption DEF JobOK
<1> HIDE DEF new
<1>4. /\ pc' \in [Writer -> Steps] /\ job' \in [Writer -> Job] /\ JobsOK'
      /\ job'[w] = new /\ \A v \in Writer \ {w} : job'[v] = job[v]
  <2>1. job' = [job EXCEPT ![w] = new]
    BY <1>1 DEF new
  <2>2. edits' \in edits .. MaxEdits /\ stored' = stored /\ dropped' = dropped /\ "store" \in Steps
    BY <1>1, <1>2, PinBoundAssumption DEF Steps
  <2> QED BY <1>1, <1>3, <1>9, <2>1, <2>2, WriterKeeps DEF PinInv
<1>5. SendOK'
  BY <1>1, <1>4 DEF PinInv, SendOK
<1>6. Elsewhere \subseteq Elsewhere' \cup {0}
  BY <1>1, <1>2, <1>4 DEF Elsewhere, NoJob
<1>7. TaskIsFresh' /\ PinnedIsMerged'
  BY <1>2, <1>6, NothingLost
<1> QED BY <1>2, <1>4, <1>5, <1>7, PinsRest DEF PinInv

\* Of BeginEdit, one more edit.
LEMMA BeginEditKeeps ==
    ASSUME PinInv, NEW w \in Writer, NEW m \in stored, BeginEdit(w, m)
    PROVE  PinInv'
<1>1. PICK new : new = [mid |-> m, content |-> edits + 1]
  OBVIOUS
<1>2. /\ pc[w] = "idle" /\ edits < MaxEdits /\ edits' = edits + 1
      /\ job' = [job EXCEPT ![w] = new]
      /\ pc' = [pc EXCEPT ![w] = "merge"]
      /\ UNCHANGED <<stored, merged, disk, channel, task, pinVars, dropped, hangUps>>
  BY <1>1 DEF BeginEdit
<1>3. /\ UNCHANGED pinVars /\ UNCHANGED task /\ UNCHANGED merged /\ m \in Mid
      /\ job[w] = NoJob /\ edits \in Nat /\ edits' \in edits .. MaxEdits
  <2>1. JobOK(pc[w], job[w]) /\ edits \in Nat
    BY WriterFacts DEF PinInv
  <2> QED BY <1>2, <2>1, Bounds DEF PinInv, JobOK, SendOK
<1>4. new \in Job /\ new.mid = m /\ new.content = edits'
  BY <1>1, <1>2, <1>3, Bounds DEF Job, Mid
<1>5. JobOK("merge", new)'
  BY <1>2, <1>3, <1>4, Bounds DEF JobOK
<1>6. /\ pc' \in [Writer -> Steps] /\ job' \in [Writer -> Job] /\ JobsOK'
      /\ job'[w] = new /\ \A v \in Writer \ {w} : job'[v] = job[v]
  <2>1. stored \subseteq stored' /\ dropped \subseteq dropped' /\ "merge" \in Steps
    BY <1>2 DEF Steps
  <2> QED BY <1>2, <1>3, <1>4, <1>5, <2>1, WriterKeeps DEF PinInv
<1>7. SendOK'
  BY <1>2, <1>3, <1>6, Bounds DEF PinInv, SendOK, Absent
<1>8. Elsewhere \subseteq Elsewhere' \cup {0}
  BY <1>2, <1>3, <1>6 DEF Elsewhere, NoJob
<1>9. TaskIsFresh' /\ PinnedIsMerged'
  BY <1>3, <1>8, NothingLost
<1> QED BY <1>3, <1>6, <1>7, <1>9, PinsRest DEF PinInv

\* internal_send_message, the batch: the message is stored before it is merged.
LEMMA StoreKeeps ==
    ASSUME PinInv, NEW w \in Writer, Store(w)
    PROVE  PinInv'
<1>1. PICK step, new : step = (IF pc[w] = "store" THEN "merge" ELSE "orphan merge") /\ new = job[w]
  OBVIOUS
<1>2. /\ pc[w] \in {"store", "orphan store"} /\ stored' = stored \cup {job[w].mid}
      /\ pc' = [pc EXCEPT ![w] = step]
      /\ UNCHANGED <<merged, disk, job, edits, channel, task, pinVars, dropped, hangUps>>
  BY <1>1 DEF Store
<1>3. /\ UNCHANGED pinVars /\ UNCHANGED task /\ UNCHANGED merged /\ step \in Steps
      /\ new \in Job /\ new.mid \in Mid /\ job' = [job EXCEPT ![w] = new]
      /\ edits' \in edits .. MaxEdits
  BY <1>1, <1>2, WriterFacts DEF PinInv, SendOK, Steps
<1>4. JobOK(step, new)'
  BY <1>1, <1>2, <1>3, WriterFacts DEF PinInv, JobOK
<1>5. /\ pc' \in [Writer -> Steps] /\ job' \in [Writer -> Job] /\ JobsOK'
      /\ job'[w] = new /\ \A v \in Writer \ {w} : job'[v] = job[v]
  <2>1. stored \subseteq stored' /\ dropped \subseteq dropped'
    BY <1>2
  <2> QED BY <1>2, <1>3, <1>4, <2>1, WriterKeeps DEF PinInv
<1>6. SendOK'
  BY <1>1, <1>2, <1>3, <1>5 DEF PinInv, SendOK
<1>7. Elsewhere' = Elsewhere
  BY <1>2 DEF Elsewhere
<1>8. TaskIsFresh' /\ PinnedIsMerged'
  BY <1>3, <1>7, NothingLost
<1> QED BY <1>3, <1>5, <1>6, <1>8, PinsRest DEF PinInv

\* Of Merge: the copy that changes has its writer at the channel next, or is of
\* a message whose writer hung up.
LEMMA MergeKeeps ==
    ASSUME PinInv, NEW w \in Writer, Merge(w)
    PROVE  PinInv'
<1>1. PICK step, new, m, n :
        /\ step = (IF pc[w] = "merge" THEN "tell" ELSE "idle")
        /\ new = (IF pc[w] = "merge" THEN job[w] ELSE NoJob)
        /\ m = job[w].mid /\ n = job[w].content
  OBVIOUS
<1>2. /\ pc[w] \in {"merge", "orphan merge"}
      /\ merged' = (IF n = 0 \/ m \in DOMAIN merged THEN Put(merged, m, n) ELSE merged)
      /\ pc' = [pc EXCEPT ![w] = step] /\ job' = [job EXCEPT ![w] = new]
      /\ UNCHANGED <<stored, disk, edits, channel, task, pinVars, dropped, hangUps>>
  BY <1>1 DEF Merge
<1>3. /\ UNCHANGED pinVars /\ UNCHANGED task /\ step \in Steps /\ new \in Job
      /\ edits \in Nat /\ edits' \in edits .. MaxEdits
  BY <1>1, <1>2, WriterFacts, NoJobFacts DEF PinInv, Steps
<1>4. /\ m \in Mid /\ m \in stored /\ n \in 0 .. edits
      /\ pc[w] = "orphan merge" => m \in dropped
  BY <1>1, <1>2, WriterFacts DEF PinInv, JobOK
<1>5. JobOK(step, new)'
  <2>1. JobOK(pc[w], job[w]) /\ job[w].content <= edits
    BY WriterFacts DEF PinInv, JobOK
  <2>2. CASE pc[w] = "merge"
    BY <1>1, <1>2, <1>4, <2>1, <2>2 DEF JobOK
  <2>3. CASE pc[w] = "orphan merge"
    <3>1. step = "idle" /\ new = NoJob /\ edits' = edits
      BY <1>1, <1>2, <2>3
    <3> QED BY <1>3, <3>1, NoJobFacts DEF JobOK
  <2> QED BY <1>2, <2>2, <2>3
<1>6. new.mid = m \/ m \in dropped
  BY <1>1, <1>2, <1>4
<1>7. /\ DOMAIN merged \subseteq DOMAIN merged' /\ DOMAIN merged' \subseteq DOMAIN merged \cup {m}
      /\ \A x \in DOMAIN merged \ {m} : merged'[x] = merged[x]
      /\ m \in DOMAIN merged' => merged'[m] = n
  <2>1. CASE n = 0 \/ m \in DOMAIN merged
    <3>1. merged' = Put(merged, m, n)
      BY <1>2, <2>1
    <3>2. /\ DOMAIN Put(merged, m, n) = DOMAIN merged \cup {m} /\ Put(merged, m, n)[m] = n
          /\ \A x \in DOMAIN merged \ {m} : Put(merged, m, n)[x] = merged[x]
      BY DEF Put
    <3> QED BY <3>1, <3>2
  <2>2. CASE ~(n = 0 \/ m \in DOMAIN merged)
    BY <1>2, <2>2
  <2> QED BY <2>1, <2>2
<1>8. /\ pc' \in [Writer -> Steps] /\ job' \in [Writer -> Job] /\ JobsOK'
      /\ job'[w] = new /\ \A v \in Writer \ {w} : job'[v] = job[v]
  <2>1. stored \subseteq stored' /\ dropped \subseteq dropped'
    BY <1>2
  <2> QED BY <1>2, <1>3, <1>5, <2>1, WriterKeeps DEF PinInv
<1>9. SendOK'
  <2>1. \A x \in DOMAIN merged' : merged'[x] \in 0 .. edits
    BY <1>4, <1>7 DEF PinInv, SendOK
  <2>2. DOMAIN merged' \subseteq stored
    BY <1>4, <1>7 DEF PinInv, SendOK
  <2> QED BY <1>2, <1>8, <2>1, <2>2 DEF PinInv, SendOK
<1>10. m \in Elsewhere'
  BY <1>2, <1>6, <1>8 DEF Elsewhere
<1>11. Elsewhere \subseteq Elsewhere' \cup {0}
  BY <1>1, <1>2, <1>8, <1>10 DEF Elsewhere
<1>12. TaskIsFresh' /\ PinnedIsMerged'
  BY <1>3, <1>7, <1>10, <1>11, NothingLost
<1> QED BY <1>3, <1>7, <1>8, <1>9, <1>12, PinsRest DEF PinInv

\* Of Tell, the message goes from the writer to the channel.
LEMMA TellKeeps ==
    ASSUME PinInv, NEW w \in Writer, Tell(w)
    PROVE  PinInv'
<1>1. /\ pc[w] = "tell" /\ channel' = Append(channel, job[w].mid)
      /\ pc' = [pc EXCEPT ![w] = "idle"] /\ job' = [job EXCEPT ![w] = NoJob]
      /\ UNCHANGED <<stored, merged, disk, edits, task, pinVars, dropped, hangUps>>
  BY DEF Tell
<1>2. /\ UNCHANGED pinVars /\ UNCHANGED task /\ UNCHANGED merged /\ "idle" \in Steps
      /\ edits \in Nat /\ edits' \in edits .. MaxEdits
      /\ job[w].mid \in Mid /\ job[w].mid \in stored
  BY <1>1, WriterFacts DEF PinInv, Steps, JobOK
<1>4. JobOK("idle", NoJob)'
  BY <1>1, <1>2, NoJobFacts DEF JobOK
<1>5. /\ pc' \in [Writer -> Steps] /\ job' \in [Writer -> Job] /\ JobsOK'
      /\ job'[w] = NoJob /\ \A v \in Writer \ {w} : job'[v] = job[v]
  <2>1. stored \subseteq stored' /\ dropped \subseteq dropped'
    BY <1>1
  <2> QED BY <1>1, <1>2, <1>4, <2>1, NoJobFacts, WriterKeeps DEF PinInv
<1>6. channel' \in Seq(Mid) /\ ToSet(channel') = ToSet(channel) \cup {job[w].mid}
  BY <1>1, <1>2, QueueFacts DEF PinInv, SendOK
<1>7. SendOK'
  BY <1>1, <1>2, <1>5, <1>6 DEF PinInv, SendOK
<1>8. Elsewhere \subseteq Elsewhere' \cup {0}
  BY <1>1, <1>5, <1>6 DEF Elsewhere
<1>9. TaskIsFresh' /\ PinnedIsMerged'
  BY <1>2, <1>8, NothingLost
<1> QED BY <1>2, <1>5, <1>7, <1>9, PinsRest DEF PinInv

\* A handler is dropped: what it had in hand is remembered as dropped.
LEMMA HangUpKeeps ==
    ASSUME PinInv, NEW w \in Writer, HangUp(w)
    PROVE  PinInv'
<1>1. PICK step, new :
        /\ step = (IF pc[w] = "tell" THEN "idle"
                   ELSE IF pc[w] = "store" THEN "orphan store" ELSE "orphan merge")
        /\ new = (IF pc[w] = "tell" THEN NoJob ELSE job[w])
  OBVIOUS
<1>2. /\ pc[w] \in {"store", "merge", "tell"} /\ hangUps < MaxHangUps /\ hangUps' = hangUps + 1
      /\ dropped' = dropped \cup {job[w].mid}
      /\ pc' = [pc EXCEPT ![w] = step] /\ job' = [job EXCEPT ![w] = new]
      /\ UNCHANGED <<stored, merged, disk, edits, channel, task, pinVars>>
  BY <1>1 DEF HangUp, PinInv, SendOK
<1>3. /\ UNCHANGED pinVars /\ UNCHANGED task /\ UNCHANGED merged /\ step \in Steps /\ new \in Job
      /\ edits \in Nat /\ edits' \in edits .. MaxEdits
  BY <1>1, <1>2, WriterFacts, NoJobFacts DEF PinInv, Steps
<1>4. hangUps' \in 0 .. MaxHangUps /\ job[w].mid \in Mid
  BY <1>2, Bounds, WriterFacts DEF PinInv, SendOK
<1>5. JobOK(step, new)'
  <2>1. JobOK(pc[w], job[w]) /\ job[w].content <= edits
    BY WriterFacts DEF PinInv, JobOK
  <2>2. CASE pc[w] = "tell"
    BY <1>1, <1>2, <1>3, <2>2, NoJobFacts DEF JobOK
  <2>3. CASE pc[w] # "tell"
    <3>1. /\ new = job[w] /\ step \in {"orphan store", "orphan merge"}
          /\ step = "orphan merge" => pc[w] = "merge"
      BY <1>1, <1>2, <2>3
    <3> QED BY <1>2, <1>4, <2>1, <3>1 DEF JobOK
  <2> QED BY <2>2, <2>3
<1>6. /\ pc' \in [Writer -> Steps] /\ job' \in [Writer -> Job] /\ JobsOK'
      /\ job'[w] = new /\ \A v \in Writer \ {w} : job'[v] = job[v]
  <2>1. stored \subseteq stored' /\ dropped \subseteq dropped'
    BY <1>2
  <2> QED BY <1>2, <1>3, <1>5, <2>1, WriterKeeps DEF PinInv
<1>7. SendOK'
  BY <1>2, <1>3, <1>4, <1>6 DEF PinInv, SendOK
<1>8. Elsewhere \subseteq Elsewhere' \cup {0}
  BY <1>2, <1>6 DEF Elsewhere
<1>9. TaskIsFresh' /\ PinnedIsMerged'
  BY <1>3, <1>8, NothingLost
<1> QED BY <1>3, <1>6, <1>7, <1>9, PinsRest DEF PinInv

-----------------------------------------------------------------------------
\* A step of the pins that leaves the copies alone, or is cut short, keeps
\* what is known of the copies.
LEMMA CopiesKeep ==
    ASSUME PinInv, UNCHANGED <<sendVars, channel, task, dropped>>,
           shared \subseteq shared',
           \A p \in DOMAIN pinned' : p \in DOMAIN pinned => pinned'[p] = pinned[p],
           \A p \in DOMAIN pinned' \ DOMAIN pinned : pinned'[p] = merged[p.mid]
    PROVE  PinnedIsMerged'
<1>1. ASSUME NEW p \in DOMAIN pinned', p.mid \notin (Pending \cup dropped \cup shared)'
      PROVE  pinned'[p] = merged'[p.mid]
  <2>1. merged' = merged /\ p.mid \notin Pending \cup dropped \cup shared
    BY <1>1 DEF sendVars, Pending
  <2> QED BY <2>1 DEF PinInv, PinnedIsMerged
<1> QED BY <1>1 DEF PinnedIsMerged

\* pin_message: the copy is the merged one, the group had no pin of the message.
LEMMA PinMessageKeeps ==
    ASSUME PinInv, NEW u \in Pinner, NEW g \in Gid, NEW m \in Mid, PinMessage(u, g, m)
    PROVE  PinInv'
<1>1. PICK p, copies : p = [gid |-> g, mid |-> m, by |-> u] /\ copies = Put(pinned, p, merged[m])
  OBVIOUS
<1>2. /\ u \in users /\ PinnedIn(g, m) = {} /\ m \in DOMAIN merged
      /\ ~\E row \in pinRows : row.gid = g /\ row.mid = m
      /\ pinRows' = pinRows \cup {p}
      /\ shared' = shared \cup TwoPins(DOMAIN pinned')
      /\ UNCHANGED <<sendVars, channel, task, users, lost, dropped>>
      /\ \/ pinned' = copies /\ UNCHANGED <<torn, hangUps>>
         \/ /\ hangUps < MaxHangUps /\ hangUps' = hangUps + 1
            /\ torn' = torn \cup {<<g, m>>} /\ pinned' = pinned
  BY <1>1 DEF PinMessage, AfterCommit
<1>3. /\ p \in Pin /\ p.gid = g /\ p.mid = m /\ p.by = u /\ merged' = merged
      /\ p \notin DOMAIN pinned
  BY <1>1, <1>2 DEF Pin, PinnedIn, sendVars
<1>4. hangUps' \in 0 .. MaxHangUps
  BY <1>2, Bounds DEF PinInv, SendOK
<1>5. SendOK' /\ JobsOK' /\ TaskIsFresh'
  BY <1>2, <1>4, SendRests
<1>6. /\ DOMAIN copies = DOMAIN pinned \cup {p} /\ copies[p] = merged[m]
      /\ \A q \in DOMAIN pinned : copies[q] = pinned[q]
  <2>1. /\ DOMAIN Put(pinned, p, merged[m]) = DOMAIN pinned \cup {p}
        /\ Put(pinned, p, merged[m])[p] = merged[m]
        /\ \A x \in DOMAIN pinned \ {p} : Put(pinned, p, merged[m])[x] = pinned[x]
    BY DEF Put
  <2> QED BY <1>1, <1>3, <2>1
<1>7. /\ DOMAIN pinned' \subseteq DOMAIN pinned \cup {p}
      /\ \A q \in DOMAIN pinned' : q \in DOMAIN pinned => pinned'[q] = pinned[q]
      /\ \A q \in DOMAIN pinned' \ DOMAIN pinned : pinned'[q] = merged[q.mid]
  BY <1>2, <1>3, <1>6
<1>8. PinsOK'
  <2>1. TwoPins(DOMAIN pinned') \subseteq Mid
    BY <1>3, <1>7 DEF TwoPins, PinInv, PinsOK, Pin
  <2>2. torn' \subseteq Gid \X Mid
    BY <1>2 DEF PinInv, PinsOK
  <2> QED BY <1>2, <1>3, <1>7, <2>1, <2>2 DEF PinInv, PinsOK
<1>9. PinsOnce'
  <2>1. \A q \in DOMAIN pinned \cup pinRows : ~(q.gid = p.gid /\ q.mid = p.mid)
    BY <1>2, <1>3 DEF PinnedIn
  <2>2. OnePin(DOMAIN pinned') /\ OnePin(pinRows')
    BY <1>2, <1>7, <2>1 DEF OnePin, PinInv, PinsOnce
  <2>3. \A q, r \in DOMAIN pinned' : q.mid = r.mid /\ q.gid # r.gid => q.mid \in shared'
    BY <1>2 DEF TwoPins
  <2> QED BY <2>2, <2>3 DEF PinsOnce
<1>10. RowsStay'
  BY <1>2, <1>3, <1>7 DEF PinInv, RowsStay
<1>11. PinnedIsMerged'
  BY <1>2, <1>7, CopiesKeep
<1>12. PinsSurviveRestart'
  <2>1. p \notin lost /\ p \notin pinRows
    BY <1>2, <1>3 DEF PinInv, RowsStay
  <2>2. Whole(pinRows \ lost) = Whole({q \in DOMAIN pinned : q.by \in users})
    BY DEF PinInv, PinsSurviveRestart
  <2>3. CASE pinned' = copies /\ UNCHANGED <<torn, hangUps>>
    BY <1>2, <1>3, <1>6, <2>1, <2>2, <2>3 DEF PinsSurviveRestart, Whole
  <2>4. CASE torn' = torn \cup {<<g, m>>} /\ pinned' = pinned
    BY <1>2, <1>3, <2>2, <2>4 DEF PinsSurviveRestart, Whole
  <2> QED BY <1>2, <2>3, <2>4
<1> QED BY <1>5, <1>8, <1>9, <1>10, <1>11, <1>12 DEF PinInv

\* unpin_message: row and copy go together, or the handler was cut.
LEMMA UnpinMessageKeeps ==
    ASSUME PinInv, NEW g \in Gid, NEW m \in Mid, UnpinMessage(g, m)
    PROVE  PinInv'
<1>1. PICK kept : kept = DOMAIN pinned \ PinnedIn(g, m)
  OBVIOUS
<1>2. /\ pinRows' = {row \in pinRows : row.gid # g \/ row.mid # m}
      /\ UNCHANGED <<sendVars, channel, task, users, shared, lost, dropped>>
      /\ \/ pinned' = [p \in kept |-> pinned[p]] /\ UNCHANGED <<torn, hangUps>>
         \/ /\ hangUps < MaxHangUps /\ hangUps' = hangUps + 1
            /\ torn' = torn \cup {<<g, m>>} /\ pinned' = pinned
      /\ PinnedIn(g, m) # {}
  BY <1>1 DEF UnpinMessage, AfterCommit
<1>3. kept = {p \in DOMAIN pinned : p.gid # g \/ p.mid # m}
  BY <1>1 DEF PinnedIn
<1>4. hangUps' \in 0 .. MaxHangUps /\ merged' = merged /\ torn' \subseteq Gid \X Mid
  <2>1. hangUps' \in 0 .. MaxHangUps
    BY <1>2, Bounds DEF PinInv, SendOK
  <2> QED BY <1>2, <2>1 DEF PinInv, PinsOK, sendVars
<1>5. SendOK' /\ JobsOK' /\ TaskIsFresh'
  BY <1>2, <1>4, SendRests
<1>6. /\ DOMAIN pinned' \subseteq DOMAIN pinned
      /\ \A q \in DOMAIN pinned' : pinned'[q] = pinned[q]
  BY <1>2, <1>3
<1>7. PinsOK' /\ PinsOnce'
  BY <1>2, <1>4, <1>6 DEF PinInv, PinsOK, PinsOnce, OnePin
<1>8. RowsStay'
  <2>1. PICK q \in DOMAIN pinned : q.gid = g /\ q.mid = m
    BY <1>2 DEF PinnedIn
  <2> QED BY <1>2, <1>6, <2>1 DEF PinInv, RowsStay
<1>9. PinnedIsMerged'
  BY <1>2, <1>6, CopiesKeep
<1>10. PinsSurviveRestart'
  <2>1. Whole(pinRows \ lost) = Whole({q \in DOMAIN pinned : q.by \in users})
    BY DEF PinInv, PinsSurviveRestart
  <2>2. CASE pinned' = [p \in kept |-> pinned[p]] /\ UNCHANGED <<torn, hangUps>>
    BY <1>2, <1>3, <2>1, <2>2 DEF PinsSurviveRestart, Whole
  <2>3. CASE torn' = torn \cup {<<g, m>>} /\ pinned' = pinned
    BY <1>2, <2>1, <2>3 DEF PinsSurviveRestart, Whole
  <2> QED BY <1>2, <2>2, <2>3
<1> QED BY <1>5, <1>7, <1>9, <1>10, <1>8 DEF PinInv

\* delete_user: the rows of the user's pins go, and the user with them.
LEMMA DeletePinnerKeeps ==
    ASSUME PinInv, NEW u \in Pinner, DeletePinner(u)
    PROVE  PinInv'
<1>1. /\ users' = users \ {u} /\ pinRows' = {row \in pinRows : row.by # u}
      /\ UNCHANGED <<sendVars, channel, task, pinned, shared, torn, lost, dropped, hangUps>>
  BY DEF DeletePinner
<1>2. hangUps' \in 0 .. MaxHangUps /\ merged' = merged
  BY <1>1 DEF PinInv, SendOK, sendVars
<1>3. SendOK' /\ JobsOK' /\ TaskIsFresh'
  BY <1>1, <1>2, SendRests
<1>4. PinsOK' /\ PinsOnce' /\ RowsStay'
  BY <1>1, <1>2 DEF PinInv, PinsOK, PinsOnce, OnePin, RowsStay
<1>5. PinnedIsMerged'
  BY <1>1, CopiesKeep
<1>6. PinsSurviveRestart'
  BY <1>1 DEF PinInv, PinsSurviveRestart, Whole
<1> QED BY <1>3, <1>4, <1>5, <1>6 DEF PinInv

-----------------------------------------------------------------------------
\* process_msg_updated takes a message from the channel: it is the task's now.
LEMMA ReceiveKeeps ==
    ASSUME PinInv, Receive
    PROVE  PinInv'
<1>1. PICK m : m = Head(channel)
  OBVIOUS
<1>2. /\ task = NoJob /\ channel # <<>> /\ channel' = Tail(channel)
      /\ task' = [mid |-> m, content |-> IF m \in DOMAIN merged THEN merged[m] ELSE Absent]
      /\ UNCHANGED <<sendVars, pinVars, dropped, hangUps>>
  BY <1>1 DEF Receive
<1>3. /\ m \in Mid /\ channel' \in Seq(Mid) /\ ToSet(channel) = ToSet(channel') \cup {m}
  BY <1>1, <1>2, QueueFacts DEF PinInv, SendOK
<1>4. task'.mid = m /\ task'.content = Newest(m)
  BY <1>2 DEF Newest
<1>5. /\ stored' = stored /\ merged' = merged /\ pc' = pc /\ job' = job /\ edits' = edits
      /\ disk' = disk /\ UNCHANGED pinVars
  BY <1>2 DEF sendVars
<1>6. SendOK'
  <2>1. m \in stored
    BY <1>3 DEF PinInv, SendOK
  <2>2. Newest(m) \in Absent .. edits
    BY DEF PinInv, SendOK, Newest, Absent
  <2> QED BY <1>2, <1>3, <1>4, <1>5, <2>1, <2>2 DEF PinInv, SendOK
<1>7. JobsOK'
  BY <1>2, <1>5 DEF PinInv, JobsOK, JobOK
<1>8. TaskIsFresh'
  BY <1>4, <1>5 DEF TaskIsFresh, Newest
<1>9. PinnedIsMerged'
  <2>1. Pending \subseteq Pending' \cup {0}
    BY <1>2, <1>3, <1>4, <1>5 DEF Pending, NoJob
  <2>2. \A p \in DOMAIN pinned : p.mid # 0
    BY DEF PinInv, PinsOK, SendOK, Mid
  <2> QED BY <1>2, <1>5, <2>1, <2>2 DEF PinInv, PinnedIsMerged, pinVars
<1> QED BY <1>5, <1>6, <1>7, <1>8, <1>9, PinsRest DEF PinInv

\* Of Apply: for an unshared message the first pin is the only one, and what the
\* task has read is current or the message has more work under way.
LEMMA ApplyKeeps ==
    ASSUME PinInv, Apply
    PROVE  PinInv'
<1>1. PICK m, first : m = task.mid /\ first = FirstPin(task.mid)
  OBVIOUS
<1>2. /\ task # NoJob /\ task' = NoJob
      /\ UNCHANGED <<sendVars, channel, users, shared, torn, lost, dropped, hangUps>>
  BY DEF Apply
<1>3. /\ stored' = stored /\ merged' = merged /\ pc' = pc /\ job' = job /\ edits' = edits
      /\ disk' = disk
  BY <1>2 DEF sendVars
<1>4. /\ first \subseteq DOMAIN pinned
      /\ \A p \in first : p.mid = m
      /\ \A p, q \in DOMAIN pinned : p \in first /\ q.gid = p.gid /\ q.mid = p.mid => q \in first
      /\ \A p \in DOMAIN pinned : p.mid = m /\ m \notin shared => p \in first
  BY <1>1, FirstIsOnly DEF FirstPin, Pins
<1>5. \/ /\ task.content # Absent /\ pinRows' = pinRows
         /\ pinned' = [p \in DOMAIN pinned |-> IF p \in first THEN task.content ELSE pinned[p]]
      \/ /\ task.content = Absent
         /\ pinned' = [p \in DOMAIN pinned \ first |-> pinned[p]]
         /\ pinRows' = {row \in pinRows : \A p \in first : row.gid # p.gid \/ row.mid # p.mid}
  BY <1>1 DEF Apply
<1>6. /\ DOMAIN pinned' \subseteq DOMAIN pinned /\ pinRows' \subseteq pinRows
      /\ \A p \in DOMAIN pinned' : p.mid # m => pinned'[p] = pinned[p]
      /\ \A p \in DOMAIN pinned' : p.mid = m /\ m \notin shared =>
            task.content # Absent /\ pinned'[p] = task.content
  BY <1>4, <1>5
<1>7. SendOK' /\ JobsOK'
  BY <1>2, <1>3 DEF PinInv, SendOK, JobsOK, JobOK
<1>8. PinsOK' /\ PinsOnce' /\ TaskIsFresh'
  BY <1>2, <1>3, <1>6 DEF PinInv, PinsOK, PinsOnce, OnePin, TaskIsFresh
<1>9. RowsStay'
  <2>1. \A p \in lost : p.by \in users => p \in pinRows'
    BY <1>4, <1>5 DEF PinInv, RowsStay
  <2> QED BY <1>2, <1>6, <2>1 DEF PinInv, RowsStay
<1>10. ASSUME NEW p \in DOMAIN pinned', p.mid \notin (Pending \cup dropped \cup shared)'
      PROVE  pinned'[p] = merged'[p.mid]
  <2>1. p \in DOMAIN pinned /\ p.mid \in DOMAIN merged
    BY <1>6 DEF PinInv, PinsOK
  <2>2. p.mid \notin Elsewhere \cup shared
    BY <1>2, <1>3, <1>10 DEF Pending, Elsewhere
  <2>3. CASE p.mid = m
    <3>1. task.content = Newest(m)
      BY <1>1, <1>2, <2>2, <2>3 DEF PinInv, TaskIsFresh
    <3> QED BY <1>3, <1>6, <2>1, <2>2, <2>3, <3>1 DEF Newest
  <2>4. CASE p.mid # m
    <3>1. p.mid \notin Pending \cup dropped \cup shared
      BY <1>1, <2>2, <2>4 DEF Pending, Elsewhere
    <3> QED BY <1>3, <1>6, <2>1, <2>4, <3>1 DEF PinInv, PinnedIsMerged
  <2> QED BY <2>3, <2>4
<1>11. PinnedIsMerged'
  BY <1>10 DEF PinnedIsMerged
<1>12. PinsSurviveRestart'
  <2>1. CASE task.content # Absent
    BY <1>2, <1>5, <2>1 DEF PinInv, PinsSurviveRestart, Whole
  <2>2. CASE task.content = Absent
    <3>1. Whole(pinRows \ lost) = Whole({q \in DOMAIN pinned : q.by \in users})
      BY DEF PinInv, PinsSurviveRestart
    <3>2. Whole(pinRows' \ lost) = Whole({q \in DOMAIN pinned' : q.by \in users})
      BY <1>4, <1>5, <2>2, <3>1 DEF Whole
    <3> QED BY <1>2, <3>2 DEF PinsSurviveRestart, Whole
  <2> QED BY <2>1, <2>2
<1> QED BY <1>7, <1>8, <1>11, <1>12, <1>9 DEF PinInv

\* A restart loads the rows whose messages the disk has, and passes over the
\* others.
LEMMA RestartKeeps ==
    ASSUME PinInv, Restart
    PROVE  PinInv'
<1>1. PICK loaded : loaded = {q \in pinRows : q.mid \in DOMAIN disk.merged}
  OBVIOUS
<1>2. /\ pc' = [w \in Writer |-> "idle"] /\ job' = [w \in Writer |-> NoJob]
      /\ channel' = <<>> /\ task' = NoJob
      /\ stored' = disk.stored /\ merged' = disk.merged
      /\ pinned' = [p \in loaded |-> disk.merged[p.mid]]
      /\ dropped' = {} /\ torn' = {} /\ lost' = pinRows \ loaded
      /\ shared' = TwoPins(loaded)
      /\ UNCHANGED <<disk, edits, users, pinRows, hangUps>>
  BY <1>1 DEF Restart
<1>3. /\ DOMAIN pinned' = loaded /\ loaded \subseteq pinRows
      /\ \A p \in loaded : p.mid \in DOMAIN merged' /\ pinned'[p] = merged'[p.mid]
  BY <1>1, <1>2
<1>4. SendOK'
  <2>1. channel' \in Seq(Mid) /\ ToSet(channel') = {}
    BY <1>2 DEF ToSet
  <2>2. pc' \in [Writer -> Steps] /\ job' \in [Writer -> Job]
    BY <1>2, NoJobFacts DEF Steps
  <2> QED BY <1>2, <2>1, <2>2 DEF PinInv, SendOK
<1>5. JobsOK'
  <2>1. 0 <= edits
    BY Bounds DEF PinInv, SendOK
  <2> QED BY <1>2, <2>1, NoJobFacts DEF JobsOK, JobOK
<1>6. PinsOK'
  <2>1. TwoPins(loaded) \subseteq Mid
    BY <1>3 DEF TwoPins, PinInv, PinsOK, Pin
  <2> QED BY <1>2, <1>3, <2>1 DEF PinInv, PinsOK
<1>7. PinsOnce'
  BY <1>2, <1>3 DEF PinInv, PinsOnce, OnePin, TwoPins
<1>8. TaskIsFresh' /\ PinnedIsMerged'
  BY <1>2, <1>3 DEF TaskIsFresh, PinnedIsMerged
<1>9. RowsStay'
  BY <1>2, <1>3 DEF PinInv, PinsOnce, OnePin, RowsStay
<1>10. PinsSurviveRestart'
  BY <1>2, <1>3 DEF PinInv, RowsStay, PinsSurviveRestart, Whole
<1> QED BY <1>4, <1>5, <1>6, <1>7, <1>8, <1>9, <1>10 DEF PinInv

\* The disk gets what the store has.
LEMMA FlushKeeps ==
    ASSUME PinInv, Flush
    PROVE  PinInv'
<1>1. /\ disk'.stored = stored /\ disk'.merged = merged
      /\ UNCHANGED <<stored, merged, pc, job, edits, channel, task, pinVars, dropped, hangUps>>
  BY DEF Flush
<1>2. SendOK' /\ JobsOK' /\ TaskIsFresh'
  BY <1>1 DEF PinInv, SendOK, JobsOK, JobOK, TaskIsFresh, Elsewhere, Newest
<1>3. PinnedIsMerged'
  BY <1>1 DEF PinInv, PinnedIsMerged, Pending, pinVars
<1> QED BY <1>1, <1>2, <1>3, PinsRest DEF PinInv

-----------------------------------------------------------------------------
\* An empty server.
LEMMA PinInitOK == PinInit => PinInv
<1> SUFFICES ASSUME PinInit PROVE PinInv
  OBVIOUS
<1>1. SendOK
  BY NoJobFacts, Bounds DEF PinInit, SendOK, Steps, ToSet
<1>2. JobsOK /\ TaskIsFresh
  BY NoJobFacts DEF PinInit, JobsOK, JobOK, TaskIsFresh
<1>3. PinsOK /\ PinsOnce /\ RowsStay /\ PinnedIsMerged /\ PinsSurviveRestart
  BY DEF PinInit, PinsOK, PinsOnce, OnePin, RowsStay, PinnedIsMerged, PinsSurviveRestart, Whole
<1> QED BY <1>1, <1>2, <1>3 DEF PinInv

\* No step of a request, of the task or of a restart breaks the invariant.
LEMMA PinStepKeeps == PinInv /\ [PinNext]_pinnedVars => PinInv'
<1> SUFFICES ASSUME PinInv, [PinNext]_pinnedVars PROVE PinInv'
  OBVIOUS
<1>1. ASSUME NEW w \in Writer, BeginSend(w) \/ Store(w) \/ Merge(w) \/ Tell(w) \/ HangUp(w)
      PROVE  PinInv'
  BY <1>1, BeginSendKeeps, StoreKeeps, MergeKeeps, TellKeeps, HangUpKeeps
<1>2. ASSUME NEW w \in Writer, NEW m \in stored, BeginEdit(w, m) PROVE PinInv'
  BY <1>2, BeginEditKeeps
<1>3. ASSUME NEW u \in Pinner, NEW g \in Gid, NEW m \in Mid, PinMessage(u, g, m) PROVE PinInv'
  BY <1>3, PinMessageKeeps
<1>4. ASSUME NEW g \in Gid, NEW m \in Mid, UnpinMessage(g, m) PROVE PinInv'
  BY <1>4, UnpinMessageKeeps
<1>5. ASSUME NEW u \in Pinner, DeletePinner(u) PROVE PinInv'
  BY <1>5, DeletePinnerKeeps
<1>6. CASE UNCHANGED pinnedVars
  <2>1. UNCHANGED <<sendVars, channel, task, pinVars, dropped, hangUps>>
    BY <1>6 DEF pinnedVars
  <2>2. hangUps' \in 0 .. MaxHangUps /\ merged' = merged
    BY <2>1 DEF PinInv, SendOK, sendVars
  <2>3. PinnedIsMerged'
    BY <2>1, CopiesKeep DEF pinVars
  <2> QED BY <2>1, <2>2, <2>3, SendRests, PinsRest DEF PinInv
<1> QED BY <1>1, <1>2, <1>3, <1>4, <1>5, <1>6, ReceiveKeeps, ApplyKeeps, FlushKeeps,
       RestartKeeps DEF PinNext

\* What is shown as pinned is what the message says by now, for any number of
\* writers, messages, groups and pinners: when neither a writer, the channel nor
\* the task has work for a message, its pinned copy is the merged one, although
\* the task writes what it read before it had the lock (process_msg_updated).
THEOREM PinnedCopiesCatchUp == PinSpec => []PinnedShowsMerged
<1>1. PinInv => PinnedShowsMerged
  BY DEF PinInv, SendOK, PinsOK, Steps, Job, PinnedShowsMerged, PinTypeOK
<1> QED BY <1>1, PinInitOK, PinStepKeeps, PTL DEF PinSpec

\* A restart forgets no pin and invents none, whether the process was stopped or
\* crashed: the rows of pinned_message are the pins of the cache, but for those of
\* users who are gone, those whose handler was cut short since the last start, and
\* the rows that this start passed over, since a crash had taken their messages
\* (pin_message, unpin_message, delete_user, load_groups_cache).
THEOREM PinsAreDurable == PinSpec => []PinsSurviveRestart
<1>1. PinInv => PinsSurviveRestart
  BY DEF PinInv
<1> QED BY <1>1, PinInitOK, PinStepKeeps, PTL DEF PinSpec
=============================================================================
