-------------------------------- MODULE Locks --------------------------------
(***************************************************************************)
(* The locks of the server's shared state and the requests that wait for   *)
(* them.  A request is the sequence of the guards it takes and drops; what *)
(* it does in between takes time and no lock.                              *)
(*                                                                         *)
(* The locks are those of tokio: an RwLock has any number of readers or    *)
(* one writer, a Mutex only writers.  Both are fair: who has to wait joins *)
(* a queue, and whoever comes later waits behind, a reader behind a writer *)
(* too.  Neither knows its owner, so a task can wait for itself.           *)
(***************************************************************************)
EXTENDS Integers, Sequences, FiniteSets, SequencesExt

CONSTANTS
    Request,    \* the requests under way
    Lock,       \* State.cache, State.key_config and G_LICENSE
    Program,    \* what the requests do, see LockOrder
    Nobody      \* no request

Step == [op : {"read", "write", "drop"}, lock : Lock, at : {"", "upgrade"}]

ASSUME ProgramAssumption == Program \subseteq Seq(Step)
ASSUME NobodyAssumption == Nobody \notin Request

VARIABLES
    todo,       \* per request: the steps it has left
    reads,      \* per lock and request: its read guards
    writer,     \* per lock: who has the write guard
    queue       \* per lock: who waits for it

vars == <<todo, reads, writer, queue>>

Init ==
    /\ todo = [r \in Request |-> <<>>]
    /\ reads = [l \in Lock |-> [r \in Request |-> 0]]
    /\ writer = [l \in Lock |-> Nobody]
    /\ queue = [l \in Lock |-> <<>>]

Queued(l) == {queue[l][i] : i \in DOMAIN queue[l]}

CanTake(r, s) ==
    /\ writer[s.lock] = Nobody
    /\ s.op = "write" => \A q \in Request : reads[s.lock][q] = 0

\* The request gets the guard it asks for and goes on.
Take(r, s) ==
    /\ todo' = [todo EXCEPT ![r] = Tail(@)]
    /\ IF s.op = "read"
       THEN reads' = [reads EXCEPT ![s.lock][r] = @ + 1] /\ UNCHANGED writer
       ELSE writer' = [writer EXCEPT ![s.lock] = r] /\ UNCHANGED reads

-----------------------------------------------------------------------------
Start(r, p) ==
    /\ todo[r] = <<>>
    /\ todo' = [todo EXCEPT ![r] = p]
    /\ UNCHANGED <<reads, writer, queue>>

\* Mutant: who finds the lock open passes the queue.
AcquirePassing(r) ==
    /\ todo[r] # <<>>
    /\ LET s == Head(todo[r]) IN
       /\ s.op # "drop"
       /\ r \notin Queued(s.lock)
       /\ IF CanTake(r, s)
          THEN Take(r, s) /\ UNCHANGED queue
          ELSE /\ queue' = [queue EXCEPT ![s.lock] = Append(@, r)]
               /\ UNCHANGED <<todo, reads, writer>>

\* read().await, write().await and lock().await, the first time they are polled.
Acquire(r) ==
    /\ todo[r] # <<>>
    /\ LET s == Head(todo[r]) IN
       /\ s.op # "drop"
       /\ r \notin Queued(s.lock)
       /\ IF queue[s.lock] = <<>> /\ CanTake(r, s)
          THEN Take(r, s) /\ UNCHANGED queue
          ELSE /\ queue' = [queue EXCEPT ![s.lock] = Append(@, r)]
               /\ UNCHANGED <<todo, reads, writer>>

\* The lock is handed to the first in its queue.
Grant(l) ==
    /\ queue[l] # <<>>
    /\ LET r == Head(queue[l]) IN
       /\ CanTake(r, Head(todo[r]))
       /\ Take(r, Head(todo[r]))
    /\ queue' = [queue EXCEPT ![l] = Tail(@)]

\* A guard goes out of scope.
Drop(r) ==
    /\ todo[r] # <<>>
    /\ LET s == Head(todo[r]) IN
       /\ s.op = "drop"
       /\ IF writer[s.lock] = r
          THEN writer' = [writer EXCEPT ![s.lock] = Nobody] /\ UNCHANGED reads
          ELSE reads' = [reads EXCEPT ![s.lock][r] = @ - 1] /\ UNCHANGED writer
    /\ todo' = [todo EXCEPT ![r] = Tail(@)]
    /\ UNCHANGED queue

\* Mutant: a request that gives up stays in the queue it waits in.
CutQueued(r) ==
    /\ todo[r] # <<>>
    /\ todo' = [todo EXCEPT ![r] = <<>>]
    /\ reads' = [l \in Lock |-> [reads[l] EXCEPT ![r] = 0]]
    /\ writer' = [l \in Lock |-> IF writer[l] = r THEN Nobody ELSE writer[l]]
    /\ UNCHANGED queue

\* A queue that a request leaves, wherever in it it is.
Leave(q, r) ==
    IF \E i \in DOMAIN q : q[i] = r
    THEN RemoveAt(q, CHOOSE i \in DOMAIN q : q[i] = r)
    ELSE q

\* Mutant: the guards go on living, in a task that nobody waits for.
CutHolding(r) ==
    /\ todo[r] # <<>>
    /\ todo' = [todo EXCEPT ![r] = <<>>]
    /\ queue' = [l \in Lock |-> Leave(queue[l], r)]
    /\ UNCHANGED <<reads, writer>>

\* An early return, or a client that hangs up: every guard is dropped, and a
\* request that waits leaves the queue.
Cut(r) ==
    /\ todo[r] # <<>>
    /\ todo' = [todo EXCEPT ![r] = <<>>]
    /\ reads' = [l \in Lock |-> [reads[l] EXCEPT ![r] = 0]]
    /\ writer' = [l \in Lock |-> IF writer[l] = r THEN Nobody ELSE writer[l]]
    /\ queue' = [l \in Lock |-> Leave(queue[l], r)]

Next ==
    \/ \E r \in Request, p \in Program : Start(r, p)
    \/ \E r \in Request : Acquire(r) \/ Drop(r) \/ Cut(r)
    \/ \E l \in Lock : Grant(l)

Spec == Init /\ [][Next]_vars

\* What a request does while it holds a guard ends, and a lock that is free
\* wakes up its first waiter.  No client has to hang up.
Fairness ==
    /\ \A r \in Request : WF_vars(Acquire(r)) /\ WF_vars(Drop(r))
    /\ \A l \in Lock : WF_vars(Grant(l))

FairSpec == Spec /\ Fairness

-----------------------------------------------------------------------------
Takes(s) == s.op # "drop"
Drops(s, l) == s.op = "drop" /\ s.lock = l

\* A program keeps to an order of the locks: while it holds one it takes only
\* later ones, and it drops what it has taken, and nothing else.
KeepsOrder(p, rank) ==
    /\ \A i \in DOMAIN p : Takes(p[i]) =>
         \E d \in i + 1 .. Len(p) :
            /\ Drops(p[d], p[i].lock)
            /\ \A j \in i + 1 .. d - 1 : Takes(p[j]) => rank[p[i].lock] < rank[p[j].lock]
    /\ \A d \in DOMAIN p : ~Takes(p[d]) =>
         \E i \in 1 .. d - 1 :
            /\ Takes(p[i]) /\ p[i].lock = p[d].lock
            /\ \A j \in i + 1 .. d - 1 : ~Drops(p[j], p[d].lock)

\* The type of every variable; who waits is in the queue of one lock, once.
TypeOK ==
    /\ todo \in [Request -> Seq(Step)]
    /\ reads \in [Lock -> [Request -> Nat]]
    /\ writer \in [Lock -> Request \cup {Nobody}]
    /\ queue \in [Lock -> Seq(Request)]
    /\ \A l \in Lock : \A i \in DOMAIN queue[l] :
          LET r == queue[l][i] IN
          /\ todo[r] # <<>> /\ Head(todo[r]).lock = l /\ Head(todo[r]).op # "drop"
          /\ \A j \in DOMAIN queue[l] : queue[l][j] = r => i = j

\* Those that r has to wait for: whoever holds the lock in its way, and whoever
\* came before.
Ahead(l, r) ==
    {queue[l][i] : i \in {k \in DOMAIN queue[l] :
        \E j \in DOMAIN queue[l] : k < j /\ queue[l][j] = r}}

Holders(l, op) ==
    {q \in Request : writer[l] = q \/ (op = "write" /\ reads[l][q] > 0)}

Waits(r, l) == r \in Queued(l)

Blockers(r) ==
    {q \in Request : \E l \in Lock :
        Waits(r, l) /\ q \in Ahead(l, r) \cup Holders(l, Head(todo[r]).op)}

\* Requests each of which waits for another of them.
IsCircle(S) == S # {} /\ \A r \in S : Blockers(r) \cap S # {}

\* No requests ever wait for each other: as long as none of them gives up, such
\* a circle never ends, and with State.cache in it the whole server waits.
NoCircularWait == \A S \in SUBSET Request : ~IsCircle(S)

\* Locks are held and asked for as tokio's are, and no requests wait for each
\* other in a circle (State.cache, key_config, G_LICENSE).
WaitsAreOrdered == TypeOK /\ NoCircularWait

\* A request that waits for a lock gets it, however many come after it.
EveryWaitEnds ==
    \A r \in Request, l \in Lock : Waits(r, l) ~> ~Waits(r, l)

-----------------------------------------------------------------------------
\* login, on the rehash of an old password: "dropping the read lock here also
\* lets the best-effort upgrade below reacquire a write lock without RwLock
\* reentrancy/deadlock".  A login that waits there is not in a circle of waits,
\* nor behind one.
Upgrading(r) == todo[r] # <<>> /\ Head(todo[r]).at = "upgrade"

UpgradeGetsLock ==
    \A S \in SUBSET Request : IsCircle(S) => \A r \in S : ~Upgrading(r)
=============================================================================
