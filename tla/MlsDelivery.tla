----------------------------- MODULE MlsDelivery -----------------------------
(***************************************************************************)
(* The delivery service of MLS (mls_delivery.rs): credentials and key      *)
(* packages of devices, the routing token of a group, and the lease that   *)
(* decides which device sets the MLS group up.  All of it is in SQLite.    *)
(*                                                                         *)
(* Handlers interleave between statements that are not in one transaction. *)
(* SQLite (WAL, as sqlx opens it) lets a transaction that has read write   *)
(* only if nobody else has written since: otherwise its write fails with   *)
(* SQLITE_BUSY and the request with it.                                    *)
(***************************************************************************)
EXTENDS Integers, FiniteSets

CONSTANTS
    DeliveryRequest, \* requests for a route or for a key package
    MlsDevice,      \* devices, each of one user
    Package,        \* key package ids, in the order they are published
    NoRoute,        \* the group has no row in mls_route
    NoDevice,       \* initializer_uid is null
    LeaseTime,      \* 30 seconds in the code
    MaxTime         \* bound of the model: the clock

ASSUME PackageAssumption == Package \subseteq Nat \ {0}
ASSUME NoneAssumption == NoRoute \notin DeliveryRequest /\ NoDevice \notin MlsDevice
ASSUME LeaseAssumption == LeaseTime \in Nat \ {0} /\ MaxTime \in Nat

VARIABLES
    alive,          \* devices whose user exists
    allowed,        \* devices that authorize_group allows
    credential,     \* rows of mls_device
    package,        \* rows of mls_key_package: id -> [dev, consumed]
    lastPackage,    \* the autoincrement of their ids
    route,          \* mls_route.token: the request that made it up, or NoRoute
    initializer,    \* mls_route.initializer_uid and _device
    lease,          \* mls_route.initializer_lease, 0 for null
    initialized,    \* mls_route.initialized
    group,          \* the row of the group exists
    now,            \* the clock
    pc,             \* per request: where it is
    found,          \* per request: the package it has read, 0 for none
    fresh,          \* requests in a transaction nobody has written beside
    answer,         \* per request: the token it was answered with
    given,          \* per package: how many requests it was handed to
    claim,          \* per device: the end of the last lease it was told it has
    marked          \* devices whose mark_initialized was answered with success

packageVars == <<credential, package, lastPackage, found, given>>
routeVars == <<route, answer>>
leaseVars == <<initializer, lease, initialized, claim, marked>>
worldVars == <<alive, allowed, group, now>>
deliveryVars == <<packageVars, routeVars, leaseVars, worldVars, pc, fresh>>

DeliveryInit ==
    /\ alive = MlsDevice
    /\ allowed = MlsDevice
    /\ credential = {}
    /\ package = [p \in {} |-> p]
    /\ lastPackage = 0
    /\ route = NoRoute
    /\ initializer = NoDevice
    /\ lease = 0
    /\ initialized = FALSE
    /\ group = TRUE
    /\ now = 1
    /\ pc = [r \in DeliveryRequest |-> "idle"]
    /\ found = [r \in DeliveryRequest |-> 0]
    /\ fresh = {}
    /\ answer = [r \in DeliveryRequest |-> NoRoute]
    /\ given = [p \in Package |-> 0]
    /\ claim = [d \in MlsDevice |-> 0]
    /\ marked = {}

\* A committed write ends the snapshot of every transaction under way.
Written == fresh' = {}

GoTo(r, step) == pc' = [pc EXCEPT ![r] = step]

-----------------------------------------------------------------------------
PutCredential(d) ==
    /\ d \in alive
    /\ credential' = credential \cup {d}
    /\ Written
    /\ UNCHANGED <<package, lastPackage, found, given, routeVars, leaseVars, worldVars, pc>>

\* The foreign key asks for the device's credential.
PublishKeyPackage(d, p) ==
    /\ d \in credential
    /\ p > lastPackage
    /\ lastPackage' = p
    /\ package' = [q \in DOMAIN package \cup {p} |->
                     IF q = p THEN [dev |-> d, consumed |-> FALSE] ELSE package[q]]
    /\ Written
    /\ UNCHANGED <<credential, found, given, routeVars, leaseVars, worldVars, pc>>

\* consume_key_package: the oldest package of the device not yet consumed ...
FirstUnconsumed(d, p) ==
    LET free == {q \in DOMAIN package : package[q].dev = d /\ ~package[q].consumed} IN
    p \in free /\ \A q \in free : p <= q

ReadKeyPackage(r, d) ==
    /\ pc[r] = "idle"
    /\ \E p \in DOMAIN package :
          /\ FirstUnconsumed(d, p)
          /\ found' = [found EXCEPT ![r] = p]
    /\ GoTo(r, "consume")
    /\ fresh' = fresh \cup {r}
    /\ UNCHANGED <<credential, package, lastPackage, given, routeVars, leaseVars, worldVars>>

\* Mutant: the two statements are not one transaction.
ConsumeWithoutSnapshot(r) ==
    /\ pc[r] = "consume"
    /\ package' = [p \in DOMAIN package |->
                     IF p = found[r] THEN [package[p] EXCEPT !.consumed = TRUE]
                     ELSE package[p]]
    /\ given' = [given EXCEPT ![found[r]] = @ + 1]
    /\ found' = [found EXCEPT ![r] = 0]
    /\ GoTo(r, "idle")
    /\ Written
    /\ UNCHANGED <<credential, lastPackage, routeVars, leaseVars, worldVars>>

\* ... is marked in the same transaction,
ConsumeKeyPackage(r) ==
    /\ pc[r] = "consume"
    /\ r \in fresh
    /\ package' = [package EXCEPT ![found[r]].consumed = TRUE]
    /\ given' = [given EXCEPT ![found[r]] = @ + 1]
    /\ found' = [found EXCEPT ![r] = 0]
    /\ GoTo(r, "idle")
    /\ Written
    /\ UNCHANGED <<credential, lastPackage, routeVars, leaseVars, worldVars>>

\* which fails when somebody else has written.
ConsumeFails(r) ==
    /\ pc[r] = "consume"
    /\ r \notin fresh
    /\ found' = [found EXCEPT ![r] = 0]
    /\ GoTo(r, "idle")
    /\ UNCHANGED <<credential, package, lastPackage, given, routeVars, leaseVars, worldVars, fresh>>

-----------------------------------------------------------------------------
\* route_for_group, three statements on their own: read the token,
FindRoute(r, d) ==
    /\ pc[r] = "idle"
    /\ group
    /\ d \in allowed
    /\ IF route # NoRoute
       THEN answer' = [answer EXCEPT ![r] = route] /\ UNCHANGED pc
       ELSE GoTo(r, "insert") /\ UNCHANGED answer
    /\ UNCHANGED <<packageVars, route, leaseVars, worldVars, fresh>>

\* Mutant: the insert replaces a token that is there.
InsertRouteOver(r) ==
    /\ pc[r] = "insert"
    /\ route' = IF group THEN r ELSE route
    /\ GoTo(r, IF group THEN "reread" ELSE "idle")
    /\ Written
    /\ UNCHANGED <<packageVars, answer, leaseVars, worldVars>>

\* insert one of its own unless there is one now,
InsertRoute(r) ==
    /\ pc[r] = "insert"
    /\ route' = IF group /\ route = NoRoute THEN r ELSE route
    /\ GoTo(r, IF group THEN "reread" ELSE "idle")
    /\ Written
    /\ UNCHANGED <<packageVars, answer, leaseVars, worldVars>>

\* and read again what is there.
RereadRoute(r) ==
    /\ pc[r] = "reread"
    /\ answer' = IF route # NoRoute THEN [answer EXCEPT ![r] = route] ELSE answer
    /\ GoTo(r, "idle")
    /\ UNCHANGED <<packageVars, route, leaseVars, worldVars, fresh>>

-----------------------------------------------------------------------------
\* Mutant: the lease may be taken over in its last second.
MayClaimEarly(d) ==
    \/ initializer = NoDevice
    \/ lease <= now
    \/ initializer = d

\* Nobody has claimed, the lease is over, or it is the device's own.
MayClaim(d) ==
    \/ initializer = NoDevice
    \/ lease < now
    \/ initializer = d

\* claim_initialization: one transaction that starts with its write.  The
\* answer is 1 exactly for the device that has just been given the lease.
ClaimInitialization(d) ==
    /\ route # NoRoute
    /\ d \in allowed
    /\ IF ~initialized /\ MayClaim(d)
       THEN /\ initializer' = d
            /\ lease' = now + LeaseTime
            /\ claim' = [claim EXCEPT ![d] = now + LeaseTime]
       ELSE /\ claim' = [claim EXCEPT ![d] = 0]
            /\ UNCHANGED <<initializer, lease>>
    /\ Written
    /\ UNCHANGED <<packageVars, routeVars, initialized, marked, worldVars, pc>>

\* Mutant: any device may report that the group is set up.
MarkInitializedByAnyone(d) ==
    /\ route # NoRoute
    /\ d \in allowed
    /\ ~initialized
    /\ initializer # NoDevice
    /\ initialized' = TRUE
    /\ lease' = 0
    /\ marked' = marked \cup {d}
    /\ Written
    /\ UNCHANGED <<packageVars, routeVars, initializer, claim, worldVars, pc>>

\* mark_initialized: the last device that was given the lease, over or not.
MarkInitialized(d) ==
    /\ route # NoRoute
    /\ d \in allowed
    /\ ~initialized
    /\ initializer = d
    /\ initialized' = TRUE
    /\ lease' = 0
    /\ marked' = marked \cup {d}
    /\ Written
    /\ UNCHANGED <<packageVars, routeVars, initializer, claim, worldVars, pc>>

-----------------------------------------------------------------------------
Tick ==
    /\ now < MaxTime
    /\ now' = now + 1
    /\ UNCHANGED <<packageVars, routeVars, leaseVars, alive, allowed, group, pc, fresh>>

\* The handlers that change the members of the group.
ChangeAllowed(s) ==
    /\ allowed' = s
    /\ Written
    /\ UNCHANGED <<packageVars, routeVars, leaseVars, alive, group, now, pc>>

\* Mutant: the key packages of the user's devices stay behind.
DeleteUserOnly(d) ==
    /\ d \in alive
    /\ alive' = alive \ {d}
    /\ allowed' = allowed \ {d}
    /\ credential' = credential \ {d}
    /\ Written
    /\ UNCHANGED <<package, lastPackage, found, given, routeVars, leaseVars, group, now, pc>>

\* delete_user: mls_device and mls_key_package cascade, mls_route does not
\* refer to the user.
DeleteUser(d) ==
    /\ d \in alive
    /\ alive' = alive \ {d}
    /\ allowed' = allowed \ {d}
    /\ credential' = credential \ {d}
    /\ package' = [p \in {q \in DOMAIN package : package[q].dev # d} |-> package[p]]
    /\ Written
    /\ UNCHANGED <<lastPackage, found, given, routeVars, leaseVars, group, now, pc>>

\* Deleting the group deletes its route; its gid is not used again.
DeleteGroup ==
    /\ group
    /\ group' = FALSE
    /\ allowed' = {}
    /\ route' = NoRoute
    /\ initializer' = NoDevice
    /\ lease' = 0
    /\ initialized' = FALSE
    /\ claim' = [d \in MlsDevice |-> 0]
    /\ marked' = {}
    /\ Written
    /\ UNCHANGED <<packageVars, answer, alive, now, pc>>

DeliveryNext ==
    \/ \E d \in MlsDevice : PutCredential(d) \/ DeleteUser(d)
    \/ \E d \in MlsDevice, p \in Package : PublishKeyPackage(d, p)
    \/ \E r \in DeliveryRequest, d \in MlsDevice : ReadKeyPackage(r, d) \/ FindRoute(r, d)
    \/ \E r \in DeliveryRequest : ConsumeKeyPackage(r) \/ ConsumeFails(r)
    \/ \E r \in DeliveryRequest : InsertRoute(r) \/ RereadRoute(r)
    \/ \E d \in MlsDevice : ClaimInitialization(d) \/ MarkInitialized(d)
    \/ \E s \in SUBSET alive : group /\ ChangeAllowed(s)
    \/ Tick
    \/ DeleteGroup

DeliverySpec == DeliveryInit /\ [][DeliveryNext]_deliveryVars

-----------------------------------------------------------------------------
\* The type of every variable.
DeliveryTypeOK ==
    /\ alive \subseteq MlsDevice /\ allowed \subseteq alive /\ credential \subseteq alive
    /\ DOMAIN package \subseteq Package /\ lastPackage \in Package \cup {0}
    /\ \A p \in DOMAIN package :
          /\ DOMAIN package[p] = {"dev", "consumed"}
          /\ package[p].dev \in credential
          /\ package[p].consumed \in BOOLEAN
    /\ route \in DeliveryRequest \cup {NoRoute}
    /\ initializer \in MlsDevice \cup {NoDevice}
    /\ lease \in Nat /\ now \in Nat
    /\ initialized \in BOOLEAN /\ group \in BOOLEAN
    /\ pc \in [DeliveryRequest -> {"idle", "consume", "insert", "reread"}]
    /\ found \in [DeliveryRequest -> Package \cup {0}]
    /\ fresh \subseteq DeliveryRequest
    /\ answer \in [DeliveryRequest -> DeliveryRequest \cup {NoRoute}]
    /\ given \in [Package -> Nat]
    /\ claim \in [MlsDevice -> Nat]
    /\ marked \subseteq MlsDevice

\* A key package is handed to one request at most, however many ask for it:
\* consume_key_package reads it and marks it in two statements.
PackageGivenOnce == \A p \in Package : given[p] <= 1

\* All requests for the route of a group are answered with one token, although
\* each that finds none makes up its own.
RouteAgreed ==
    \A r, q \in DeliveryRequest :
        answer[r] # NoRoute /\ answer[q] # NoRoute => answer[r] = answer[q]

\* Two devices never both believe that they have the lease: what a device was
\* told holds until the lease it was given is over.
LeaseExclusive ==
    \A d, e \in MlsDevice : claim[d] >= now /\ claim[e] >= now => d = e

\* The group is set up once, by the device that has the lease or had it last:
\* nobody else is in the middle of setting it up then.
SetUpByHolder ==
    initialized =>
        /\ marked = {initializer}
        /\ \A d \in MlsDevice : claim[d] >= now => d = initializer

\* consume_key_package and find_or_create_route answer each request with a
\* package of its own, and all with one route.
RouteAndPackages == PackageGivenOnce /\ RouteAgreed

\* claim_initialization and mark_initialized: the group is set up by one device,
\* which has the lease or had it last.
LeaseKept == DeliveryTypeOK /\ LeaseExclusive /\ SetUpByHolder
=============================================================================
