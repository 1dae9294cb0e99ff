------------------------------ MODULE Directory ------------------------------
(***************************************************************************)
(* Users and groups.  SQLite holds the rows, State.cache a copy of them    *)
(* that every request reads, and the clients a copy of what concerns them, *)
(* kept up by the events they are sent.                                    *)
(*                                                                         *)
(* A handler that changes any of it takes the write side of the cache lock *)
(* first: it checks the cache, changes the rows, and then changes the      *)
(* cache and sends the events without another await.  Only the change of   *)
(* the rows can be where it stops: the client hangs up, which drops the    *)
(* handler with its lock while SQLite still commits.  register takes the   *)
(* lock twice, once for the account and once for the group that the        *)
(* invitation is for.                                                      *)
(*                                                                         *)
(* A public group has every user as a member.                              *)
(***************************************************************************)
EXTENDS Integers

CONSTANTS
    User,           \* uids; AUTOINCREMENT, so none is used twice
    Guest,          \* those of guest accounts
    Admin,          \* those whose token says is_admin
    NoOwner,        \* null in the column owner
    MaxGid          \* bound of the model: groups

ASSUME RoleAssumption == Guest \subseteq User /\ Admin \subseteq User \ Guest
ASSUME NoOwnerAssumption == NoOwner \notin User
ASSUME MaxGidAssumption == MaxGid \in Nat

VARIABLES
    rows,           \* user, group and group_user: [users, groups]
    cache,          \* Cache.users and Cache.groups, of the same form
    known,          \* uids that have existed
    nextGid,        \* AUTOINCREMENT of group
    tokens,         \* users who may hold an access token
    registering,    \* accounts that register has created and not answered yet
    online,         \* users with an event stream
    view,           \* per user with a stream: the groups its client lists
    unheard,        \* per user with a stream: groups that register put it in, of
                    \* which its client was not told: a record of the model
    opened,         \* groups that were public and became private
    deleted,        \* groups that a handler has taken out of the cache
    cut             \* a handler stopped at its commit, and its traces remain

vars == <<rows, cache, known, nextGid, tokens, registering, online, view, unheard,
          opened, deleted, cut>>

Gid == 1 .. MaxGid

\* A group: its row with the rows of group_user, or CacheGroup.
Public == [public |-> TRUE, owner |-> NoOwner, members |-> {}]
Private(owner, members) == [public |-> FALSE, owner |-> owner, members |-> members]

Put(f, k, v) == [x \in DOMAIN f \cup {k} |-> IF x = k THEN v ELSE f[x]]
Without(f, ks) == [x \in DOMAIN f \ ks |-> f[x]]

\* Directories with one group, or the users, replaced.
WithGroup(dir, g, group) == [dir EXCEPT !.groups = Put(@, g, group)]
WithoutGroup(dir, g) == [dir EXCEPT !.groups = Without(@, {g})]
WithMembers(dir, g, ms) ==
    IF g \in DOMAIN dir.groups THEN [dir EXCEPT !.groups[g].members = ms] ELSE dir

\* load_users_cache and load_groups_cache.  A public group has no owner in the
\* cache, whatever the column says.
Load(dir) ==
    [dir EXCEPT !.groups = [g \in DOMAIN @ |->
        IF @[g].public THEN [@[g] EXCEPT !.owner = NoOwner] ELSE @[g]]]

\* get_related_groups
Related(u) ==
    {g \in DOMAIN cache.groups : cache.groups[g].public \/ u \in cache.groups[g].members}

Init ==
    /\ rows = [users |-> Admin, groups |-> [g \in {} |-> Public]]
    /\ cache = rows
    /\ known = Admin
    /\ nextGid = 1
    /\ tokens = Admin
    /\ registering = {}
    /\ online = {}
    /\ view = [u \in User |-> {}]
    /\ unheard = [u \in User |-> {}]
    /\ opened = {}
    /\ deleted = {}
    /\ cut = FALSE

\* After the commit: either the cache and the clients follow, or the handler is
\* gone.
AfterCommit(newCache, newView) ==
    \/ cache' = newCache /\ view' = newView /\ cut' = cut
    \/ cache' = cache /\ view' = view /\ cut' = TRUE

\* The clients after JoinedGroup, and after KickFromGroup or a UserLeavedGroup
\* that names them.
Joined(us, g) ==
    [u \in User |-> IF u \in us \cap online THEN view[u] \cup {g} ELSE view[u]]
Kicked(us, g) == [u \in User |-> IF u \in us THEN view[u] \ {g} ELSE view[u]]

\* Who may delete, rename or convert a group: a token is not checked again, so
\* its user may be deleted by now.
MayManage(a, g) ==
    IF cache.groups[g].public THEN a \in Admin ELSE a \in Admin \cup {cache.groups[g].owner}

\* insert into group_user: the foreign keys and the unique index.
CanInsert(g, ms) ==
    /\ g \in DOMAIN rows.groups
    /\ ms \subseteq rows.users \ rows.groups[g].members

accountVars == <<known, tokens, registering, online, unheard>>

-----------------------------------------------------------------------------
\* State::create_user.  The others learn of the account as a member of the
\* public groups; its own client lists them when it connects.
CreateUser(u) ==
    /\ u \notin known
    /\ known' = known \cup {u}
    /\ rows' = [rows EXCEPT !.users = @ \cup {u}]
    /\ AfterCommit([cache EXCEPT !.users = @ \cup {u}], view)
    /\ tokens' = tokens \cup cache'.users
    /\ registering' = registering \cup (cache'.users \ cache.users)
    /\ UNCHANGED <<nextGid, online, unheard, opened, deleted>>

\* Mutant: the group of an invitation gets the user in the cache only.
JoinInvitedInCache(u, g) ==
    /\ u \in registering
    /\ registering' = registering \ {u}
    /\ g \in DOMAIN cache.groups /\ ~cache.groups[g].public
    /\ cache' = WithMembers(cache, g, cache.groups[g].members \cup {u})
    /\ UNCHANGED <<rows, known, nextGid, tokens, online, view, unheard, opened, deleted, cut>>

\* register, under a second lock: the group of the invitation, if it is still
\* there and private by now.  UserJoinedGroup goes to the other members; a client
\* of the new user that connected between the two locks is not told.
JoinInvited(u, g) ==
    /\ u \in registering
    /\ registering' = registering \ {u}
    /\ g \in DOMAIN cache.groups /\ ~cache.groups[g].public
    /\ CanInsert(g, {u})
    /\ rows' = WithMembers(rows, g, rows.groups[g].members \cup {u})
    /\ AfterCommit(WithMembers(cache, g, cache.groups[g].members \cup {u}), view)
    /\ unheard' = [unheard EXCEPT ![u] = IF u \in online THEN @ \cup {g} ELSE @]
    /\ UNCHANGED <<known, nextGid, tokens, online, opened, deleted>>

\* No invitation, a group that is gone or public, or an insert that fails.
EndRegister(u) ==
    /\ u \in registering
    /\ registering' = registering \ {u}
    /\ UNCHANGED <<rows, cache, known, nextGid, tokens, online, view, unheard, opened,
                   deleted, cut>>

-----------------------------------------------------------------------------
\* ApiGroup::create.
CreateGroup(a, public, others) ==
    LET members == IF public THEN {} ELSE others \cup {a}
        group   == IF public THEN Public ELSE Private(a, members) IN
    /\ a \in tokens \ Guest
    /\ public => a \in Admin /\ others = {}
    /\ members \subseteq cache.users
    /\ members \subseteq rows.users
    /\ nextGid <= MaxGid
    /\ nextGid' = nextGid + 1
    /\ rows' = WithGroup(rows, nextGid, group)
    /\ AfterCommit(WithGroup(cache, nextGid, group),
                   Joined(IF public THEN cache.users ELSE members, nextGid))
    /\ UNCHANGED <<accountVars, opened, deleted>>

\* ApiGroup::delete; group_user cascades.
DeleteGroup(a, g) ==
    LET members == IF cache.groups[g].public THEN cache.users ELSE cache.groups[g].members IN
    /\ a \in tokens
    /\ MayManage(a, g)
    /\ rows' = WithoutGroup(rows, g)
    /\ AfterCommit(WithoutGroup(cache, g), Kicked(members, g))
    /\ deleted' = deleted \cup (DOMAIN cache.groups \ DOMAIN cache'.groups)
    /\ UNCHANGED <<accountVars, nextGid, opened>>

\* ApiGroup::update with an owner; a group that is public in the rows only has
\* its owner written there too.
UpdateOwner(a, g, owner) ==
    /\ a \in tokens
    /\ MayManage(a, g)
    /\ ~cache.groups[g].public
    /\ owner \in cache.groups[g].members
    /\ rows' = IF g \in DOMAIN rows.groups THEN [rows EXCEPT !.groups[g].owner = owner]
                                          ELSE rows
    /\ AfterCommit([cache EXCEPT !.groups[g].owner = owner], view)
    /\ UNCHANGED <<accountVars, nextGid, opened, deleted>>

\* Mutant: the owner is only known to the cache.
ChangeToPrivateWithoutOwner(a, g, chosen) ==
    LET members == IF chosen = {} THEN cache.users \ Guest ELSE chosen IN
    /\ a \in tokens
    /\ cache.groups[g].public /\ MayManage(a, g)
    /\ CanInsert(g, members)
    /\ rows' = WithGroup(rows, g,
                 Private(rows.groups[g].owner, rows.groups[g].members \cup members))
    /\ AfterCommit(WithGroup(cache, g, Private(a, members)), view)
    /\ opened' = opened \cup {g}
    /\ UNCHANGED <<accountVars, nextGid, deleted>>

\* ApiGroup::change_type of a public group: the caller becomes the owner, and
\* the members are the given ones or everyone but the guests.  GroupChanged
\* goes to all, and nobody is told that the group is no longer theirs.
ChangeToPrivate(a, g, chosen) ==
    LET members == IF chosen = {} THEN cache.users \ Guest ELSE chosen IN
    /\ a \in tokens
    /\ cache.groups[g].public /\ MayManage(a, g)
    /\ CanInsert(g, members)
    /\ rows' = WithGroup(rows, g, Private(a, rows.groups[g].members \cup members))
    /\ AfterCommit(WithGroup(cache, g, Private(a, members)), view)
    /\ opened' = opened \cup {g}
    /\ UNCHANGED <<accountVars, nextGid, deleted>>

\* Mutant: the old members are told again, and not the new ones.
ChangeToPublicToldToMembers(a, g) ==
    /\ a \in tokens
    /\ ~cache.groups[g].public /\ MayManage(a, g)
    /\ rows' = IF g \in DOMAIN rows.groups THEN WithGroup(rows, g, Public) ELSE rows
    /\ AfterCommit(WithGroup(cache, g, Public), Joined(cache.groups[g].members, g))
    /\ UNCHANGED <<accountVars, nextGid, opened, deleted>>

\* change_type of a private group: every user but the guests is told.
ChangeToPublic(a, g) ==
    LET newMembers == (cache.users \ Guest) \ cache.groups[g].members IN
    /\ a \in tokens
    /\ ~cache.groups[g].public /\ MayManage(a, g)
    /\ rows' = IF g \in DOMAIN rows.groups THEN WithGroup(rows, g, Public) ELSE rows
    /\ AfterCommit(WithGroup(cache, g, Public), Joined(newMembers, g))
    /\ UNCHANGED <<accountVars, nextGid, opened, deleted>>

-----------------------------------------------------------------------------
\* delete from group_user
RowsWithoutMembers(g, ms) ==
    IF g \in DOMAIN rows.groups
    THEN WithMembers(rows, g, rows.groups[g].members \ ms)
    ELSE rows

\* ApiGroup::leave; the owner may not.
LeaveGroup(u, g) ==
    /\ u \in tokens
    /\ ~cache.groups[g].public
    /\ u \in cache.groups[g].members \ {cache.groups[g].owner}
    /\ rows' = RowsWithoutMembers(g, {u})
    /\ AfterCommit(WithMembers(cache, g, cache.groups[g].members \ {u}), Kicked({u}, g))
    /\ UNCHANGED <<accountVars, nextGid, opened, deleted>>

\* ApiGroup::add_members, by any member.
AddMembers(a, g, ms) ==
    /\ a \in tokens
    /\ ~cache.groups[g].public
    /\ a \in cache.groups[g].members \cup Admin
    /\ ms \subseteq cache.users \ cache.groups[g].members
    /\ CanInsert(g, ms)
    /\ rows' = WithMembers(rows, g, rows.groups[g].members \cup ms)
    /\ AfterCommit(WithMembers(cache, g, cache.groups[g].members \cup ms), Joined(ms, g))
    /\ UNCHANGED <<accountVars, nextGid, opened, deleted>>

\* Mutant: only those who stay are told.
RemoveMembersSilently(a, g, ms) ==
    /\ a \in tokens
    /\ ~cache.groups[g].public /\ MayManage(a, g)
    /\ ms \subseteq cache.groups[g].members \ {cache.groups[g].owner}
    /\ rows' = RowsWithoutMembers(g, ms)
    /\ AfterCommit(WithMembers(cache, g, cache.groups[g].members \ ms), view)
    /\ UNCHANGED <<accountVars, nextGid, opened, deleted>>

\* ApiGroup::remove_members, by the owner or an admin.
RemoveMembers(a, g, ms) ==
    /\ a \in tokens
    /\ ~cache.groups[g].public /\ MayManage(a, g)
    /\ ms \subseteq cache.groups[g].members \ {cache.groups[g].owner}
    /\ rows' = RowsWithoutMembers(g, ms)
    /\ AfterCommit(WithMembers(cache, g, cache.groups[g].members \ ms), Kicked(ms, g))
    /\ UNCHANGED <<accountVars, nextGid, opened, deleted>>

-----------------------------------------------------------------------------
\* State::delete_user, in the rows: group_user cascades; the column owner has
\* no foreign key, and the groups the user owns stay.
RowsWithoutUser(u) ==
    [users  |-> rows.users \ {u},
     groups |-> [g \in DOMAIN rows.groups |->
                    [rows.groups[g] EXCEPT !.members = @ \ {u}]]]

\* In the cache the user's private groups go, and u leaves the other private ones.
Owned(u) == {g \in DOMAIN cache.groups : ~cache.groups[g].public /\ cache.groups[g].owner = u}

CacheWithoutUser(u) ==
    [users  |-> cache.users \ {u},
     groups |-> [g \in DOMAIN cache.groups \ Owned(u) |->
                    IF cache.groups[g].public
                    THEN cache.groups[g]
                    ELSE [cache.groups[g] EXCEPT !.members = @ \ {u}]]]

\* The members of those groups are told, unless the user is a guest; the user's
\* own stream is closed.
ViewWithoutUser(u) ==
    [x \in User |->
        IF x = u THEN {}
        ELSE IF u \in Guest THEN view[x]
        ELSE view[x] \ {g \in Owned(u) : x \in cache.groups[g].members}]

\* Mutant: the streams of the user stay open.
DeleteUserKeepingStreams(u) ==
    /\ u \in cache.users
    /\ rows' = RowsWithoutUser(u)
    /\ AfterCommit(CacheWithoutUser(u), [ViewWithoutUser(u) EXCEPT ![u] = view[u]])
    /\ deleted' = deleted \cup (DOMAIN cache.groups \ DOMAIN cache'.groups)
    /\ UNCHANGED <<known, nextGid, tokens, registering, online, unheard, opened>>

\* A register that is under way for the user can only fail from now on.
DeleteUser(u) ==
    /\ u \in cache.users
    /\ rows' = RowsWithoutUser(u)
    /\ AfterCommit(CacheWithoutUser(u), ViewWithoutUser(u))
    /\ online' = online \cap cache'.users
    /\ unheard' = [x \in User |-> IF x \in online' THEN unheard[x] ELSE {}]
    /\ registering' = registering \ {u}
    /\ deleted' = deleted \cup (DOMAIN cache.groups \ DOMAIN cache'.groups)
    /\ UNCHANGED <<known, nextGid, tokens, opened>>

-----------------------------------------------------------------------------
\* events: the stream starts with RelatedGroups.  Any device of the user may have
\* logged in, also while register is between its locks.
Connect(u) ==
    /\ u \in tokens \cap cache.users
    /\ online' = online \cup {u}
    /\ view' = [view EXCEPT ![u] = Related(u)]
    /\ unheard' = [unheard EXCEPT ![u] = {}]
    /\ UNCHANGED <<rows, cache, known, nextGid, tokens, registering, opened, deleted, cut>>

\* Handlers that were cut short may leave members to a public group; they stay
\* when it becomes private again.
Strays == \E g \in DOMAIN rows.groups : rows.groups[g].public /\ rows.groups[g].members # {}

\* The server stops, or dies, and starts again: create_state loads the cache.
Restart ==
    /\ cache' = Load(rows)
    /\ tokens' = tokens \cup rows.users
    /\ registering' = {}
    /\ online' = {}
    /\ view' = [u \in User |-> {}]
    /\ unheard' = [u \in User |-> {}]
    /\ cut' = Strays
    /\ UNCHANGED <<rows, known, nextGid, opened, deleted>>

Next ==
    \/ \E u \in User : CreateUser(u) \/ EndRegister(u) \/ DeleteUser(u) \/ Connect(u)
    \/ \E u \in User, g \in DOMAIN cache.groups : JoinInvited(u, g) \/ LeaveGroup(u, g)
    \/ \E a \in User, public \in BOOLEAN, others \in SUBSET User :
            CreateGroup(a, public, others)
    \/ \E a \in User, g \in DOMAIN cache.groups : DeleteGroup(a, g) \/ ChangeToPublic(a, g)
    \/ \E a, owner \in User, g \in DOMAIN cache.groups : UpdateOwner(a, g, owner)
    \/ \E a \in User, g \in DOMAIN cache.groups, ms \in SUBSET User :
            ChangeToPrivate(a, g, ms)
    \/ \E a \in User, g \in DOMAIN cache.groups, ms \in (SUBSET User) \ {{}} :
            AddMembers(a, g, ms) \/ RemoveMembers(a, g, ms)
    \/ Restart

Spec == Init /\ [][Next]_vars

-----------------------------------------------------------------------------
IsDirectory(dir) ==
    /\ DOMAIN dir = {"users", "groups"}
    /\ dir.users \subseteq known
    /\ DOMAIN dir.groups \subseteq 1 .. nextGid - 1
    /\ \A g \in DOMAIN dir.groups :
          /\ DOMAIN dir.groups[g] = DOMAIN Public
          /\ dir.groups[g].public \in BOOLEAN
          /\ dir.groups[g].owner \in User \cup {NoOwner}
          /\ dir.groups[g].members \subseteq User

\* The type of every variable.
TypeOK ==
    /\ IsDirectory(rows) /\ IsDirectory(cache)
    /\ tokens \cup registering \subseteq known /\ known \subseteq User
    /\ online \subseteq cache.users
    /\ nextGid \in 1 .. MaxGid + 1
    /\ view \in [User -> SUBSET (1 .. nextGid - 1)]
    /\ unheard \in [User -> SUBSET (1 .. nextGid - 1)]
    /\ opened \cup deleted \subseteq 1 .. nextGid - 1
    /\ cut \in BOOLEAN

\* The rows keep their foreign keys, and load_groups_cache, which unwraps the
\* owner of every private group, can start the server from them: whatever
\* handlers were cut short and whatever the cache said in between.
RowsLoad ==
    \A g \in DOMAIN rows.groups :
        /\ rows.groups[g].members \subseteq rows.users
        /\ ~rows.groups[g].public => rows.groups[g].owner # NoOwner

\* A row that only SQLite still has: a private group whose owner was deleted.
Orphan(g) ==
    /\ g \in DOMAIN rows.groups \ DOMAIN cache.groups
    /\ ~rows.groups[g].public
    /\ rows.groups[g].owner \notin rows.users

\* What a request sees of a group; nothing uses the members of a public one.
Visible(group) == IF group.public THEN Public ELSE group

\* Unless a handler was cut short, a restart changes nothing that a request can
\* see, but for the groups of deleted owners: the cache and the rows agree after
\* any sequence of handlers, although each handler updates the two on its own.
RestartKeepsDirectory ==
    ~cut =>
        /\ cache.users = rows.users
        /\ \A g \in DOMAIN cache.groups :
              g \in DOMAIN rows.groups /\ Visible(cache.groups[g]) = Visible(rows.groups[g])
        /\ \A g \in DOMAIN rows.groups \ DOMAIN cache.groups : Orphan(g)

\* Rows and cache agree on users, groups and members, and the rows load
\* (every handler that changes both).
RowsAndCacheAgree == TypeOK /\ RowsLoad /\ RestartKeepsDirectory

\* A client with a stream lists every group that its user is in, whoever put the
\* user there and also when handlers are cut short: the events keep up with the
\* cache.  Guests are not told when a group becomes public; nor is a client that
\* connects while register is between its locks told of the group it then gets.
ClientKnowsItsGroups ==
    \A u \in online \ Guest : Related(u) \subseteq view[u] \cup unheard[u]

\* A client that lists a group is in it, or the group is gone, or was public
\* once: whoever is removed from a private group is told.
RemovedAreTold ==
    \A u \in online : \A g \in view[u] \cap DOMAIN cache.groups :
        g \in Related(u) \cup opened

-----------------------------------------------------------------------------
\* What a test says and the code does not do.

\* test_delete_user_then_delete_owned_private_group: after the owner is deleted
\* GET /group/:gid answers NOT_FOUND.
DeletedStaysGone == deleted \cap DOMAIN cache.groups = {}

\* add_members tells the users it adds with JoinedGroup; register tells only the
\* others with UserJoinedGroup, so that a client may not list a group of its user.
ClientKnowsAllItsGroups == \A u \in online \ Guest : Related(u) \subseteq view[u]

\* The checks of update ("contains_user(new_owner)"), leave and remove_members:
\* the owner of a private group is one of its members.
OwnerIsMember ==
    \A g \in DOMAIN cache.groups :
        ~cache.groups[g].public => cache.groups[g].owner \in cache.groups[g].members
=============================================================================
