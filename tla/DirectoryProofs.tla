--------------------------- MODULE DirectoryProofs ---------------------------
(***************************************************************************)
(* Proofs about Directory, for any users, guests and administrators and    *)
(* any number of groups.                                                   *)
(*                                                                         *)
(* Rows and cache are compared as two directories (DirsAgree): they agree  *)
(* unless a handler was cut short, but for the private groups of deleted   *)
(* owners, which only the rows keep.  To survive the next handler this     *)
(* needs that an owner is a user who has existed, since a uid is never     *)
(* used twice, and that the rows of a public group name no members, since  *)
(* change_type adds to what they name.  What the clients list is compared  *)
(* with the cache alone (ClientsKnow), and so holds also when handlers are *)
(* cut short.                                                              *)
(*                                                                         *)
(* Nearly every handler changes one group: OneGroupKeeps says what has to  *)
(* be true of that group, and CommitKeeps covers the handler that is cut   *)
(* short at its commit.                                                    *)
(***************************************************************************)
EXTENDS Directory, TLAPS

\* A group of users that have existed.
IsGroup(group, uids) ==
    /\ group = [f \in {"public", "owner", "members"} |-> group[f]]
    /\ group.public \in BOOLEAN
    /\ group.owner \in uids \cup {NoOwner}
    /\ group.members \subseteq uids

\* Rows or cache.
IsDir(dir, uids, gids) ==
    /\ DOMAIN dir = {"users", "groups"}
    /\ dir.users \subseteq uids
    /\ DOMAIN dir.groups \subseteq gids
    /\ \A g \in DOMAIN dir.groups : IsGroup(dir.groups[g], uids)

\* Two groups that no request can tell apart.
Alike(x, y) ==
    \/ x.public /\ y.public
    \/ ~x.public /\ ~y.public /\ x.owner = y.owner /\ x.members = y.members

\* Directories that agree: but for private groups whose owners are gone, both
\* have the same; and the rows of a public group name no members.
DirsAgree(new, old) ==
    /\ new.users = old.users
    /\ DOMAIN new.groups \subseteq DOMAIN old.groups
    /\ \A g \in DOMAIN new.groups : Alike(new.groups[g], old.groups[g])
    /\ \A g \in DOMAIN old.groups \ DOMAIN new.groups :
        ~old.groups[g].public /\ old.groups[g].owner \notin old.users
    /\ \A g \in DOMAIN old.groups : old.groups[g].public => old.groups[g].members = {}

\* What rows need so that they can be loaded.
CanLoad(dir) ==
    \A g \in DOMAIN dir.groups :
        /\ dir.groups[g].members \subseteq dir.users
        /\ ~dir.groups[g].public => dir.groups[g].owner # NoOwner

\* What is known of users and groups, ...
StoreInv ==
    /\ IsDir(rows, known, 1 .. nextGid - 1) /\ IsDir(cache, known, 1 .. nextGid - 1)
    /\ known \subseteq User /\ tokens \cup registering \subseteq known
    /\ nextGid \in 1 .. MaxGid + 1
    /\ opened \cup deleted \subseteq 1 .. nextGid - 1
    /\ cut \in BOOLEAN
    /\ CanLoad(rows)
    /\ cut \/ DirsAgree(cache, rows)

\* A client lists the groups its user is in, unless the user is a guest or it has
\* missed the group, and only those, unless the group was opened.
ClientsKnow(dir, uids, lists, wereOpened, missed) ==
    \A u \in uids : \A g \in DOMAIN dir.groups :
        /\ u \notin Guest /\ (dir.groups[g].public \/ u \in dir.groups[g].members)
              => g \in lists[u] \cup missed[u]
        /\ g \in lists[u]
              => dir.groups[g].public \/ u \in dir.groups[g].members \/ g \in wereOpened

\* ... and of the clients.
ClientsInv ==
    /\ online \subseteq cache.users
    /\ view \in [User -> SUBSET (1 .. nextGid - 1)]
    /\ unheard \in [User -> SUBSET (1 .. nextGid - 1)]
    /\ ClientsKnow(cache, online, view, opened, unheard)

\* The inductive invariant.
DirectoryInv == StoreInv /\ ClientsInv

-----------------------------------------------------------------------------
\* The invariant is as strong as the properties.
LEMMA DirectoryInvAgree ==
    DirectoryInv => RowsAndCacheAgree /\ ClientKnowsItsGroups /\ RemovedAreTold
<1> SUFFICES ASSUME DirectoryInv
             PROVE  RowsAndCacheAgree /\ ClientKnowsItsGroups /\ RemovedAreTold
  OBVIOUS
<1>1. TypeOK
  <2>1. IsDirectory(rows) /\ IsDirectory(cache)
    BY DEF DirectoryInv, StoreInv, IsDir, IsGroup, IsDirectory, Public
  <2> QED
    BY <2>1 DEF DirectoryInv, StoreInv, ClientsInv, TypeOK
<1>2. RowsLoad
  BY DEF DirectoryInv, StoreInv, CanLoad, RowsLoad
<1>3. RestartKeepsDirectory
  <2> SUFFICES ASSUME ~cut PROVE RestartKeepsDirectory
    BY DEF RestartKeepsDirectory
  <2>1. DirsAgree(cache, rows) /\ IsDir(rows, known, 1 .. nextGid - 1)
        /\ IsDir(cache, known, 1 .. nextGid - 1)
    BY DEF DirectoryInv, StoreInv
  <2>2. ASSUME NEW g \in DOMAIN cache.groups
        PROVE  g \in DOMAIN rows.groups /\ Visible(cache.groups[g]) = Visible(rows.groups[g])
    <3> DEFINE x == cache.groups[g]
               y == rows.groups[g]
    <3>1. g \in DOMAIN rows.groups /\ Alike(x, y)
      BY <2>1, <2>2 DEF DirsAgree
    <3>2. IsGroup(x, known) /\ IsGroup(y, known)
      BY <2>1, <2>2, <3>1 DEF IsDir
    <3> HIDE DEF x, y
    <3>3. Visible(x) = Visible(y)
      <4>1. CASE x.public /\ y.public
        <5>1. Visible(x) = Public /\ Visible(y) = Public
          BY <4>1, Zenon DEF Visible
        <5> QED
          BY <5>1
      <4>2. CASE ~x.public /\ ~y.public /\ x.owner = y.owner /\ x.members = y.members
        <5>1. x.public = FALSE /\ y.public = FALSE
          BY <3>2, <4>2 DEF IsGroup
        <5>2. \A f \in {"public", "owner", "members"} : x[f] = y[f]
          BY <4>2, <5>1
        <5>3. x = y
          BY <3>2, <5>2, Zenon DEF IsGroup
        <5> QED
          BY <5>3
      <4> QED
        BY <3>1, <4>1, <4>2 DEF Alike
    <3> QED
      BY <3>1, <3>3 DEF x, y
  <2>3. ASSUME NEW g \in DOMAIN rows.groups \ DOMAIN cache.groups PROVE Orphan(g)
    BY <2>1, <2>3 DEF DirsAgree, Orphan
  <2> QED
    BY <2>1, <2>2, <2>3 DEF RestartKeepsDirectory, DirsAgree
<1>4. ClientKnowsItsGroups /\ RemovedAreTold
  BY DEF DirectoryInv, ClientsInv, ClientsKnow, ClientKnowsItsGroups, RemovedAreTold, Related
<1> QED
  BY <1>1, <1>2, <1>3, <1>4 DEF RowsAndCacheAgree

\* Initially there are the administrators.
LEMMA DirectoryInitInv == Init => DirectoryInv
<1> SUFFICES ASSUME Init PROVE DirectoryInv
  OBVIOUS
<1>1. /\ DOMAIN rows = {"users", "groups"} /\ rows.users = Admin
      /\ DOMAIN rows.groups = {} /\ cache = rows
  BY DEF Init
<1>2. /\ known = Admin /\ tokens = Admin /\ nextGid = 1 /\ cut = FALSE
      /\ registering = {} /\ online = {} /\ opened = {} /\ deleted = {}
      /\ view = [u \in User |-> {}] /\ unheard = [u \in User |-> {}] /\ Admin \subseteq User
  BY RoleAssumption DEF Init
<1>3. IsDir(rows, known, 1 .. nextGid - 1) /\ CanLoad(rows) /\ DirsAgree(cache, rows)
  BY <1>1, <1>2 DEF IsDir, CanLoad, DirsAgree
<1>4. nextGid \in 1 .. MaxGid + 1
  BY <1>2, MaxGidAssumption
<1>5. StoreInv
  BY <1>1, <1>2, <1>3, <1>4 DEF StoreInv
<1>6. ClientsInv
  BY <1>1, <1>2 DEF ClientsInv, ClientsKnow
<1> QED
  BY <1>5, <1>6 DEF DirectoryInv

\* The directory with one group replaced or added.
LEMMA WithGroupFacts ==
    ASSUME NEW uids, NEW gids, NEW dir, IsDir(dir, uids, gids), NEW g \in gids, NEW group,
           IsGroup(group, uids)
    PROVE  /\ IsDir(WithGroup(dir, g, group), uids, gids)
           /\ WithGroup(dir, g, group).users = dir.users
           /\ DOMAIN WithGroup(dir, g, group).groups = DOMAIN dir.groups \cup {g}
           /\ WithGroup(dir, g, group).groups[g] = group
           /\ \A h \in DOMAIN dir.groups :
                h # g => WithGroup(dir, g, group).groups[h] = dir.groups[h]
<1> DEFINE new == WithGroup(dir, g, group)
<1>1. /\ DOMAIN new = {"users", "groups"} /\ new.users = dir.users
      /\ new.groups = Put(dir.groups, g, group)
  BY DEF WithGroup, IsDir
<1> HIDE DEF new
<1>2. /\ DOMAIN new.groups = DOMAIN dir.groups \cup {g} /\ new.groups[g] = group
      /\ \A h \in DOMAIN dir.groups : h # g => new.groups[h] = dir.groups[h]
  BY <1>1 DEF Put
<1>3. IsDir(new, uids, gids)
  BY <1>1, <1>2 DEF IsDir
<1> QED
  BY <1>1, <1>2, <1>3 DEF new

\* The same, for the ids that have been given out.
LEMMA WithGroupGiven ==
    ASSUME NEW uids, NEW next, NEW dir, IsDir(dir, uids, 1 .. next - 1), NEW g \in 1 .. next - 1,
           NEW group, IsGroup(group, uids)
    PROVE  /\ IsDir(WithGroup(dir, g, group), uids, 1 .. next - 1)
           /\ WithGroup(dir, g, group).users = dir.users
           /\ DOMAIN WithGroup(dir, g, group).groups = DOMAIN dir.groups \cup {g}
           /\ WithGroup(dir, g, group).groups[g] = group
           /\ \A h \in DOMAIN dir.groups :
                h # g => WithGroup(dir, g, group).groups[h] = dir.groups[h]
<1> DEFINE gids == 1 .. next - 1
<1>1. IsDir(dir, uids, gids) /\ g \in gids
  OBVIOUS
<1> HIDE DEF gids
<1>2. /\ IsDir(WithGroup(dir, g, group), uids, gids)
      /\ WithGroup(dir, g, group).users = dir.users
      /\ DOMAIN WithGroup(dir, g, group).groups = DOMAIN dir.groups \cup {g}
      /\ WithGroup(dir, g, group).groups[g] = group
      /\ \A h \in DOMAIN dir.groups :
                h # g => WithGroup(dir, g, group).groups[h] = dir.groups[h]
  BY <1>1, WithGroupFacts
<1> QED
  BY <1>2 DEF gids

\* The directory without one of its groups.
LEMMA WithoutGroupFacts ==
    ASSUME NEW uids, NEW gids, NEW dir, IsDir(dir, uids, gids), NEW g
    PROVE  /\ IsDir(WithoutGroup(dir, g), uids, gids)
           /\ WithoutGroup(dir, g).users = dir.users
           /\ DOMAIN WithoutGroup(dir, g).groups = DOMAIN dir.groups \ {g}
           /\ \A h \in DOMAIN dir.groups :
                h # g => WithoutGroup(dir, g).groups[h] = dir.groups[h]
<1> DEFINE new == WithoutGroup(dir, g)
<1>1. /\ DOMAIN new = {"users", "groups"} /\ new.users = dir.users
      /\ new.groups = Without(dir.groups, {g})
  BY DEF WithoutGroup, IsDir
<1> HIDE DEF new
<1>2. /\ DOMAIN new.groups = DOMAIN dir.groups \ {g}
      /\ \A h \in DOMAIN dir.groups : h # g => new.groups[h] = dir.groups[h]
  BY <1>1 DEF Without
<1>3. IsDir(new, uids, gids)
  BY <1>1, <1>2 DEF IsDir
<1> QED
  BY <1>1, <1>2, <1>3 DEF new

\* What a directory becomes when the members of one group change.
LEMMA WithMembersFacts ==
    ASSUME NEW uids, NEW gids, NEW dir, IsDir(dir, uids, gids), NEW g, NEW ms \in SUBSET uids
    PROVE  /\ IsDir(WithMembers(dir, g, ms), uids, gids)
           /\ WithMembers(dir, g, ms).users = dir.users
           /\ DOMAIN WithMembers(dir, g, ms).groups = DOMAIN dir.groups
           /\ \A h \in DOMAIN dir.groups :
                h # g => WithMembers(dir, g, ms).groups[h] = dir.groups[h]
           /\ g \in DOMAIN dir.groups =>
                /\ WithMembers(dir, g, ms).groups[g].members = ms
                /\ WithMembers(dir, g, ms).groups[g].owner = dir.groups[g].owner
                /\ WithMembers(dir, g, ms).groups[g].public = dir.groups[g].public
<1> DEFINE new == WithMembers(dir, g, ms)
           group == [dir.groups[g] EXCEPT !.members = ms]
<1>1. CASE g \notin DOMAIN dir.groups
  BY <1>1 DEF WithMembers
<1>2. CASE g \in DOMAIN dir.groups
  <2>1. /\ IsGroup(group, uids) /\ group.members = ms /\ group.owner = dir.groups[g].owner
        /\ group.public = dir.groups[g].public
    <3>1. IsGroup(dir.groups[g], uids)
      BY <1>2 DEF IsDir
    <3> QED
      BY <3>1 DEF IsGroup
  <2>2. /\ DOMAIN new = {"users", "groups"} /\ new.users = dir.users
        /\ new.groups = [dir.groups EXCEPT ![g] = group]
    BY <1>2 DEF WithMembers, IsDir
  <2> HIDE DEF new, group
  <2>3. /\ DOMAIN new.groups = DOMAIN dir.groups /\ new.groups[g] = group
        /\ \A h \in DOMAIN dir.groups : h # g => new.groups[h] = dir.groups[h]
    BY <1>2, <2>2
  <2>4. IsDir(new, uids, gids)
    BY <2>1, <2>2, <2>3 DEF IsDir
  <2> QED
    BY <2>1, <2>2, <2>3, <2>4 DEF new
<1> QED
  BY <1>1, <1>2

\* The same for another owner.
LEMMA WithOwnerFacts ==
    ASSUME NEW uids, NEW gids, NEW dir, IsDir(dir, uids, gids), NEW g \in DOMAIN dir.groups,
           NEW o \in uids
    PROVE  LET new == [dir EXCEPT !.groups[g].owner = o] IN
           /\ IsDir(new, uids, gids)
           /\ new.users = dir.users
           /\ DOMAIN new.groups = DOMAIN dir.groups
           /\ \A h \in DOMAIN dir.groups : h # g => new.groups[h] = dir.groups[h]
           /\ new.groups[g].members = dir.groups[g].members
           /\ new.groups[g].owner = o
           /\ new.groups[g].public = dir.groups[g].public
<1> DEFINE new == [dir EXCEPT !.groups[g].owner = o]
           group == [dir.groups[g] EXCEPT !.owner = o]
<1>1. /\ IsGroup(group, uids) /\ group.members = dir.groups[g].members /\ group.owner = o
      /\ group.public = dir.groups[g].public
  <2>1. IsGroup(dir.groups[g], uids)
    BY DEF IsDir
  <2> QED
    BY <2>1 DEF IsGroup
<1>2. /\ DOMAIN new = {"users", "groups"} /\ new.users = dir.users
      /\ new.groups = [dir.groups EXCEPT ![g] = group]
  BY DEF IsDir
<1> HIDE DEF new, group
<1>3. /\ DOMAIN new.groups = DOMAIN dir.groups /\ new.groups[g] = group
      /\ \A h \in DOMAIN dir.groups : h # g => new.groups[h] = dir.groups[h]
  BY <1>2
<1>4. IsDir(new, uids, gids)
  BY <1>1, <1>2, <1>3 DEF IsDir
<1> QED
  BY <1>1, <1>2, <1>3, <1>4 DEF new

\* More users and more groups may come to exist.
LEMMA IsDirGrows ==
    ASSUME NEW uids, NEW gids, NEW dir, IsDir(dir, uids, gids),
           NEW more, uids \subseteq more, NEW others, gids \subseteq others
    PROVE  IsDir(dir, more, others)
BY DEF IsDir, IsGroup

\* When one group changes, directories agree if they agree about that group.
LEMMA AgreeOnOne ==
    ASSUME NEW new, NEW old, DirsAgree(new, old), NEW new2, NEW old2, NEW g,
           new2.users = new.users, old2.users = old.users,
           DOMAIN new2.groups \ {g} = DOMAIN new.groups \ {g},
           DOMAIN old2.groups \ {g} = DOMAIN old.groups \ {g},
           \A h \in DOMAIN new.groups : h # g => new2.groups[h] = new.groups[h],
           \A h \in DOMAIN old.groups : h # g => old2.groups[h] = old.groups[h],
           g \in DOMAIN new2.groups <=> g \in DOMAIN old2.groups,
           g \in DOMAIN old2.groups =>
                /\ Alike(new2.groups[g], old2.groups[g])
                /\ old2.groups[g].public => old2.groups[g].members = {}
    PROVE  DirsAgree(new2, old2)
<1>1. \A h : h # g => /\ h \in DOMAIN new2.groups <=> h \in DOMAIN new.groups
                      /\ h \in DOMAIN old2.groups <=> h \in DOMAIN old.groups
  OBVIOUS
<1>2. DOMAIN new2.groups \subseteq DOMAIN old2.groups
  BY <1>1 DEF DirsAgree
<1>3. ASSUME NEW h \in DOMAIN new2.groups PROVE Alike(new2.groups[h], old2.groups[h])
  BY <1>1, <1>2, <1>3 DEF DirsAgree
<1>4. ASSUME NEW h \in DOMAIN old2.groups \ DOMAIN new2.groups
      PROVE  ~old2.groups[h].public /\ old2.groups[h].owner \notin old2.users
  BY <1>1, <1>4 DEF DirsAgree
<1>5. ASSUME NEW h \in DOMAIN old2.groups, old2.groups[h].public
      PROVE  old2.groups[h].members = {}
  BY <1>1, <1>5 DEF DirsAgree
<1> QED
  BY <1>2, <1>3, <1>4, <1>5 DEF DirsAgree

\* Rows that can be loaded stay so.
LEMMA LoadWithOne ==
    ASSUME NEW dir, CanLoad(dir), NEW new, NEW g, new.users = dir.users,
           DOMAIN new.groups \subseteq DOMAIN dir.groups \cup {g},
           \A h \in DOMAIN dir.groups : h # g => new.groups[h] = dir.groups[h],
           g \in DOMAIN new.groups =>
                /\ new.groups[g].members \subseteq new.users
                /\ ~new.groups[g].public => new.groups[g].owner # NoOwner
    PROVE  CanLoad(new)
BY DEF CanLoad

\* Group ids are given out upwards.
LEMMA RangeGrows ==
    ASSUME NEW m \in Int, NEW n \in Int, m <= n
    PROVE  1 .. m - 1 \subseteq 1 .. n - 1
OBVIOUS

\* What a handler leaves, whether it got past its commit or not.
LEMMA CommitKeeps ==
    ASSUME DirectoryInv, NEW newCache, NEW newView, AfterCommit(newCache, newView),
           known \subseteq known', known' \subseteq User,
           tokens' \cup registering' \subseteq known',
           online' \subseteq online \cap cache'.users,
           unheard' \in [User -> SUBSET (1 .. nextGid' - 1)],
           \A u \in online' : unheard[u] \subseteq unheard'[u],
           nextGid' \in 1 .. MaxGid + 1, nextGid <= nextGid',
           opened \subseteq opened', opened' \cup deleted' \subseteq 1 .. nextGid' - 1,
           IsDir(rows', known', 1 .. nextGid' - 1), CanLoad(rows'),
           IsDir(newCache, known', 1 .. nextGid' - 1),
           ~cut => DirsAgree(newCache, rows'),
           newView \in [User -> SUBSET (1 .. nextGid' - 1)],
           cache' = newCache => ClientsKnow(newCache, online', newView, opened', unheard')
    PROVE  DirectoryInv'
<1>1. nextGid \in Int /\ nextGid' \in Int /\ 1 .. nextGid - 1 \subseteq 1 .. nextGid' - 1
  <2>1. nextGid \in 1 .. MaxGid + 1 /\ nextGid' \in 1 .. MaxGid + 1
    BY DEF DirectoryInv, StoreInv
  <2>2. nextGid \in Int /\ nextGid' \in Int
    BY <2>1, MaxGidAssumption
  <2> QED
    BY <2>2, RangeGrows
<1>2. cut \in BOOLEAN /\ (cut \/ DirsAgree(cache, rows)) /\ IsDir(cache, known, 1 .. nextGid - 1)
  BY DEF DirectoryInv, StoreInv
<1>3. /\ view \in [User -> SUBSET (1 .. nextGid - 1)]
      /\ ClientsKnow(cache, online, view, opened, unheard)
  BY DEF DirectoryInv, ClientsInv
<1>4. CASE cache' = newCache /\ view' = newView /\ cut' = cut
  <2>1. StoreInv'
    BY <1>2, <1>4 DEF StoreInv
  <2>2. ClientsInv'
    BY <1>4 DEF ClientsInv
  <2> QED
    BY <2>1, <2>2 DEF DirectoryInv
<1>5. CASE cache' = cache /\ view' = view /\ cut' = TRUE
  <2>1. IsDir(cache', known', 1 .. nextGid' - 1)
    BY <1>1, <1>2, <1>5, IsDirGrows
  <2>2. StoreInv'
    BY <2>1, <1>5 DEF StoreInv
  <2>3. view' \in [User -> SUBSET (1 .. nextGid' - 1)]
    BY <1>1, <1>3, <1>5
  <2>4. ClientsKnow(cache', online', view', opened', unheard')
    BY <1>3, <1>5 DEF ClientsKnow
  <2>5. ClientsInv'
    BY <2>3, <2>4 DEF ClientsInv
  <2> QED
    BY <2>2, <2>5 DEF DirectoryInv
<1> QED
  BY <1>4, <1>5 DEF AfterCommit

\* What the invariant says, in the form in which the handlers need it.
LEMMA Holds ==
    ASSUME DirectoryInv
    PROVE  /\ IsDir(rows, known, 1 .. nextGid - 1) /\ IsDir(cache, known, 1 .. nextGid - 1)
           /\ rows.users \subseteq known /\ cache.users \subseteq known
           /\ known \subseteq User /\ tokens \cup registering \subseteq known
           /\ nextGid \in 1 .. MaxGid + 1 /\ nextGid \in Int
           /\ opened \cup deleted \subseteq 1 .. nextGid - 1
           /\ CanLoad(rows)
           /\ ~cut => DirsAgree(cache, rows)
           /\ online \subseteq cache.users
           /\ view \in [User -> SUBSET (1 .. nextGid - 1)]
           /\ unheard \in [User -> SUBSET (1 .. nextGid - 1)]
           /\ ClientsKnow(cache, online, view, opened, unheard)
<1>1. nextGid \in 1 .. MaxGid + 1
  BY DEF DirectoryInv, StoreInv
<1>2. nextGid \in Int
  BY <1>1, MaxGidAssumption
<1>3. IsDir(rows, known, 1 .. nextGid - 1) /\ IsDir(cache, known, 1 .. nextGid - 1)
  BY DEF DirectoryInv, StoreInv
<1>4. rows.users \subseteq known /\ cache.users \subseteq known
  BY <1>3 DEF IsDir
<1> QED
  BY <1>1, <1>2, <1>3, <1>4 DEF DirectoryInv, StoreInv, ClientsInv

\* A handler that changes one group, of which it keeps the others' clients as
\* they are: it is enough to look at that group.
LEMMA OneGroupKeeps ==
    ASSUME DirectoryInv, NEW g \in DOMAIN cache.groups, NEW newCache, NEW newView,
           AfterCommit(newCache, newView),
           UNCHANGED <<known, tokens, online>>, registering' \subseteq registering,
           nextGid' = nextGid,
           unheard' \in [User -> SUBSET (1 .. nextGid - 1)],
           \A u \in online : unheard[u] \subseteq unheard'[u],
           opened \subseteq opened', opened' \cup deleted' \subseteq 1 .. nextGid - 1,
           IsDir(rows', known, 1 .. nextGid - 1), rows'.users = rows.users,
           DOMAIN rows'.groups \ {g} = DOMAIN rows.groups \ {g},
           \A h \in DOMAIN rows.groups : h # g => rows'.groups[h] = rows.groups[h],
           IsDir(newCache, known, 1 .. nextGid - 1), newCache.users = cache.users,
           DOMAIN newCache.groups \ {g} = DOMAIN cache.groups \ {g},
           \A h \in DOMAIN cache.groups : h # g => newCache.groups[h] = cache.groups[h],
           g \in DOMAIN rows'.groups =>
                /\ rows'.groups[g].members \subseteq rows.users
                /\ ~rows'.groups[g].public => rows'.groups[g].owner # NoOwner,
           ~cut /\ DirsAgree(cache, rows) /\ g \in DOMAIN rows.groups
                /\ Alike(cache.groups[g], rows.groups[g]) =>
                /\ g \in DOMAIN newCache.groups <=> g \in DOMAIN rows'.groups
                /\ g \in DOMAIN rows'.groups =>
                     /\ Alike(newCache.groups[g], rows'.groups[g])
                     /\ rows'.groups[g].public => rows'.groups[g].members = {},
           newView \in [User -> SUBSET (1 .. nextGid - 1)],
           \A u \in User : newView[u] \ {g} = view[u] \ {g},
           g \in DOMAIN newCache.groups =>
             \A u \in online :
                /\ u \notin Guest
                   /\ (newCache.groups[g].public \/ u \in newCache.groups[g].members)
                      => g \in newView[u] \cup unheard'[u]
                /\ g \in newView[u] => \/ newCache.groups[g].public
                                       \/ u \in newCache.groups[g].members
                                       \/ g \in opened'
    PROVE  DirectoryInv'
<1>1. /\ known' = known /\ tokens' = tokens /\ registering' \subseteq registering
      /\ online' = online /\ online \subseteq User
  BY Holds
<1>2. CanLoad(rows')
  BY Holds, LoadWithOne
<1>3. ~cut => DirsAgree(newCache, rows')
  <2> SUFFICES ASSUME ~cut PROVE DirsAgree(newCache, rows')
    OBVIOUS
  <2>1. DirsAgree(cache, rows)
    BY Holds
  <2>2. g \in DOMAIN rows.groups /\ Alike(cache.groups[g], rows.groups[g])
    BY <2>1 DEF DirsAgree
  <2> QED
    BY <2>1, <2>2, AgreeOnOne
<1>4. ClientsKnow(newCache, online, newView, opened', unheard')
  <2>1. ClientsKnow(cache, online, view, opened, unheard)
    BY Holds
  <2>2. DOMAIN newCache.groups \subseteq DOMAIN cache.groups \cup {g}
    OBVIOUS
  <2>3. \A u \in online : newView[u] \ {g} = view[u] \ {g}
    BY <1>1
  <2> DEFINE were == opened'
             missed == unheard'
  <2>4. opened \subseteq were /\ \A u \in online : unheard[u] \subseteq missed[u]
    OBVIOUS
  <2>5. g \in DOMAIN newCache.groups =>
             \A u \in online :
                /\ u \notin Guest
                   /\ (newCache.groups[g].public \/ u \in newCache.groups[g].members)
                      => g \in newView[u] \cup missed[u]
                /\ g \in newView[u] => newCache.groups[g].public
                       \/ u \in newCache.groups[g].members \/ g \in were
    OBVIOUS
  <2> HIDE DEF were, missed
  <2>6. ClientsKnow(newCache, online, newView, were, missed)
    <3> SUFFICES ASSUME NEW u \in online, NEW h \in DOMAIN newCache.groups
                 PROVE  /\ u \notin Guest
                             /\ (newCache.groups[h].public \/ u \in newCache.groups[h].members)
                              => h \in newView[u] \cup missed[u]
                        /\ h \in newView[u] => newCache.groups[h].public
                             \/ u \in newCache.groups[h].members \/ h \in were
      BY DEF ClientsKnow
    <3>1. CASE h = g
      BY <3>1, <2>5
    <3>2. CASE h # g
      <4>1. h \in DOMAIN cache.groups /\ newCache.groups[h] = cache.groups[h]
        BY <3>2, <2>2
      <4>2. h \in newView[u] <=> h \in view[u]
        BY <3>2, <2>3
      <4>3. /\ u \notin Guest
                /\ (cache.groups[h].public \/ u \in cache.groups[h].members)
                              => h \in view[u] \cup unheard[u]
            /\ h \in view[u] => cache.groups[h].public
                             \/ u \in cache.groups[h].members \/ h \in opened
        BY <4>1, <2>1 DEF ClientsKnow
      <4> QED
        BY <4>1, <4>2, <4>3, <2>4
    <3> QED
      BY <3>1, <3>2
  <2> QED
    BY <2>6 DEF were, missed
<1>5. online' \subseteq online \cap cache'.users
  BY <1>1, Holds DEF AfterCommit
<1> QED
  BY <1>1, <1>2, <1>3, <1>4, <1>5, Holds, CommitKeeps

-----------------------------------------------------------------------------
\* ApiGroup::delete.
LEMMA DeleteGroupKeeps ==
    ASSUME DirectoryInv, NEW a, NEW g \in DOMAIN cache.groups, DeleteGroup(a, g)
    PROVE  DirectoryInv'
<1> DEFINE newCache == WithoutGroup(cache, g)
           members  == IF cache.groups[g].public THEN cache.users ELSE cache.groups[g].members
           newView  == Kicked(members, g)
<1>1. /\ AfterCommit(newCache, newView) /\ rows' = WithoutGroup(rows, g)
      /\ UNCHANGED <<known, tokens, online, unheard>> /\ registering' = registering
      /\ nextGid' = nextGid /\ opened' = opened
      /\ deleted' \subseteq deleted \cup DOMAIN cache.groups
  BY DEF DeleteGroup, accountVars
<1>2. /\ IsDir(newCache, known, 1 .. nextGid - 1) /\ newCache.users = cache.users
      /\ DOMAIN newCache.groups = DOMAIN cache.groups \ {g}
      /\ \A h \in DOMAIN cache.groups : h # g => newCache.groups[h] = cache.groups[h]
  BY Holds, WithoutGroupFacts
<1>3. /\ IsDir(rows', known, 1 .. nextGid - 1) /\ rows'.users = rows.users
      /\ DOMAIN rows'.groups = DOMAIN rows.groups \ {g}
      /\ \A h \in DOMAIN rows.groups : h # g => rows'.groups[h] = rows.groups[h]
  BY <1>1, Holds, WithoutGroupFacts
<1>4. /\ newView \in [User -> SUBSET (1 .. nextGid - 1)]
      /\ \A u \in User : newView[u] \ {g} = view[u] \ {g}
  BY Holds DEF Kicked
<1>5. /\ opened' \cup deleted' \subseteq 1 .. nextGid - 1
      /\ unheard' \in [User -> SUBSET (1 .. nextGid - 1)]
      /\ \A u \in online : unheard[u] \subseteq unheard'[u]
  BY <1>1, Holds DEF IsDir
<1> HIDE DEF newCache, newView
<1> QED
  BY <1>1, <1>2, <1>3, <1>4, <1>5, OneGroupKeeps

\* ApiGroup::update.
LEMMA UpdateOwnerKeeps ==
    ASSUME DirectoryInv, NEW a, NEW g \in DOMAIN cache.groups, NEW owner,
           UpdateOwner(a, g, owner)
    PROVE  DirectoryInv'
<1> DEFINE newCache == [cache EXCEPT !.groups[g].owner = owner]
<1>1. /\ AfterCommit(newCache, view)
      /\ rows' = IF g \in DOMAIN rows.groups THEN [rows EXCEPT !.groups[g].owner = owner] ELSE rows
      /\ UNCHANGED <<known, tokens, online, unheard>> /\ registering' = registering
      /\ nextGid' = nextGid /\ opened' = opened /\ deleted' = deleted
      /\ ~cache.groups[g].public /\ owner \in cache.groups[g].members
  BY DEF UpdateOwner, accountVars
<1>2. IsGroup(cache.groups[g], known)
  BY Holds DEF IsDir
<1>3. owner \in known /\ owner # NoOwner
  BY <1>1, <1>2, Holds, NoOwnerAssumption DEF IsGroup
<1>4. /\ IsDir(newCache, known, 1 .. nextGid - 1) /\ newCache.users = cache.users
      /\ DOMAIN newCache.groups = DOMAIN cache.groups
      /\ \A h \in DOMAIN cache.groups : h # g => newCache.groups[h] = cache.groups[h]
      /\ newCache.groups[g].members = cache.groups[g].members
      /\ newCache.groups[g].owner = owner
      /\ newCache.groups[g].public = cache.groups[g].public
  BY <1>3, Holds, WithOwnerFacts
<1>5. /\ IsDir(rows', known, 1 .. nextGid - 1) /\ rows'.users = rows.users
      /\ DOMAIN rows'.groups = DOMAIN rows.groups
      /\ \A h \in DOMAIN rows.groups : h # g => rows'.groups[h] = rows.groups[h]
      /\ g \in DOMAIN rows.groups =>
            /\ rows'.groups[g].members = rows.groups[g].members
            /\ rows'.groups[g].owner = owner
            /\ rows'.groups[g].public = rows.groups[g].public
  BY <1>1, <1>3, Holds, WithOwnerFacts
<1>6. g \in DOMAIN rows'.groups =>
            /\ rows'.groups[g].members \subseteq rows.users
            /\ ~rows'.groups[g].public => rows'.groups[g].owner # NoOwner
  BY <1>3, <1>5, Holds DEF CanLoad
<1>7. DirsAgree(cache, rows) /\ g \in DOMAIN rows.groups
            /\ Alike(cache.groups[g], rows.groups[g]) =>
            /\ Alike(newCache.groups[g], rows'.groups[g])
            /\ rows'.groups[g].public => rows'.groups[g].members = {}
  BY <1>4, <1>5 DEF Alike, DirsAgree
<1>8. \A u \in online :
            /\ u \notin Guest
               /\ (newCache.groups[g].public \/ u \in newCache.groups[g].members)
                  => g \in view[u] \cup unheard'[u]
            /\ g \in view[u] => \/ newCache.groups[g].public
                                \/ u \in newCache.groups[g].members
                                \/ g \in opened'
  BY <1>1, <1>4, Holds DEF ClientsKnow
<1>9. /\ opened' \cup deleted' \subseteq 1 .. nextGid - 1 /\ opened \subseteq opened'
      /\ unheard' \in [User -> SUBSET (1 .. nextGid - 1)]
      /\ \A u \in online : unheard[u] \subseteq unheard'[u]
      /\ view \in [User -> SUBSET (1 .. nextGid - 1)]
  BY <1>1, Holds
<1> HIDE DEF newCache
<1> QED
  BY <1>1, <1>4, <1>5, <1>6, <1>7, <1>8, <1>9, OneGroupKeeps

\* A private group as handlers write it.
LEMMA PrivateFacts ==
    ASSUME NEW uids, NEW owner \in uids, NEW members \in SUBSET uids
    PROVE  /\ IsGroup(Private(owner, members), uids)
           /\ ~Private(owner, members).public
           /\ Private(owner, members).owner = owner
           /\ Private(owner, members).members = members
BY DEF IsGroup, Private

\* A public group names nobody.
LEMMA PublicFacts ==
    ASSUME NEW uids
    PROVE  IsGroup(Public, uids) /\ Public.public /\ Public.members = {}
BY DEF IsGroup, Public

\* change_type of a public group.
LEMMA ChangeToPrivateKeeps ==
    ASSUME DirectoryInv, NEW a \in User, NEW g \in DOMAIN cache.groups, NEW chosen \in SUBSET User,
           ChangeToPrivate(a, g, chosen)
    PROVE  DirectoryInv'
<1> DEFINE members  == IF chosen = {} THEN cache.users \ Guest ELSE chosen
           inRows   == rows.groups[g].members \cup members
           newCache == WithGroup(cache, g, Private(a, members))
<1>1. /\ AfterCommit(newCache, view)
      /\ rows' = WithGroup(rows, g, Private(a, inRows))
      /\ UNCHANGED <<known, tokens, online, unheard>> /\ registering' = registering
      /\ nextGid' = nextGid /\ opened' = opened \cup {g}
      /\ deleted' = deleted
      /\ a \in tokens /\ cache.groups[g].public /\ g \in DOMAIN rows.groups
      /\ members \subseteq rows.users
  BY DEF ChangeToPrivate, CanInsert, accountVars
<1> HIDE DEF members
<1>2. a \in known /\ g \in 1 .. nextGid - 1 /\ a # NoOwner
  BY <1>1, Holds, NoOwnerAssumption DEF IsDir
<1>3. inRows \subseteq rows.users
  BY <1>1, Holds DEF CanLoad
<1>4. members \subseteq known /\ inRows \subseteq known
  BY <1>1, <1>3, Holds
<1> HIDE DEF inRows
<1>5. /\ IsGroup(Private(a, members), known) /\ ~Private(a, members).public
      /\ Private(a, members).owner = a /\ Private(a, members).members = members
      /\ IsGroup(Private(a, inRows), known) /\ ~Private(a, inRows).public
      /\ Private(a, inRows).owner = a /\ Private(a, inRows).members = inRows
  BY <1>2, <1>4, PrivateFacts
<1>6. /\ IsDir(newCache, known, 1 .. nextGid - 1) /\ newCache.users = cache.users
      /\ DOMAIN newCache.groups = DOMAIN cache.groups \cup {g}
      /\ \A h \in DOMAIN cache.groups : h # g => newCache.groups[h] = cache.groups[h]
      /\ newCache.groups[g] = Private(a, members)
  <2>1. IsDir(cache, known, 1 .. nextGid - 1)
    BY Holds
  <2> QED
    BY <1>2, <1>5, <2>1, WithGroupGiven
<1>7. /\ IsDir(rows', known, 1 .. nextGid - 1) /\ rows'.users = rows.users
      /\ DOMAIN rows'.groups = DOMAIN rows.groups \cup {g}
      /\ \A h \in DOMAIN rows.groups : h # g => rows'.groups[h] = rows.groups[h]
      /\ rows'.groups[g] = Private(a, inRows)
  <2>1. IsDir(rows, known, 1 .. nextGid - 1)
    BY Holds
  <2> QED
    BY <1>1, <1>2, <1>5, <2>1, WithGroupGiven
<1>8. /\ rows'.groups[g].members \subseteq rows.users
      /\ ~rows'.groups[g].public => rows'.groups[g].owner # NoOwner
  BY <1>2, <1>3, <1>5, <1>7
<1>9. DirsAgree(cache, rows) /\ g \in DOMAIN rows.groups
            /\ Alike(cache.groups[g], rows.groups[g]) =>
            /\ Alike(newCache.groups[g], rows'.groups[g])
            /\ rows'.groups[g].public => rows'.groups[g].members = {}
  <2> SUFFICES ASSUME DirsAgree(cache, rows), Alike(cache.groups[g], rows.groups[g])
               PROVE  Alike(newCache.groups[g], rows'.groups[g])
    BY <1>5, <1>7
  <2>1. rows.groups[g].members = {}
    BY <1>1 DEF DirsAgree, Alike
  <2>2. inRows = members
    BY <2>1 DEF inRows
  <2> QED
    BY <1>5, <1>6, <1>7, <2>2 DEF Alike
<1>10. \A u \in online :
            /\ u \notin Guest
               /\ (newCache.groups[g].public \/ u \in newCache.groups[g].members)
                  => g \in view[u] \cup unheard'[u]
            /\ g \in view[u] => \/ newCache.groups[g].public
                                \/ u \in newCache.groups[g].members
                                \/ g \in opened'
  BY <1>1, Holds DEF ClientsKnow
<1>11. /\ opened' \cup deleted' \subseteq 1 .. nextGid - 1 /\ opened \subseteq opened'
       /\ unheard' \in [User -> SUBSET (1 .. nextGid - 1)]
       /\ \A u \in online : unheard[u] \subseteq unheard'[u]
       /\ view \in [User -> SUBSET (1 .. nextGid - 1)]
  BY <1>1, <1>2, Holds
<1>12. DOMAIN newCache.groups \ {g} = DOMAIN cache.groups \ {g} /\ g \in DOMAIN newCache.groups
       /\ DOMAIN rows'.groups \ {g} = DOMAIN rows.groups \ {g} /\ g \in DOMAIN rows'.groups
  BY <1>6, <1>7
<1> HIDE DEF newCache
<1> QED
  BY <1>1, <1>6, <1>7, <1>8, <1>9, <1>10, <1>11, <1>12, OneGroupKeeps

\* change_type of a private group.
LEMMA ChangeToPublicKeeps ==
    ASSUME DirectoryInv, NEW a \in User, NEW g \in DOMAIN cache.groups, ChangeToPublic(a, g)
    PROVE  DirectoryInv'
<1> DEFINE newMembers == (cache.users \ Guest) \ cache.groups[g].members
           newView    == Joined(newMembers, g)
           newCache   == WithGroup(cache, g, Public)
<1>1. /\ AfterCommit(newCache, newView)
      /\ rows' = IF g \in DOMAIN rows.groups THEN WithGroup(rows, g, Public) ELSE rows
      /\ UNCHANGED <<known, tokens, online, unheard>> /\ registering' = registering
      /\ nextGid' = nextGid /\ opened' = opened
      /\ deleted' = deleted
  BY DEF ChangeToPublic, accountVars
<1>2. g \in 1 .. nextGid - 1
  BY Holds DEF IsDir
<1>3. /\ IsDir(newCache, known, 1 .. nextGid - 1) /\ newCache.users = cache.users
      /\ DOMAIN newCache.groups = DOMAIN cache.groups \cup {g}
      /\ \A h \in DOMAIN cache.groups : h # g => newCache.groups[h] = cache.groups[h]
      /\ newCache.groups[g] = Public
  <2>1. IsDir(cache, known, 1 .. nextGid - 1) /\ IsGroup(Public, known)
    BY Holds, PublicFacts
  <2> QED
    BY <1>2, <2>1, WithGroupGiven
<1>4. /\ IsDir(rows', known, 1 .. nextGid - 1) /\ rows'.users = rows.users
      /\ DOMAIN rows'.groups = DOMAIN rows.groups
      /\ \A h \in DOMAIN rows.groups : h # g => rows'.groups[h] = rows.groups[h]
      /\ g \in DOMAIN rows.groups => rows'.groups[g] = Public
  <2>1. CASE g \in DOMAIN rows.groups
    <3>1. IsDir(rows, known, 1 .. nextGid - 1) /\ IsGroup(Public, known)
      BY Holds, PublicFacts
    <3>2. rows' = WithGroup(rows, g, Public)
      BY <1>1, <2>1
    <3>3. /\ IsDir(rows', known, 1 .. nextGid - 1) /\ rows'.users = rows.users
          /\ DOMAIN rows'.groups = DOMAIN rows.groups \cup {g}
          /\ \A h \in DOMAIN rows.groups : h # g => rows'.groups[h] = rows.groups[h]
          /\ rows'.groups[g] = Public
      BY <1>2, <3>1, <3>2, WithGroupGiven
    <3> QED
      BY <2>1, <3>3
  <2>2. CASE g \notin DOMAIN rows.groups
    BY <1>1, <2>2, Holds
  <2> QED
    BY <2>1, <2>2
<1>5. g \in DOMAIN rows'.groups =>
            /\ rows'.groups[g].members \subseteq rows.users
            /\ ~rows'.groups[g].public => rows'.groups[g].owner # NoOwner
  BY <1>4, PublicFacts
<1>6. g \in DOMAIN rows'.groups =>
            /\ Alike(newCache.groups[g], rows'.groups[g])
            /\ rows'.groups[g].public => rows'.groups[g].members = {}
  BY <1>3, <1>4, PublicFacts DEF Alike
<1>7. /\ newView \in [User -> SUBSET (1 .. nextGid - 1)]
      /\ \A u \in User : newView[u] \ {g} = view[u] \ {g}
  BY <1>2, Holds DEF Joined
<1>8. ASSUME NEW u \in online, u \notin Guest PROVE g \in newView[u] \cup unheard'[u]
  <2>1. u \in User /\ u \in cache.users
    BY Holds
  <2>2. CASE u \in cache.groups[g].members
    BY <1>1, <1>8, <2>1, <2>2, Holds DEF ClientsKnow, Joined
  <2>3. CASE u \notin cache.groups[g].members
    BY <1>8, <2>1, <2>3, Holds DEF Joined
  <2> QED
    BY <2>2, <2>3
<1>9. newCache.groups[g].public
  BY <1>3, PublicFacts
<1>10. /\ opened' \cup deleted' \subseteq 1 .. nextGid - 1 /\ opened \subseteq opened'
       /\ unheard' \in [User -> SUBSET (1 .. nextGid - 1)]
       /\ \A u \in online : unheard[u] \subseteq unheard'[u]
  BY <1>1, Holds
<1>11. DOMAIN newCache.groups \ {g} = DOMAIN cache.groups \ {g} /\ g \in DOMAIN newCache.groups
  BY <1>3
<1> HIDE DEF newCache, newView
<1> QED
  BY <1>1, <1>3, <1>4, <1>5, <1>6, <1>7, <1>8, <1>9, <1>10, <1>11, OneGroupKeeps

\* A handler that puts members into a private group, and tells them of it or
\* notes that it did not, ...
Putting(g, ms, newView) ==
    /\ ~cache.groups[g].public
    /\ CanInsert(g, ms)
    /\ rows' = WithMembers(rows, g, rows.groups[g].members \cup ms)
    /\ AfterCommit(WithMembers(cache, g, cache.groups[g].members \cup ms), newView)
    /\ newView \in [User -> SUBSET (1 .. nextGid - 1)]
    /\ \A u \in User : \/ newView[u] = view[u]
                       \/ u \in ms /\ newView[u] = view[u] \cup {g}
    /\ unheard' \in [User -> SUBSET (1 .. nextGid - 1)]
    /\ \A u \in online : /\ unheard[u] \subseteq unheard'[u]
                         /\ u \in ms => g \in newView[u] \cup unheard'[u]
    /\ registering' \subseteq registering
    /\ UNCHANGED <<known, tokens, online, nextGid, opened, deleted>>

\* ... and one that takes members out.
Taking(g, ms) ==
    /\ ~cache.groups[g].public
    /\ rows' = RowsWithoutMembers(g, ms)
    /\ AfterCommit(WithMembers(cache, g, cache.groups[g].members \ ms), Kicked(ms, g))
    /\ UNCHANGED <<accountVars, nextGid, opened, deleted>>

\* Putting keeps the invariant, ...
LEMMA PuttingKeeps ==
    ASSUME DirectoryInv, NEW g \in DOMAIN cache.groups, NEW ms, NEW newView,
           Putting(g, ms, newView)
    PROVE  DirectoryInv'
<1> DEFINE inRows   == rows.groups[g].members \cup ms
           inCache  == cache.groups[g].members \cup ms
           newCache == WithMembers(cache, g, inCache)
<1>1. /\ AfterCommit(newCache, newView) /\ rows' = WithMembers(rows, g, inRows)
      /\ UNCHANGED <<known, tokens, online>> /\ registering' \subseteq registering
      /\ nextGid' = nextGid /\ opened' = opened /\ deleted' = deleted
      /\ ~cache.groups[g].public /\ g \in DOMAIN rows.groups /\ ms \subseteq rows.users
      /\ g \in 1 .. nextGid - 1
  BY Holds DEF Putting, CanInsert, IsDir
<1>2. inRows \subseteq rows.users /\ inRows \in SUBSET known /\ inCache \in SUBSET known
  <2>1. rows.groups[g].members \subseteq rows.users
    BY <1>1, Holds DEF CanLoad
  <2>2. IsGroup(cache.groups[g], known)
    BY Holds DEF IsDir
  <2> QED
    BY <1>1, <2>1, <2>2, Holds DEF IsGroup
<1> HIDE DEF inRows, inCache, newCache
<1>3. /\ IsDir(newCache, known, 1 .. nextGid - 1) /\ newCache.users = cache.users
      /\ DOMAIN newCache.groups = DOMAIN cache.groups
      /\ \A h \in DOMAIN cache.groups : h # g => newCache.groups[h] = cache.groups[h]
      /\ newCache.groups[g].members = inCache
      /\ newCache.groups[g].owner = cache.groups[g].owner
      /\ newCache.groups[g].public = cache.groups[g].public
  BY <1>1, <1>2, Holds, WithMembersFacts DEF newCache
<1>4. /\ IsDir(rows', known, 1 .. nextGid - 1) /\ rows'.users = rows.users
      /\ DOMAIN rows'.groups = DOMAIN rows.groups
      /\ \A h \in DOMAIN rows.groups : h # g => rows'.groups[h] = rows.groups[h]
      /\ g \in DOMAIN rows.groups =>
            /\ rows'.groups[g].members = inRows
            /\ rows'.groups[g].owner = rows.groups[g].owner
            /\ rows'.groups[g].public = rows.groups[g].public
  BY <1>1, <1>2, Holds, WithMembersFacts
<1>5. g \in DOMAIN rows'.groups =>
            /\ rows'.groups[g].members \subseteq rows.users
            /\ ~rows'.groups[g].public => rows'.groups[g].owner # NoOwner
  BY <1>2, <1>4, Holds DEF CanLoad
<1>6. DirsAgree(cache, rows) /\ g \in DOMAIN rows.groups
            /\ Alike(cache.groups[g], rows.groups[g]) =>
            /\ Alike(newCache.groups[g], rows'.groups[g])
            /\ rows'.groups[g].public => rows'.groups[g].members = {}
  BY <1>1, <1>3, <1>4 DEF Alike, inCache, inRows
<1>7. /\ newView \in [User -> SUBSET (1 .. nextGid - 1)]
      /\ \A u \in User : newView[u] \ {g} = view[u] \ {g}
      /\ unheard' \in [User -> SUBSET (1 .. nextGid - 1)]
      /\ \A u \in online : unheard[u] \subseteq unheard'[u]
  BY DEF Putting
<1>8. \A u \in online :
            /\ u \notin Guest
               /\ (newCache.groups[g].public \/ u \in newCache.groups[g].members)
                  => g \in newView[u] \cup unheard'[u]
            /\ g \in newView[u] => \/ newCache.groups[g].public
                                   \/ u \in newCache.groups[g].members
                                   \/ g \in opened'
  <2> SUFFICES ASSUME NEW u \in online
               PROVE  /\ u \notin Guest /\ u \in newCache.groups[g].members
                           => g \in newView[u] \cup unheard'[u]
                      /\ g \in newView[u] => u \in newCache.groups[g].members \/ g \in opened
    BY <1>1, <1>3
  <2>1. u \in User
    BY Holds
  <2>2. /\ u \notin Guest /\ u \in cache.groups[g].members => g \in view[u] \cup unheard[u]
        /\ g \in view[u] => u \in cache.groups[g].members \/ g \in opened
    BY <1>1, Holds DEF ClientsKnow
  <2>3. /\ g \in newView[u] => u \in ms \/ g \in view[u]
        /\ g \in view[u] => g \in newView[u]
        /\ u \in ms => g \in newView[u] \cup unheard'[u]
    BY <2>1 DEF Putting
  <2> QED
    BY <1>3, <1>7, <2>2, <2>3 DEF inCache
<1>9. opened' \cup deleted' \subseteq 1 .. nextGid - 1 /\ opened \subseteq opened'
  BY <1>1, Holds
<1> QED
  BY <1>1, <1>3, <1>4, <1>5, <1>6, <1>7, <1>8, <1>9, OneGroupKeeps

\* ... as does taking.
LEMMA TakingKeeps ==
    ASSUME DirectoryInv, NEW g \in DOMAIN cache.groups, NEW ms, Taking(g, ms)
    PROVE  DirectoryInv'
<1> DEFINE inRows   == rows.groups[g].members \ ms
           inCache  == cache.groups[g].members \ ms
           newCache == WithMembers(cache, g, inCache)
           newView  == Kicked(ms, g)
<1>1. /\ AfterCommit(newCache, newView)
      /\ rows' = IF g \in DOMAIN rows.groups THEN WithMembers(rows, g, inRows) ELSE rows
      /\ UNCHANGED <<known, tokens, online, unheard>> /\ registering' \subseteq registering
      /\ nextGid' = nextGid /\ opened' = opened /\ deleted' = deleted
      /\ ~cache.groups[g].public
  BY DEF Taking, RowsWithoutMembers, accountVars
<1>2. /\ g \in DOMAIN rows.groups => inRows \subseteq rows.users /\ inRows \in SUBSET known
      /\ inCache \in SUBSET known
  <2>1. g \in DOMAIN rows.groups => rows.groups[g].members \subseteq rows.users
    BY <1>1, Holds DEF CanLoad
  <2>2. IsGroup(cache.groups[g], known)
    BY Holds DEF IsDir
  <2> QED
    BY <1>1, <2>1, <2>2, Holds DEF IsGroup
<1> HIDE DEF inRows, inCache, newCache
<1>3. /\ IsDir(newCache, known, 1 .. nextGid - 1) /\ newCache.users = cache.users
      /\ DOMAIN newCache.groups = DOMAIN cache.groups
      /\ \A h \in DOMAIN cache.groups : h # g => newCache.groups[h] = cache.groups[h]
      /\ newCache.groups[g].members = inCache
      /\ newCache.groups[g].owner = cache.groups[g].owner
      /\ newCache.groups[g].public = cache.groups[g].public
  BY <1>1, <1>2, Holds, WithMembersFacts DEF newCache
<1>4. /\ IsDir(rows', known, 1 .. nextGid - 1) /\ rows'.users = rows.users
      /\ DOMAIN rows'.groups = DOMAIN rows.groups
      /\ \A h \in DOMAIN rows.groups : h # g => rows'.groups[h] = rows.groups[h]
      /\ g \in DOMAIN rows.groups =>
            /\ rows'.groups[g].members = inRows
            /\ rows'.groups[g].owner = rows.groups[g].owner
            /\ rows'.groups[g].public = rows.groups[g].public
  BY <1>1, <1>2, Holds, WithMembersFacts
<1>5. g \in DOMAIN rows'.groups =>
            /\ rows'.groups[g].members \subseteq rows.users
            /\ ~rows'.groups[g].public => rows'.groups[g].owner # NoOwner
  BY <1>2, <1>4, Holds DEF CanLoad
<1>6. DirsAgree(cache, rows) /\ g \in DOMAIN rows.groups
            /\ Alike(cache.groups[g], rows.groups[g]) =>
            /\ Alike(newCache.groups[g], rows'.groups[g])
            /\ rows'.groups[g].public => rows'.groups[g].members = {}
  BY <1>1, <1>3, <1>4 DEF Alike, inCache, inRows
<1>7. /\ newView \in [User -> SUBSET (1 .. nextGid - 1)]
      /\ \A u \in User : newView[u] \ {g} = view[u] \ {g}
  BY <1>1, Holds DEF Kicked
<1>8. \A u \in online :
            /\ u \notin Guest
               /\ (newCache.groups[g].public \/ u \in newCache.groups[g].members)
                  => g \in newView[u] \cup unheard'[u]
            /\ g \in newView[u] => \/ newCache.groups[g].public
                                   \/ u \in newCache.groups[g].members
                                   \/ g \in opened'
  <2> SUFFICES ASSUME NEW u \in online
               PROVE  /\ u \notin Guest /\ u \in newCache.groups[g].members
                           => g \in newView[u] \cup unheard'[u]
                      /\ g \in newView[u] => u \in newCache.groups[g].members \/ g \in opened
    BY <1>1, <1>3
  <2>1. u \in User
    BY Holds
  <2>2. /\ u \notin Guest /\ u \in cache.groups[g].members => g \in view[u] \cup unheard[u]
        /\ g \in view[u] => u \in cache.groups[g].members \/ g \in opened
    BY <1>1, Holds DEF ClientsKnow
  <2>3. g \in newView[u] <=> u \notin ms /\ g \in view[u]
    BY <2>1 DEF Kicked
  <2> QED
    BY <1>1, <1>3, <2>2, <2>3 DEF inCache
<1>9. /\ opened' \cup deleted' \subseteq 1 .. nextGid - 1 /\ opened \subseteq opened'
      /\ unheard' \in [User -> SUBSET (1 .. nextGid - 1)]
      /\ \A u \in online : unheard[u] \subseteq unheard'[u]
  BY <1>1, Holds
<1> HIDE DEF newView
<1> QED
  BY <1>1, <1>3, <1>4, <1>5, <1>6, <1>7, <1>8, <1>9, OneGroupKeeps

\* register puts the new user, whose client is not told.
LEMMA JoinInvitedKeeps ==
    ASSUME DirectoryInv, NEW u \in User, NEW g \in DOMAIN cache.groups, JoinInvited(u, g)
    PROVE  DirectoryInv'
<1>1. /\ unheard' = [unheard EXCEPT ![u] = IF u \in online THEN @ \cup {g} ELSE @]
      /\ g \in 1 .. nextGid - 1
  BY Holds DEF JoinInvited, IsDir
<1>2. unheard' \in [User -> SUBSET (1 .. nextGid - 1)]
  BY <1>1, Holds
<1>3. \A x \in online : /\ x \in User /\ unheard[x] \subseteq unheard'[x]
                        /\ x \in {u} => g \in unheard'[x]
  BY <1>1, Holds
<1>4. Putting(g, {u}, view)
  <2>1. /\ ~cache.groups[g].public /\ CanInsert(g, {u})
        /\ rows' = WithMembers(rows, g, rows.groups[g].members \cup {u})
        /\ AfterCommit(WithMembers(cache, g, cache.groups[g].members \cup {u}), view)
        /\ registering' \subseteq registering
        /\ UNCHANGED <<known, tokens, online, nextGid, opened, deleted>>
    BY DEF JoinInvited
  <2>2. view \in [User -> SUBSET (1 .. nextGid - 1)]
    BY Holds
  <2> QED
    BY <1>2, <1>3, <2>1, <2>2 DEF Putting
<1> QED
  BY <1>4, PuttingKeeps

\* ApiGroup::add_members puts.
LEMMA AddMembersKeeps ==
    ASSUME DirectoryInv, NEW a, NEW g \in DOMAIN cache.groups, NEW ms, AddMembers(a, g, ms)
    PROVE  DirectoryInv'
<1> DEFINE newView == Joined(ms, g)
<1>1. g \in 1 .. nextGid - 1 /\ online \subseteq User
  BY Holds DEF IsDir
<1>2. /\ newView \in [User -> SUBSET (1 .. nextGid - 1)]
      /\ \A u \in User : \/ newView[u] = view[u]
                         \/ u \in ms /\ newView[u] = view[u] \cup {g}
      /\ \A u \in online : u \in ms => g \in newView[u]
  <2>1. \A u \in User : newView[u] = IF u \in ms \cap online THEN view[u] \cup {g} ELSE view[u]
    BY DEF Joined
  <2>2. newView = [u \in User |-> newView[u]]
    BY DEF Joined
  <2>3. view \in [User -> SUBSET (1 .. nextGid - 1)]
    BY Holds
  <2> HIDE DEF newView
  <2> QED
    BY <1>1, <2>1, <2>2, <2>3
<1> HIDE DEF newView
<1>3. unheard' = unheard /\ unheard \in [User -> SUBSET (1 .. nextGid - 1)]
  BY Holds DEF AddMembers, accountVars
<1>4. Putting(g, ms, newView)
  BY <1>2, <1>3 DEF Putting, AddMembers, accountVars, newView
<1> QED
  BY <1>4, PuttingKeeps

\* ApiGroup::leave takes the caller out.
LEMMA LeaveGroupKeeps ==
    ASSUME DirectoryInv, NEW u, NEW g \in DOMAIN cache.groups, LeaveGroup(u, g)
    PROVE  DirectoryInv'
BY TakingKeeps DEF Taking, LeaveGroup

\* ApiGroup::remove_members takes out those that were named.
LEMMA RemoveMembersKeeps ==
    ASSUME DirectoryInv, NEW a, NEW g \in DOMAIN cache.groups, NEW ms, RemoveMembers(a, g, ms)
    PROVE  DirectoryInv'
BY TakingKeeps DEF Taking, RemoveMembers

-----------------------------------------------------------------------------
\* State::create_user: nothing names the new account yet.
LEMMA CreateUserKeeps ==
    ASSUME DirectoryInv, NEW u \in User, CreateUser(u)
    PROVE  DirectoryInv'
<1> DEFINE newCache == [cache EXCEPT !.users = @ \cup {u}]
           uids     == known \cup {u}
<1>1. /\ AfterCommit(newCache, view) /\ rows' = [rows EXCEPT !.users = @ \cup {u}]
      /\ u \notin known /\ known' = uids /\ tokens' = tokens \cup cache'.users
      /\ registering' = registering \cup (cache'.users \ cache.users)
      /\ nextGid' = nextGid /\ online' = online /\ opened' = opened /\ deleted' = deleted
      /\ unheard' = unheard
  BY DEF CreateUser
<1>2. /\ DOMAIN newCache = {"users", "groups"} /\ newCache.users = cache.users \cup {u}
      /\ newCache.groups = cache.groups
  BY Holds DEF IsDir
<1>3. /\ DOMAIN rows' = {"users", "groups"} /\ rows'.users = rows.users \cup {u}
      /\ rows'.groups = rows.groups
  BY <1>1, Holds DEF IsDir
<1>4. cache.users \subseteq cache'.users /\ cache'.users \subseteq cache.users \cup {u}
  BY <1>1, <1>2 DEF AfterCommit
<1> HIDE DEF newCache
<1>5. /\ known \subseteq uids /\ uids \subseteq User
      /\ tokens' \cup registering' \subseteq uids
      /\ online' \subseteq online \cap cache'.users
  BY <1>1, <1>4, Holds
<1>6. /\ IsDir(cache, known, 1 .. nextGid - 1) /\ IsDir(rows, known, 1 .. nextGid - 1)
      /\ \A g \in DOMAIN cache.groups : IsGroup(cache.groups[g], uids)
      /\ \A g \in DOMAIN rows.groups : IsGroup(rows.groups[g], uids)
  BY Holds DEF IsDir, IsGroup
<1>7. IsDir(newCache, uids, 1 .. nextGid - 1) /\ IsDir(rows', uids, 1 .. nextGid - 1)
  BY <1>2, <1>3, <1>6 DEF IsDir
<1>8. CanLoad(rows')
  BY <1>3, Holds DEF CanLoad
<1>9. ~cut => DirsAgree(newCache, rows')
  <2> SUFFICES ASSUME DirsAgree(cache, rows) PROVE DirsAgree(newCache, rows')
    BY Holds
  <2>1. ASSUME NEW g \in DOMAIN rows.groups PROVE rows.groups[g].owner # u
    <3>1. rows.groups[g].owner \in known \cup {NoOwner}
      BY <1>6 DEF IsDir, IsGroup
    <3> QED
      BY <1>1, <3>1, NoOwnerAssumption
  <2> QED
    BY <1>2, <1>3, <2>1 DEF DirsAgree
<1>10. ClientsKnow(newCache, online, view, opened, unheard)
  BY <1>2, Holds DEF ClientsKnow
<1>11. /\ nextGid' \in 1 .. MaxGid + 1 /\ nextGid <= nextGid' /\ opened \subseteq opened'
       /\ opened' \cup deleted' \subseteq 1 .. nextGid - 1
       /\ view \in [User -> SUBSET (1 .. nextGid - 1)]
       /\ unheard' \in [User -> SUBSET (1 .. nextGid - 1)]
       /\ \A x \in online' : unheard[x] \subseteq unheard'[x]
  BY <1>1, Holds
<1> HIDE DEF uids
<1> QED
  BY <1>1, <1>5, <1>7, <1>8, <1>9, <1>10, <1>11, CommitKeeps

\* The end of register.
LEMMA EndRegisterKeeps ==
    ASSUME DirectoryInv, NEW u, EndRegister(u)
    PROVE  DirectoryInv'
<1>1. /\ registering' \subseteq registering
      /\ UNCHANGED <<rows, cache, known, nextGid, tokens, online, view, unheard, opened,
                     deleted, cut>>
  BY DEF EndRegister
<1>2. StoreInv'
  BY <1>1 DEF DirectoryInv, StoreInv
<1>3. ClientsInv'
  BY <1>1 DEF DirectoryInv, ClientsInv
<1> QED
  BY <1>2, <1>3 DEF DirectoryInv

\* ApiGroup::create: no client and no directory has the new id.
LEMMA CreateGroupKeeps ==
    ASSUME DirectoryInv, NEW a \in User, NEW public \in BOOLEAN, NEW others \in SUBSET User,
           CreateGroup(a, public, others)
    PROVE  DirectoryInv'
<1> DEFINE g        == nextGid
           members  == IF public THEN {} ELSE others \cup {a}
           group    == IF public THEN Public ELSE Private(a, members)
           told     == IF public THEN cache.users ELSE members
           newCache == WithGroup(cache, g, group)
           newView  == Joined(told, g)
<1>1. /\ AfterCommit(newCache, newView) /\ rows' = WithGroup(rows, g, group)
      /\ UNCHANGED <<known, tokens, online, registering, unheard, opened, deleted>>
      /\ a \in tokens /\ members \subseteq rows.users /\ nextGid <= MaxGid
      /\ nextGid' = nextGid + 1
  BY DEF CreateGroup, accountVars
<1>2. /\ members \in SUBSET known /\ a \in known /\ a # NoOwner /\ nextGid \in Int
      /\ 1 <= nextGid
  BY <1>1, Holds, NoOwnerAssumption
<1>3. /\ IsGroup(group, known)
      /\ IF public THEN group.public /\ group.members = {}
                   ELSE ~group.public /\ group.owner # NoOwner /\ group.members = members
  BY <1>2, PublicFacts, PrivateFacts
<1> HIDE DEF group
<1>4. g \in 1 .. nextGid' - 1 /\ 1 .. nextGid - 1 \subseteq 1 .. nextGid' - 1
  BY <1>1, <1>2
<1>5. g \notin DOMAIN cache.groups /\ g \notin DOMAIN rows.groups
  BY <1>2, Holds DEF IsDir
<1>6. IsDir(cache, known, 1 .. nextGid' - 1) /\ IsDir(rows, known, 1 .. nextGid' - 1)
  <2>1. IsDir(cache, known, 1 .. nextGid - 1) /\ IsDir(rows, known, 1 .. nextGid - 1)
    BY Holds
  <2> QED
    BY <1>4, <2>1 DEF IsDir
<1> DEFINE newRows == WithGroup(rows, g, group)
<1>7. /\ IsDir(newCache, known, 1 .. nextGid' - 1) /\ newCache.users = cache.users
      /\ DOMAIN newCache.groups = DOMAIN cache.groups \cup {g}
      /\ \A h \in DOMAIN cache.groups : h # g => newCache.groups[h] = cache.groups[h]
      /\ newCache.groups[g] = group
  BY <1>3, <1>4, <1>6, WithGroupGiven
<1>8. /\ IsDir(rows', known, 1 .. nextGid' - 1) /\ rows'.users = rows.users
      /\ DOMAIN rows'.groups = DOMAIN rows.groups \cup {g}
      /\ \A h \in DOMAIN rows.groups : h # g => rows'.groups[h] = rows.groups[h]
      /\ rows'.groups[g] = group
  <2>1. /\ IsDir(newRows, known, 1 .. nextGid' - 1) /\ newRows.users = rows.users
        /\ DOMAIN newRows.groups = DOMAIN rows.groups \cup {g}
        /\ \A h \in DOMAIN rows.groups : h # g => newRows.groups[h] = rows.groups[h]
        /\ newRows.groups[g] = group
    BY <1>3, <1>4, <1>6, WithGroupGiven
  <2>2. rows' = newRows
    BY <1>1
  <2> HIDE DEF newRows
  <2> QED
    BY <2>1, <2>2
<1> HIDE DEF newCache
<1>9. CanLoad(rows')
  <2>1. rows'.groups[g].members \subseteq rows'.users
    BY <1>1, <1>3, <1>8
  <2>2. ~rows'.groups[g].public => rows'.groups[g].owner # NoOwner
    BY <1>3, <1>8
  <2> QED
    BY <1>8, <2>1, <2>2, Holds DEF CanLoad
<1>10. ~cut => DirsAgree(newCache, rows')
  <2> SUFFICES ASSUME DirsAgree(cache, rows) PROVE DirsAgree(newCache, rows')
    BY Holds
  <2>1. Alike(newCache.groups[g], rows'.groups[g])
    BY <1>7, <1>8 DEF Alike
  <2>2. rows'.groups[g].public => rows'.groups[g].members = {}
    BY <1>3, <1>8
  <2> QED
    BY <1>7, <1>8, <2>1, <2>2, AgreeOnOne
<1>11. newView \in [User -> SUBSET (1 .. nextGid' - 1)]
  BY <1>4, Holds DEF Joined
<1>12. ClientsKnow(newCache, online, newView, opened, unheard)
  <2> SUFFICES ASSUME NEW u \in online, NEW h \in DOMAIN newCache.groups
               PROVE  /\ u \notin Guest
                           /\ (newCache.groups[h].public \/ u \in newCache.groups[h].members)
                           => h \in newView[u] \cup unheard[u]
                      /\ h \in newView[u] => newCache.groups[h].public
                           \/ u \in newCache.groups[h].members \/ h \in opened
    BY DEF ClientsKnow
  <2>1. u \in User /\ u \in cache.users
    BY Holds
  <2>2. CASE h = g
    <3>1. g \notin view[u]
      BY <1>2, <2>1, Holds
    <3>2. g \in newView[u] <=> u \in told
      BY <2>1, <3>1 DEF Joined
    <3> QED
      BY <1>3, <1>7, <2>1, <2>2, <3>2
  <2>3. CASE h # g
    <3>1. h \in DOMAIN cache.groups /\ newCache.groups[h] = cache.groups[h]
      BY <1>7, <2>3
    <3>2. h \in newView[u] <=> h \in view[u]
      BY <2>1, <2>3 DEF Joined
    <3> QED
      BY <3>1, <3>2, Holds DEF ClientsKnow
  <2> QED
    BY <2>2, <2>3
<1>13. /\ nextGid' \in 1 .. MaxGid + 1 /\ nextGid <= nextGid'
       /\ opened' \cup deleted' \subseteq 1 .. nextGid' - 1
  BY <1>1, <1>2, <1>4, MaxGidAssumption, Holds
<1>14. /\ online' \subseteq online \cap cache'.users
       /\ unheard' \in [User -> SUBSET (1 .. nextGid' - 1)]
       /\ \A x \in online' : unheard[x] \subseteq unheard'[x]
       /\ tokens' \cup registering' \subseteq known' /\ known' \subseteq User
  BY <1>1, <1>4, <1>7, Holds DEF AfterCommit
<1> HIDE DEF newView
<1> QED
  BY <1>1, <1>7, <1>8, <1>9, <1>10, <1>11, <1>12, <1>13, <1>14, CommitKeeps

\* State::delete_user.
LEMMA DeleteUserKeeps ==
    ASSUME DirectoryInv, NEW u \in User, DeleteUser(u)
    PROVE  DirectoryInv'
<1> DEFINE newCache == CacheWithoutUser(u)
           newView  == ViewWithoutUser(u)
<1>1. /\ AfterCommit(newCache, newView) /\ rows' = RowsWithoutUser(u)
      /\ online' = online \cap cache'.users
      /\ deleted' \subseteq deleted \cup DOMAIN cache.groups
      /\ unheard' = [x \in User |-> IF x \in online' THEN unheard[x] ELSE {}]
      /\ registering' = registering \ {u}
      /\ UNCHANGED <<known, nextGid, tokens, opened>>
  BY DEF DeleteUser
<1>2. IsDir(cache, known, 1 .. nextGid - 1) /\ IsDir(rows, known, 1 .. nextGid - 1)
  BY Holds
<1>3. /\ DOMAIN newCache = {"users", "groups"} /\ newCache.users = cache.users \ {u}
      /\ DOMAIN newCache.groups = DOMAIN cache.groups \ Owned(u)
      /\ \A g \in DOMAIN newCache.groups :
            newCache.groups[g] = IF cache.groups[g].public THEN cache.groups[g]
                                 ELSE [cache.groups[g] EXCEPT !.members = @ \ {u}]
  BY DEF CacheWithoutUser
<1>4. /\ DOMAIN rows' = {"users", "groups"} /\ rows'.users = rows.users \ {u}
      /\ DOMAIN rows'.groups = DOMAIN rows.groups
      /\ \A g \in DOMAIN rows.groups :
            rows'.groups[g] = [rows.groups[g] EXCEPT !.members = @ \ {u}]
  BY <1>1 DEF RowsWithoutUser
<1> HIDE DEF newCache
<1>5. ASSUME NEW g \in DOMAIN newCache.groups
      PROVE  /\ g \in DOMAIN cache.groups
             /\ IsGroup(newCache.groups[g], known)
             /\ newCache.groups[g].public = cache.groups[g].public
             /\ newCache.groups[g].owner = cache.groups[g].owner
             /\ ~cache.groups[g].public =>
                    newCache.groups[g].members = cache.groups[g].members \ {u}
  <2>1. g \in DOMAIN cache.groups
    BY <1>3
  <2>2. IsGroup(cache.groups[g], known)
    BY <1>2, <2>1 DEF IsDir
  <2>3. CASE cache.groups[g].public
    BY <1>3, <2>1, <2>2, <2>3
  <2>4. CASE ~cache.groups[g].public
    <3> DEFINE x == cache.groups[g]
    <3>1. newCache.groups[g] = [x EXCEPT !.members = x.members \ {u}]
      BY <1>3, <2>4
    <3>2. IsGroup(x, known)
      BY <2>2
    <3> HIDE DEF x
    <3>3. LET y == [x EXCEPT !.members = x.members \ {u}] IN
          /\ IsGroup(y, known) /\ y.public = x.public /\ y.owner = x.owner
          /\ y.members = x.members \ {u}
      BY <3>2 DEF IsGroup
    <3> QED
      BY <2>1, <3>1, <3>3 DEF x
  <2> QED
    BY <2>3, <2>4
<1>6. ASSUME NEW g \in DOMAIN rows.groups
      PROVE  /\ IsGroup(rows'.groups[g], known)
             /\ rows'.groups[g].public = rows.groups[g].public
             /\ rows'.groups[g].owner = rows.groups[g].owner
             /\ rows'.groups[g].members = rows.groups[g].members \ {u}
  <2> DEFINE x == rows.groups[g]
  <2>1. rows'.groups[g] = [x EXCEPT !.members = x.members \ {u}]
    BY <1>4
  <2>2. IsGroup(x, known)
    BY <1>2 DEF IsDir
  <2> HIDE DEF x
  <2>3. LET y == [x EXCEPT !.members = x.members \ {u}] IN
        /\ IsGroup(y, known) /\ y.public = x.public /\ y.owner = x.owner
        /\ y.members = x.members \ {u}
    BY <2>2 DEF IsGroup
  <2> QED
    BY <2>1, <2>3 DEF x
<1>7. IsDir(newCache, known, 1 .. nextGid - 1)
  BY <1>2, <1>3, <1>5 DEF IsDir
<1>8. IsDir(rows', known, 1 .. nextGid - 1)
  BY <1>2, <1>4, <1>6 DEF IsDir
<1>9. CanLoad(rows')
  BY <1>4, <1>6, Holds DEF CanLoad
<1>10. ~cut => DirsAgree(newCache, rows')
  <2> SUFFICES ASSUME DirsAgree(cache, rows) PROVE DirsAgree(newCache, rows')
    BY Holds
  <2>1. newCache.users = rows'.users
    BY <1>3, <1>4 DEF DirsAgree
  <2>2. DOMAIN newCache.groups \subseteq DOMAIN rows'.groups
    BY <1>3, <1>4 DEF DirsAgree
  <2>3. ASSUME NEW g \in DOMAIN newCache.groups
        PROVE  Alike(newCache.groups[g], rows'.groups[g])
    <3>1. g \in DOMAIN cache.groups /\ g \in DOMAIN rows.groups
      BY <1>4, <1>5, <2>2
    <3>2. Alike(cache.groups[g], rows.groups[g])
      BY <3>1 DEF DirsAgree
    <3> QED
      BY <1>5, <1>6, <3>1, <3>2 DEF Alike
  <2>4. ASSUME NEW g \in DOMAIN rows'.groups \ DOMAIN newCache.groups
        PROVE  ~rows'.groups[g].public /\ rows'.groups[g].owner \notin rows'.users
    <3>1. g \in DOMAIN rows.groups
      BY <1>4
    <3>2. CASE g \notin DOMAIN cache.groups
      BY <1>4, <1>6, <3>1, <3>2 DEF DirsAgree
    <3>3. CASE g \in DOMAIN cache.groups
      <4>1. ~cache.groups[g].public /\ cache.groups[g].owner = u
        BY <1>3, <2>4, <3>3 DEF Owned
      <4>2. Alike(cache.groups[g], rows.groups[g])
        BY <3>3 DEF DirsAgree
      <4> QED
        BY <1>4, <1>6, <3>1, <4>1, <4>2 DEF Alike
    <3> QED
      BY <3>2, <3>3
  <2>5. ASSUME NEW g \in DOMAIN rows'.groups, rows'.groups[g].public
        PROVE  rows'.groups[g].members = {}
    <3>1. g \in DOMAIN rows.groups
      BY <1>4
    <3>2. rows.groups[g].public /\ rows'.groups[g].members = rows.groups[g].members \ {u}
      BY <1>6, <2>5, <3>1
    <3>3. rows.groups[g].members = {}
      BY <3>1, <3>2 DEF DirsAgree
    <3> QED
      BY <3>2, <3>3
  <2> QED
    BY <2>1, <2>2, <2>3, <2>4, <2>5 DEF DirsAgree
<1>11. newView \in [User -> SUBSET (1 .. nextGid - 1)]
  BY Holds DEF ViewWithoutUser
<1>12. cache' = newCache => ClientsKnow(newCache, online', newView, opened', unheard')
  <2> SUFFICES ASSUME cache' = newCache,
                      NEW x \in online', NEW g \in DOMAIN newCache.groups
               PROVE  /\ x \notin Guest
                           /\ (newCache.groups[g].public \/ x \in newCache.groups[g].members)
                           => g \in newView[x] \cup unheard'[x]
                      /\ g \in newView[x] => newCache.groups[g].public
                           \/ x \in newCache.groups[g].members \/ g \in opened
    BY <1>1 DEF ClientsKnow
  <2>1. x \in online /\ x # u /\ x \in User
    BY <1>1, <1>3, Holds
  <2>2. g \in DOMAIN cache.groups /\ g \notin Owned(u)
    BY <1>3
  <2>3. g \in newView[x] <=> g \in view[x]
    BY <2>1, <2>2 DEF ViewWithoutUser
  <2>4. /\ newCache.groups[g].public <=> cache.groups[g].public
        /\ ~cache.groups[g].public =>
              (x \in newCache.groups[g].members <=> x \in cache.groups[g].members)
    BY <1>5, <2>1
  <2>5. /\ x \notin Guest /\ (cache.groups[g].public \/ x \in cache.groups[g].members)
                           => g \in view[x] \cup unheard[x]
        /\ g \in view[x] => cache.groups[g].public
                           \/ x \in cache.groups[g].members \/ g \in opened
    BY <2>1, <2>2, Holds DEF ClientsKnow
  <2>6. unheard'[x] = unheard[x]
    BY <1>1, <2>1
  <2> QED
    BY <2>3, <2>4, <2>5, <2>6
<1>13. /\ nextGid' \in 1 .. MaxGid + 1 /\ nextGid <= nextGid'
       /\ opened' \cup deleted' \subseteq 1 .. nextGid - 1
       /\ tokens' \cup registering' \subseteq known' /\ known' \subseteq User
  BY <1>1, <1>2, Holds DEF IsDir
<1>14. /\ online' \subseteq online \cap cache'.users
       /\ unheard' \in [User -> SUBSET (1 .. nextGid - 1)]
       /\ \A x \in online' : unheard[x] \subseteq unheard'[x]
  BY <1>1, Holds
<1> HIDE DEF newView
<1> QED
  BY <1>1, <1>7, <1>8, <1>9, <1>10, <1>11, <1>12, <1>13, <1>14, CommitKeeps

\* events.
LEMMA ConnectKeeps ==
    ASSUME DirectoryInv, NEW u \in User, Connect(u)
    PROVE  DirectoryInv'
<1>1. /\ u \in cache.users /\ online' = online \cup {u}
      /\ view' = [view EXCEPT ![u] = Related(u)]
      /\ unheard' = [unheard EXCEPT ![u] = {}]
      /\ UNCHANGED <<rows, cache, known, nextGid, tokens, registering, opened, deleted, cut>>
  BY DEF Connect
<1>2. StoreInv'
  BY <1>1 DEF DirectoryInv, StoreInv
<1>3. Related(u) \subseteq 1 .. nextGid - 1
  BY Holds DEF Related, IsDir
<1>4. /\ view' \in [User -> SUBSET (1 .. nextGid - 1)]
      /\ unheard' \in [User -> SUBSET (1 .. nextGid - 1)]
  BY <1>1, <1>3, Holds
<1>5. ClientsKnow(cache, online', view', opened, unheard')
  <2> SUFFICES ASSUME NEW x \in online', NEW g \in DOMAIN cache.groups
               PROVE  /\ x \notin Guest /\ (cache.groups[g].public \/ x \in cache.groups[g].members)
                           => g \in view'[x] \cup unheard'[x]
                      /\ g \in view'[x] => cache.groups[g].public
                           \/ x \in cache.groups[g].members \/ g \in opened
    BY DEF ClientsKnow
  <2>1. CASE x = u
    <3>1. view'[x] = Related(u)
      BY <1>1, <2>1, Holds
    <3> QED
      BY <2>1, <3>1 DEF Related
  <2>2. CASE x # u
    <3>1. x \in online /\ x \in User
      BY <1>1, <2>2, Holds
    <3>2. view'[x] = view[x] /\ unheard'[x] = unheard[x]
      BY <1>1, <2>2, <3>1, Holds
    <3> QED
      BY <3>1, <3>2, Holds DEF ClientsKnow
  <2> QED
    BY <2>1, <2>2
<1>6. online' \subseteq cache.users
  BY <1>1, Holds
<1>7. ClientsInv'
  BY <1>1, <1>4, <1>5, <1>6 DEF ClientsInv
<1> QED
  BY <1>2, <1>7 DEF DirectoryInv

\* What the server starts from is what the rows say, and it says what they say
\* unless a public group was left with members.
LEMMA LoadFacts ==
    ASSUME NEW uids, NEW gids, NEW dir, IsDir(dir, uids, gids)
    PROVE  /\ IsDir(Load(dir), uids, gids)
           /\ (\A g \in DOMAIN dir.groups : dir.groups[g].public => dir.groups[g].members = {})
                => DirsAgree(Load(dir), dir)
<1> DEFINE new == Load(dir)
           gone(x) == [x EXCEPT !.owner = NoOwner]
<1>1. /\ DOMAIN new = {"users", "groups"} /\ new.users = dir.users
      /\ DOMAIN new.groups = DOMAIN dir.groups
      /\ \A g \in DOMAIN dir.groups :
            new.groups[g] = IF dir.groups[g].public THEN gone(dir.groups[g]) ELSE dir.groups[g]
  BY DEF Load, IsDir
<1>2. ASSUME NEW x, IsGroup(x, uids)
      PROVE  /\ IsGroup(gone(x), uids) /\ gone(x).public = x.public
             /\ gone(x).members = x.members
  BY <1>2 DEF IsGroup
<1> HIDE DEF new, gone
<1>3. ASSUME NEW g \in DOMAIN dir.groups
      PROVE  IsGroup(new.groups[g], uids) /\ Alike(new.groups[g], dir.groups[g])
  <2>1. IsGroup(dir.groups[g], uids)
    BY DEF IsDir
  <2>2. CASE dir.groups[g].public
    <3>1. new.groups[g] = gone(dir.groups[g])
      BY <1>1, <2>2
    <3>2. IsGroup(gone(dir.groups[g]), uids) /\ gone(dir.groups[g]).public
      BY <1>2, <2>1, <2>2
    <3> QED
      BY <2>2, <3>1, <3>2 DEF Alike
  <2>3. CASE ~dir.groups[g].public
    BY <1>1, <2>1, <2>3 DEF Alike
  <2> QED
    BY <2>2, <2>3
<1>4. IsDir(new, uids, gids)
  BY <1>1, <1>3 DEF IsDir
<1>5. (\A g \in DOMAIN dir.groups : dir.groups[g].public => dir.groups[g].members = {})
                => DirsAgree(new, dir)
  BY <1>1, <1>3 DEF DirsAgree
<1> QED
  BY <1>4, <1>5 DEF new

\* create_state.
LEMMA RestartKeeps ==
    ASSUME DirectoryInv, Restart
    PROVE  DirectoryInv'
<1>1. /\ cache' = Load(rows) /\ tokens' = tokens \cup rows.users /\ registering' = {}
      /\ online' = {} /\ view' = [u \in User |-> {}] /\ cut' = Strays
      /\ unheard' = [u \in User |-> {}]
      /\ UNCHANGED <<rows, known, nextGid, opened, deleted>>
  BY DEF Restart
<1>2. IsDir(rows, known, 1 .. nextGid - 1) /\ rows.users \subseteq known
  BY Holds
<1>3. IsDir(cache', known, 1 .. nextGid - 1)
  BY <1>1, <1>2, LoadFacts
<1>4. ~cut' => DirsAgree(cache', rows)
  BY <1>1, <1>2, LoadFacts DEF Strays
<1>5. cut' \in BOOLEAN
  BY <1>1 DEF Strays
<1>6. tokens' \cup registering' \subseteq known
  BY <1>1, <1>2, Holds
<1>7. StoreInv'
  BY <1>1, <1>2, <1>3, <1>4, <1>5, <1>6, Holds DEF StoreInv
<1>8. ClientsInv'
  BY <1>1 DEF ClientsInv, ClientsKnow
<1> QED
  BY <1>7, <1>8 DEF DirectoryInv

-----------------------------------------------------------------------------
\* Every step keeps the invariant.
LEMMA DirectoryNext == DirectoryInv /\ [Next]_vars => DirectoryInv'
<1> SUFFICES ASSUME DirectoryInv, [Next]_vars PROVE DirectoryInv'
  OBVIOUS
<1>1. ASSUME NEW u \in User, CreateUser(u) \/ EndRegister(u) \/ DeleteUser(u) \/ Connect(u)
      PROVE  DirectoryInv'
  BY <1>1, CreateUserKeeps, EndRegisterKeeps, DeleteUserKeeps, ConnectKeeps
<1>2. ASSUME NEW u \in User, NEW g \in DOMAIN cache.groups, JoinInvited(u, g) \/ LeaveGroup(u, g)
      PROVE  DirectoryInv'
  BY <1>2, JoinInvitedKeeps, LeaveGroupKeeps
<1>3. ASSUME NEW a \in User, NEW public \in BOOLEAN, NEW others \in SUBSET User,
             CreateGroup(a, public, others)
      PROVE  DirectoryInv'
  BY <1>3, CreateGroupKeeps
<1>4. ASSUME NEW a \in User, NEW g \in DOMAIN cache.groups,
             DeleteGroup(a, g) \/ ChangeToPublic(a, g)
      PROVE  DirectoryInv'
  BY <1>4, DeleteGroupKeeps, ChangeToPublicKeeps
<1>5. ASSUME NEW a \in User, NEW owner \in User, NEW g \in DOMAIN cache.groups,
             UpdateOwner(a, g, owner)
      PROVE  DirectoryInv'
  BY <1>5, UpdateOwnerKeeps
<1>6. ASSUME NEW a \in User, NEW g \in DOMAIN cache.groups, NEW ms \in SUBSET User,
             ChangeToPrivate(a, g, ms)
      PROVE  DirectoryInv'
  BY <1>6, ChangeToPrivateKeeps
<1>7. ASSUME NEW a \in User, NEW g \in DOMAIN cache.groups, NEW ms \in (SUBSET User) \ {{}},
             AddMembers(a, g, ms) \/ RemoveMembers(a, g, ms)
      PROVE  DirectoryInv'
  BY <1>7, AddMembersKeeps, RemoveMembersKeeps
<1>8. CASE UNCHANGED vars
  <2>1. StoreInv'
    BY <1>8 DEF DirectoryInv, StoreInv, vars
  <2>2. ClientsInv'
    BY <1>8 DEF DirectoryInv, ClientsInv, vars
  <2> QED
    BY <2>1, <2>2 DEF DirectoryInv
<1> QED
  BY <1>1, <1>2, <1>3, <1>4, <1>5, <1>6, <1>7, <1>8, RestartKeeps DEF Next

\* So the invariant holds always.
LEMMA DirectoryIsInv == Spec => []DirectoryInv
BY DirectoryInitInv, DirectoryNext, PTL DEF Spec

\* Rows and cache agree on users, groups and members, and the rows load, after
\* any sequence of handlers that are not cut short, and the rows always load.
THEOREM DirectoryIsOne == Spec => []RowsAndCacheAgree
BY DirectoryIsInv, DirectoryInvAgree, PTL

\* A client with a stream lists every group that its user is in: the events keep
\* up with the cache, but for the group that register puts a user in whose client
\* has connected by then.
THEOREM GroupsAreListed == Spec => []ClientKnowsItsGroups
BY DirectoryIsInv, DirectoryInvAgree, PTL

\* Whoever is removed from a private group is told.
THEOREM RemovalsAreTold == Spec => []RemovedAreTold
BY DirectoryIsInv, DirectoryInvAgree, PTL
==============================================================================
