------------------------------- MODULE Profiles -------------------------------
(***************************************************************************)
(* What the users show of themselves, and how every client comes to know   *)
(* it: the name and the time of the avatar are columns of user and fields  *)
(* of CacheUser, each change appends to user_log, and its event carries    *)
(* the id of that row.  A client keeps the list of users and the last id   *)
(* it has seen, and on its next stream is sent the log from there; without *)
(* an id it is sent the users of the cache and the last id of the log.     *)
(* The picture itself is a file, which no transaction covers: an upload    *)
(* writes it before its transaction, and the creation of an account inside *)
(* its own.                                                                *)
(*                                                                         *)
(* A handler keeps the write side of the cache lock; one that is dropped   *)
(* at its commit leaves the rows and the log ahead of the cache.           *)
(***************************************************************************)
EXTENDS Integers, Sequences

CONSTANTS
    Name,           \* names users may take
    Fold,           \* a name without regard to case
    Follower,       \* clients
    MaxUid,         \* bound of the model: accounts
    MaxLog          \* bound of the model: rows of user_log

ASSUME ProfilesAssumption ==
    /\ {MaxUid, MaxLog} \subseteq Nat
    /\ DOMAIN Fold = Name

VARIABLES
    profileRows,    \* table user: uid -> [name, avatar]
    profiles,       \* CacheUser: uid -> [name, avatar]
    lastUid,        \* the greatest uid given out
    picture,        \* the avatar file of each user: a number, 0 if none
    userLog,        \* user_log: what was changed, of whom, to what
    follows,        \* per client: has it a stream
    userList,       \* per client: its list of users
    version,        \* per client: the last id of user_log it has seen
    news,           \* per client: ids of events its stream has not sent yet
    untold,         \* users with a change that was committed and not told
    badPicture      \* users with a file or a time that was left without the other

profVars == <<profileRows, profiles, lastUid, picture, userLog, follows, userList, version, news,
              untold, badPicture>>

Uid == 1 .. MaxUid

Drop(table, u) == [v \in DOMAIN table \ {u} |-> table[v]]
Set(table, u, p) == [v \in DOMAIN table \cup {u} |-> IF v = u THEN p ELSE table[v]]

\* A row of the log names what has changed; the other columns are null.
Log(what, u, n, at) == [what |-> what, uid |-> u, name |-> n, avatar |-> at]
NoName == "null"

ProfilesInit ==
    /\ profileRows = [u \in {} |-> 0] /\ profiles = profileRows
    /\ lastUid = 0
    /\ picture = [u \in Uid |-> 0]
    /\ userLog = <<>>
    /\ follows = [c \in Follower |-> FALSE]
    /\ userList = [c \in Follower |-> profileRows]
    /\ version = [c \in Follower |-> 0]
    /\ news = [c \in Follower |-> <<>>]
    /\ untold = {} /\ badPicture = {}

-----------------------------------------------------------------------------
\* check_name_conflict, in the cache; the user's own name counts too.
NameFree(n) == \A u \in DOMAIN profiles : Fold[profiles[u].name] # Fold[n]

\* Mutant: the index minds the case.
NameUnusedExact(u, n) == \A v \in DOMAIN profileRows \ {u} : profileRows[v].name # n

\* The unique index user_name, of a column that does not mind the case.
NameUnused(u, n) ==
    \A v \in DOMAIN profileRows \ {u} : Fold[profileRows[v].name] # Fold[n]

clientVars == <<follows, userList, version>>

\* Rows and log in one transaction; then the cache and the event, unless the
\* handler is dropped.
Commit(rows, entry, cached) ==
    /\ Len(userLog) < MaxLog
    /\ profileRows' = rows
    /\ userLog' = Append(userLog, entry)
    /\ \/ /\ profiles' = cached
          /\ news' = [c \in Follower |-> IF follows[c] THEN Append(news[c], Len(userLog'))
                                                       ELSE news[c]]
          /\ UNCHANGED untold
       \/ /\ untold' = untold \cup {entry.uid}
          /\ UNCHANGED <<profiles, news>>

\* State::create_user, with its row of the log.  The avatar of the provider (of
\* a login by Google, GitHub or OpenID Connect) is written once the row is
\* inserted: if that fails the time is stored all the same, and if a later insert
\* or the commit fails, or the client hangs up, the file stays and the next
\* account gets its uid.
CreateProfile(n, avatar) ==
    LET u  == lastUid + 1
        at == IF avatar THEN picture[u] + 1 ELSE 0
        p  == [name |-> n, avatar |-> at] IN
    /\ u \in Uid /\ NameFree(n) /\ NameUnused(u, n)
    /\ \/ /\ lastUid' = u
          /\ Commit(Set(profileRows, u, p), Log("create", u, n, at), Set(profiles, u, p))
          /\ \/ /\ picture' = [picture EXCEPT ![u] = IF avatar THEN at ELSE @]
                /\ badPicture' = IF avatar THEN badPicture \ {u} ELSE badPicture
             \/ /\ avatar
                /\ badPicture' = badPicture \cup {u}
                /\ UNCHANGED picture
       \/ /\ avatar /\ Len(userLog) < MaxLog /\ u \notin badPicture
          /\ picture' = [picture EXCEPT ![u] = at]
          /\ badPicture' = badPicture \cup {u}
          /\ UNCHANGED <<profileRows, profiles, lastUid, userLog, news, untold>>
    /\ UNCHANGED clientVars

\* The update of a row that is gone changes nothing, and is no error.
Renamed(table, u, n) == IF u \in DOMAIN table THEN [table EXCEPT ![u].name = n] ELSE table

\* update_user and the administrator's update, with a name.
Rename(u, n) ==
    /\ u \in DOMAIN profiles /\ NameFree(n) /\ NameUnused(u, n)
    /\ Commit(Renamed(profileRows, u, n),
              Log("name", u, n, 0),
              Renamed(profiles, u, n))
    /\ UNCHANGED <<lastUid, picture, clientVars, badPicture>>

Dated(table, u, at) == IF u \in DOMAIN table THEN [table EXCEPT ![u].avatar = at] ELSE table

\* Mutant: the file is replaced and its time is not.
UploadAvatarUndated(u) ==
    /\ u \in DOMAIN profiles
    /\ picture' = [picture EXCEPT ![u] = @ + 1]
    /\ Commit(profileRows, Log("none", u, NoName, 0), profiles)
    /\ badPicture' = badPicture \ {u}
    /\ UNCHANGED <<lastUid, clientVars>>

\* upload_avatar: the file is replaced before the transaction begins, so an
\* error of SQLite or a client that hangs up leaves it with the old time.
UploadAvatar(u) ==
    LET at == picture[u] + 1 IN
    /\ u \in DOMAIN profiles
    /\ picture' = [picture EXCEPT ![u] = at]
    /\ \/ /\ Commit(Dated(profileRows, u, at),
                    Log("avatar", u, NoName, at),
                    Dated(profiles, u, at))
          /\ badPicture' = IF profiles' = profiles THEN badPicture \cup {u} ELSE badPicture \ {u}
       \/ /\ Len(userLog) < MaxLog /\ u \notin badPicture
          /\ badPicture' = badPicture \cup {u}
          /\ UNCHANGED <<profileRows, profiles, userLog, news, untold>>
    /\ UNCHANGED <<lastUid, clientVars>>

\* State::delete_user.
DeleteProfile(u) ==
    /\ u \in DOMAIN profiles
    /\ Commit(Drop(profileRows, u), Log("delete", u, NoName, 0), Drop(profiles, u))
    /\ UNCHANGED <<lastUid, picture, clientVars, badPicture>>

-----------------------------------------------------------------------------
\* What a client makes of a row of the log: an update of a user it does not
\* know is nothing to it.
Applied(list, entry) ==
    CASE entry.what = "create" -> Set(list, entry.uid, [name |-> entry.name, avatar |-> entry.avatar])
      [] entry.what = "name"   -> Renamed(list, entry.uid, entry.name)
      [] entry.what = "avatar" -> Dated(list, entry.uid, entry.avatar)
      [] entry.what = "delete" -> Drop(list, entry.uid)
      [] entry.what = "none"   -> list

\* Mutant: the log after the client's id but one.
FetchUserLogSkipping(c) == [i \in 1 .. Len(userLog) - version[c] - 1 |-> version[c] + 1 + i]

\* fetch_user_log, with an id: the log after it.
FetchUserLog(c) == [i \in 1 .. Len(userLog) - version[c] |-> version[c] + i]

\* events, under the write side of the cache lock: the users of the cache, or
\* the log, is the first message of the stream.  The rows of the log come in one
\* message; a client that takes them one by one, and may hang up between two,
\* only does more.
Follow(c) ==
    /\ ~follows[c] /\ userLog # <<>>
    /\ follows' = [follows EXCEPT ![c] = TRUE]
    /\ \/ /\ version[c] = 0
          /\ userList' = [userList EXCEPT ![c] = profiles]
          /\ version' = [version EXCEPT ![c] = Len(userLog)]
          /\ news' = [news EXCEPT ![c] = <<>>]
       \/ /\ version[c] # 0
          /\ news' = [news EXCEPT ![c] = FetchUserLog(c)]
          /\ UNCHANGED <<userList, version>>
    /\ UNCHANGED <<profileRows, profiles, lastUid, picture, userLog, untold, badPicture>>

\* events_loop.
Learn(c) ==
    /\ news[c] # <<>>
    /\ userList' = [userList EXCEPT ![c] = Applied(@, userLog[Head(news[c])])]
    /\ version' = [version EXCEPT ![c] = Head(news[c])]
    /\ news' = [news EXCEPT ![c] = Tail(@)]
    /\ UNCHANGED <<profileRows, profiles, lastUid, picture, userLog, follows, untold, badPicture>>

Unfollow(c) ==
    /\ follows[c]
    /\ follows' = [follows EXCEPT ![c] = FALSE]
    /\ news' = [news EXCEPT ![c] = <<>>]
    /\ UNCHANGED <<profileRows, profiles, lastUid, picture, userLog, userList, version, untold,
                   badPicture>>

\* load_users_cache.
RestartProfiles ==
    /\ profiles' = profileRows
    /\ follows' = [c \in Follower |-> FALSE]
    /\ news' = [c \in Follower |-> <<>>]
    /\ UNCHANGED <<profileRows, lastUid, picture, userLog, userList, version, untold, badPicture>>

ProfilesNext ==
    \/ \E n \in Name, avatar \in BOOLEAN : CreateProfile(n, avatar)
    \/ \E u \in Uid, n \in Name : Rename(u, n)
    \/ \E u \in Uid : UploadAvatar(u) \/ DeleteProfile(u)
    \/ \E c \in Follower : Follow(c) \/ Learn(c) \/ Unfollow(c)
    \/ RestartProfiles

ProfilesSpec == ProfilesInit /\ [][ProfilesNext]_profVars

-----------------------------------------------------------------------------
\* Profiles have a name and the time of an avatar, and nobody waits for an
\* event that is not in the log or has no stream to come over.
ProfilesTypeOK ==
    LET ok(table) == /\ DOMAIN table \subseteq 1 .. lastUid
                     /\ \A u \in DOMAIN table : table[u].name \in Name /\ table[u].avatar \in Nat IN
    /\ ok(profileRows) /\ ok(profiles)
    /\ \A c \in Follower :
        /\ ok(userList[c])
        /\ version[c] \in 0 .. Len(userLog)
        /\ \A i \in 1 .. Len(news[c]) : news[c][i] \in version[c] + 1 .. Len(userLog)
        /\ ~follows[c] => news[c] = <<>>

\* A client that has been sent all its events shows every user as the cache
\* has it, however long it was away and whatever happened meanwhile; but not
\* the users of whom a change was committed and never told.
ListsFollow ==
    \A c \in Follower : follows[c] /\ news[c] = <<>> =>
        \A u \in Uid \ untold :
            /\ u \in DOMAIN userList[c] <=> u \in DOMAIN profiles
            /\ u \in DOMAIN profiles => userList[c][u] = profiles[u]

\* No two users have names that differ by their case only, in the table nor in
\* the cache.  The check is made in the cache, which does not know the name of
\* a change that was dropped at its commit: the index refuses it.
NamesDiffer ==
    \A table \in {profileRows, profiles} : \A u, v \in DOMAIN table :
        u # v => Fold[table[u].name] # Fold[table[v].name]

\* The time of the avatar, by which clients fetch it again, is that of the
\* file, also of an avatar that came with the account; but not of users whose
\* upload stopped half way, whose first avatar was not saved, or whose uid a
\* creation that was rolled back had used.
PictureIsDated ==
    \A u \in DOMAIN profiles \ badPicture : profiles[u].avatar = picture[u]

\* Whoever is told of a change is told for good.  A client that was away, or
\* came later, never learns of a change that was dropped at its commit: its
\* row of the log is behind the id the client is given with the snapshot.
AllLearnEverything ==
    \A c \in Follower : follows[c] /\ news[c] = <<>> =>
        \A u \in DOMAIN profiles \cap DOMAIN userList[c] : userList[c][u] = profiles[u]

\* Who has no avatar shows none.  The file of a creation that was rolled back is
\* served as the avatar of the next account, which has the uid.
NoAvatarOfOthers ==
    \A u \in DOMAIN profiles : profiles[u].avatar = 0 => picture[u] = 0

\* Table, cache, log and clients agree on who the users are (create_user,
\* update_user, upload_avatar, delete_user, user_events).
ProfilesAgree == ProfilesTypeOK /\ ListsFollow /\ NamesDiffer /\ PictureIsDated
===============================================================================
