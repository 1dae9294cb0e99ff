------------------------------- MODULE ApiKeys -------------------------------
(***************************************************************************)
(* The API keys of a bot: rows of bot_key and entries of CacheUser,        *)
(* changed one after the other under the write side of the cache lock.     *)
(* Requests of the bot are checked against the cache, which also keeps     *)
(* when a key was last used; a task writes that to the rows.               *)
(***************************************************************************)
EXTENDS Integers, FiniteSets, Functions

CONSTANTS
    KeyName,        \* names of keys
    MaxKeys         \* bound of the model: keys made

ASSUME ApiKeysAssumption == MaxKeys \in Nat

VARIABLES
    keyRows,        \* bot_key: id -> [name, used]
    botKeys,        \* CacheUser.bot_keys: id -> [name, used]
    lastKey,        \* the greatest id given out: autoincrement
    revoked,        \* keys whose deletion was answered
    tornKeys        \* keys whose handler stopped between row and cache

keyVars == <<keyRows, botKeys, lastKey, revoked, tornKeys>>

KeyId == 1 .. MaxKeys

ApiKeysInit ==
    /\ keyRows = [k \in {} |-> 0] /\ botKeys = keyRows
    /\ lastKey = 0 /\ revoked = {} /\ tornKeys = {}

-----------------------------------------------------------------------------
NewKey(n) == [name |-> n, used |-> 0]

Named(table, n) == \E k \in DOMAIN table : table[k].name = n

WithKey(table, k, key) == [j \in DOMAIN table \cup {k} |-> IF j = k THEN key ELSE table[j]]

\* Mutant: the key is not stored.
CreateKeyCached(n) ==
    LET k == lastKey + 1 IN
    /\ k \in KeyId /\ ~Named(botKeys, n) /\ ~Named(keyRows, n)
    /\ lastKey' = k
    /\ botKeys' = WithKey(botKeys, k, NewKey(n))
    /\ UNCHANGED <<keyRows, revoked, tornKeys>>

\* create_bot_api_key: the name is looked for in the cache; the unique index
\* bot_key_uid_name fails the insert for a row the cache does not have.
CreateKey(n) ==
    LET k == lastKey + 1 IN
    /\ k \in KeyId /\ ~Named(botKeys, n) /\ ~Named(keyRows, n)
    /\ lastKey' = k
    /\ keyRows' = WithKey(keyRows, k, NewKey(n))
    /\ \/ botKeys' = WithKey(botKeys, k, NewKey(n)) /\ UNCHANGED tornKeys
       \/ tornKeys' = tornKeys \cup {k} /\ UNCHANGED botKeys
    /\ UNCHANGED revoked

\* Mutant: the row stays.
DeleteKeyCached(k) ==
    /\ k \in DOMAIN botKeys
    /\ botKeys' = Restrict(botKeys, DOMAIN botKeys \ {k})
    /\ revoked' = revoked \cup {k}
    /\ UNCHANGED <<keyRows, lastKey, tornKeys>>

\* delete_bot_api_key.
DeleteKey(k) ==
    /\ k \in DOMAIN botKeys
    /\ keyRows' = Restrict(keyRows, DOMAIN keyRows \ {k})
    /\ \/ /\ botKeys' = Restrict(botKeys, DOMAIN botKeys \ {k})
          /\ revoked' = revoked \cup {k}
          /\ UNCHANGED tornKeys
       \/ tornKeys' = tornKeys \cup {k} /\ UNCHANGED <<botKeys, revoked>>
    /\ UNCHANGED lastKey

MaxUses == 2

\* check_api_key: only the cache is asked, and only the cache is told.
UseKey(k) ==
    /\ k \in DOMAIN botKeys /\ botKeys[k].used < MaxUses
    /\ botKeys' = [botKeys EXCEPT ![k].used = @ + 1]
    /\ UNCHANGED <<keyRows, lastKey, revoked, tornKeys>>

\* sync_bot_key_last_used, every 30 seconds: an update of the rows there are.
Sync ==
    /\ keyRows' = [k \in DOMAIN keyRows |->
                     IF k \in DOMAIN botKeys THEN [keyRows[k] EXCEPT !.used = botKeys[k].used]
                                             ELSE keyRows[k]]
    /\ UNCHANGED <<botKeys, lastKey, revoked, tornKeys>>

\* load_users_cache.
RestartKeys ==
    /\ botKeys' = keyRows
    /\ tornKeys' = {}
    /\ UNCHANGED <<keyRows, lastKey, revoked>>

ApiKeysNext ==
    \/ \E n \in KeyName : CreateKey(n)
    \/ \E k \in KeyId : DeleteKey(k) \/ UseKey(k)
    \/ Sync
    \/ RestartKeys

ApiKeysSpec == ApiKeysInit /\ [][ApiKeysNext]_keyVars

-----------------------------------------------------------------------------
\* Ids are not given out twice, keys have a name and count their uses, and no
\* two keys of the bot have the same name (bot_key, BotKey).
ApiKeysTypeOK ==
    /\ \A table \in {keyRows, botKeys} :
        /\ DOMAIN table \subseteq 1 .. lastKey
        /\ \A j, k \in DOMAIN table :
            /\ table[k].used \in 0 .. MaxUses
            /\ table[j].name = table[k].name => j = k
    /\ revoked \subseteq 1 .. lastKey

\* A key whose deletion was answered is refused from then on, and no later
\* write of its last use and no restart brings it back.
RevokedIsRefused == revoked \cap (DOMAIN botKeys \cup DOMAIN keyRows) = {}

\* A restart changes which keys are accepted only where a handler was dropped
\* between row and cache, and it forgets uses but never adds one.
KeysAreStored ==
    \A k \in KeyId \ tornKeys :
        /\ k \in DOMAIN botKeys <=> k \in DOMAIN keyRows
        /\ k \in DOMAIN botKeys => keyRows[k].used <= botKeys[k].used

\* Rows and cache agree on the keys of a bot, and no key comes back
\* (create_bot_key, delete_bot_key, sync_bot_key_last_used).
KeysAgree == ApiKeysTypeOK /\ RevokedIsRefused /\ KeysAreStored
==============================================================================
