--------------------------- MODULE UserDataProofs ---------------------------
(***************************************************************************)
(* Stores of UserData, for any values of the constants: the API keys of a  *)
(* bot, and the server's configuration, in both of which a row and its     *)
(* copy in memory change one after the other; archives, where files and    *)
(* rows do; the settings of a user, in rows, cache and devices; direct     *)
(* messages, which are stored as the settings say; uploads, which meet in  *)
(* the file system; profiles, which clients follow by their log; and what  *)
(* is read back of a conversation.                                         *)
(***************************************************************************)
EXTENDS ApiKeys, ServerConfig, Archives, Settings, Sending, Uploads, Profiles, History,
        FiniteSetTheorems, WellFoundedInduction, TLAPS

(***************************************************************************)
(* Rows and cache agree on the keys of a bot.                              *)
(***************************************************************************)
\* What a key is; KeysAgree says of its uses only that they are counted.
Key == [name : KeyName, used : 0 .. MaxUses]

IsKeyTable(table, last) ==
    /\ table \in [DOMAIN table -> Key]
    /\ DOMAIN table \subseteq 1 .. last
    /\ \A j, k \in DOMAIN table : table[j].name = table[k].name => j = k

\* The inductive invariant.  Ids beyond the last one were never given out, so a
\* new key is neither revoked nor torn.
KeysInv ==
    /\ lastKey \in Nat
    /\ IsKeyTable(keyRows, lastKey) /\ IsKeyTable(botKeys, lastKey)
    /\ revoked \subseteq 1 .. lastKey
    /\ RevokedIsRefused
    /\ KeysAreStored

-----------------------------------------------------------------------------
\* The invariant is as strong as the property.
LEMMA KeysInvAgree == KeysInv => KeysAgree
BY DEF KeysInv, IsKeyTable, Key, KeysAgree, ApiKeysTypeOK

\* Initially there are no keys.
LEMMA KeysInitInv == ApiKeysInit => KeysInv
BY DEF ApiKeysInit, KeysInv, IsKeyTable, RevokedIsRefused, KeysAreStored

\* A table with a key of a new name.
LEMMA WithKeyFacts ==
    ASSUME NEW last \in Nat, NEW table, IsKeyTable(table, last),
           NEW n \in KeyName, ~Named(table, n)
    PROVE  LET t == WithKey(table, last + 1, NewKey(n)) IN
           /\ IsKeyTable(t, last + 1)
           /\ DOMAIN t = DOMAIN table \cup {last + 1}
           /\ t[last + 1].used = 0
           /\ \A k \in DOMAIN table : t[k] = table[k]
<1> DEFINE t == WithKey(table, last + 1, NewKey(n))
<1>1. NewKey(n) \in Key /\ NewKey(n).name = n /\ NewKey(n).used = 0
  BY DEF NewKey, Key, MaxUses
<1>2. DOMAIN t = DOMAIN table \cup {last + 1} /\ last + 1 \notin DOMAIN table
  BY DEF WithKey, IsKeyTable
<1>3. \A k \in DOMAIN table : t[k] = table[k] /\ t[k] \in Key /\ t[k].name # n
  BY <1>2 DEF WithKey, IsKeyTable, Named
<1>4. t[last + 1] = NewKey(n)
  BY <1>2 DEF WithKey
<1>5. t \in [DOMAIN t -> Key]
  BY <1>1, <1>2, <1>3, <1>4 DEF WithKey
<1>6. DOMAIN t \subseteq 1 .. last + 1
  BY <1>2 DEF IsKeyTable
<1>7. \A j, k \in DOMAIN t : t[j].name = t[k].name => j = k
  BY <1>1, <1>2, <1>3, <1>4 DEF IsKeyTable
<1> QED
  BY <1>1, <1>2, <1>3, <1>4, <1>5, <1>6, <1>7 DEF IsKeyTable

\* A table is one for a later last key, too.
LEMMA TableStays ==
    ASSUME NEW last \in Nat, NEW table, IsKeyTable(table, last)
    PROVE  IsKeyTable(table, last + 1)
BY DEF IsKeyTable

\* A key is made: in the row and, if the handler is not dropped, in the cache.
LEMMA CreateKeyInv == ASSUME KeysInv, NEW n \in KeyName, CreateKey(n) PROVE KeysInv'
<1> DEFINE k == lastKey + 1
<1>1. lastKey \in Nat /\ lastKey' = k /\ ~Named(keyRows, n) /\ ~Named(botKeys, n) /\ k \in KeyId
  BY DEF CreateKey, KeysInv
<1>2. keyRows' = WithKey(keyRows, k, NewKey(n)) /\ revoked' = revoked
  BY DEF CreateKey
<1>3. /\ IsKeyTable(keyRows', lastKey')
      /\ DOMAIN keyRows' = DOMAIN keyRows \cup {k}
      /\ keyRows'[k].used = 0
      /\ \A j \in DOMAIN keyRows : keyRows'[j] = keyRows[j]
  <2>1. IsKeyTable(keyRows, lastKey)
    BY DEF KeysInv
  <2> QED
    BY <1>1, <1>2, <2>1, WithKeyFacts
<1>4. revoked' \subseteq 1 .. lastKey' /\ k \notin revoked
  BY <1>1, <1>2 DEF KeysInv
<1>5. DOMAIN botKeys \subseteq 1 .. lastKey /\ IsKeyTable(botKeys, lastKey)
  BY DEF KeysInv, IsKeyTable
<1>6. CASE botKeys' = WithKey(botKeys, k, NewKey(n)) /\ tornKeys' = tornKeys
  <2>1. /\ IsKeyTable(botKeys', lastKey')
        /\ DOMAIN botKeys' = DOMAIN botKeys \cup {k}
        /\ botKeys'[k].used = 0
        /\ \A j \in DOMAIN botKeys : botKeys'[j] = botKeys[j]
    BY <1>1, <1>5, <1>6, WithKeyFacts
  <2>2. RevokedIsRefused'
    BY <1>2, <1>3, <1>4, <2>1 DEF KeysInv, RevokedIsRefused
  <2>3. KeysAreStored'
    BY <1>1, <1>3, <1>6, <2>1 DEF KeysInv, KeysAreStored
  <2> QED
    BY <1>1, <1>3, <1>4, <2>1, <2>2, <2>3 DEF KeysInv
<1>7. CASE tornKeys' = tornKeys \cup {k} /\ botKeys' = botKeys
  <2>1. IsKeyTable(botKeys', lastKey')
    BY <1>1, <1>5, <1>7, TableStays
  <2>2. RevokedIsRefused'
    BY <1>2, <1>3, <1>4, <1>7 DEF KeysInv, RevokedIsRefused
  <2>3. KeysAreStored'
    BY <1>3, <1>7 DEF KeysInv, KeysAreStored
  <2> QED
    BY <1>1, <1>3, <1>4, <2>1, <2>2, <2>3 DEF KeysInv
<1> QED
  BY <1>6, <1>7 DEF CreateKey

\* Without one of its keys, a table is one.
LEMMA RestrictFacts ==
    ASSUME NEW last, NEW table, IsKeyTable(table, last), NEW k
    PROVE  /\ IsKeyTable(Restrict(table, DOMAIN table \ {k}), last)
           /\ DOMAIN Restrict(table, DOMAIN table \ {k}) = DOMAIN table \ {k}
           /\ \A j \in DOMAIN table \ {k} : Restrict(table, DOMAIN table \ {k})[j] = table[j]
BY DEF Restrict, IsKeyTable

\* A key is deleted.  A handler dropped half way leaves it in the cache, torn.
LEMMA DeleteKeyInv == ASSUME KeysInv, NEW k \in KeyId, DeleteKey(k) PROVE KeysInv'
<1>1. /\ lastKey' = lastKey /\ k \in DOMAIN botKeys
      /\ keyRows' = Restrict(keyRows, DOMAIN keyRows \ {k})
  BY DEF DeleteKey
<1>2. IsKeyTable(keyRows, lastKey) /\ IsKeyTable(botKeys, lastKey) /\ k \in 1 .. lastKey
  BY <1>1 DEF KeysInv, IsKeyTable
<1>3. /\ IsKeyTable(keyRows', lastKey')
      /\ DOMAIN keyRows' = DOMAIN keyRows \ {k}
      /\ \A j \in DOMAIN keyRows \ {k} : keyRows'[j] = keyRows[j]
  BY <1>1, <1>2, RestrictFacts, Zenon
<1>4. CASE /\ botKeys' = Restrict(botKeys, DOMAIN botKeys \ {k})
           /\ revoked' = revoked \cup {k} /\ tornKeys' = tornKeys
  <2>1. /\ IsKeyTable(botKeys', lastKey')
        /\ DOMAIN botKeys' = DOMAIN botKeys \ {k}
        /\ \A j \in DOMAIN botKeys \ {k} : botKeys'[j] = botKeys[j]
    BY <1>1, <1>2, <1>4, RestrictFacts, Zenon
  <2>2. RevokedIsRefused'
    BY <1>3, <1>4, <2>1 DEF KeysInv, RevokedIsRefused
  <2>3. KeysAreStored'
    BY <1>3, <1>4, <2>1 DEF KeysInv, KeysAreStored
  <2> QED
    BY <1>1, <1>2, <1>3, <1>4, <2>1, <2>2, <2>3 DEF KeysInv
<1>5. CASE tornKeys' = tornKeys \cup {k} /\ botKeys' = botKeys /\ revoked' = revoked
  <2>1. IsKeyTable(botKeys', lastKey')
    BY <1>1, <1>2, <1>5 DEF IsKeyTable
  <2>2. RevokedIsRefused'
    BY <1>3, <1>5 DEF KeysInv, RevokedIsRefused
  <2>3. KeysAreStored'
    BY <1>3, <1>5 DEF KeysInv, KeysAreStored
  <2> QED
    BY <1>1, <1>2, <1>3, <1>5, <2>1, <2>2, <2>3 DEF KeysInv
<1> QED
  BY <1>4, <1>5 DEF DeleteKey

\* A use is counted in the cache, ahead of the row.
LEMMA UseKeyInv == ASSUME KeysInv, NEW k \in KeyId, UseKey(k) PROVE KeysInv'
<1>1. /\ k \in DOMAIN botKeys /\ botKeys[k].used < MaxUses
      /\ botKeys' = [botKeys EXCEPT ![k].used = @ + 1]
      /\ keyRows' = keyRows /\ lastKey' = lastKey /\ revoked' = revoked /\ tornKeys' = tornKeys
  BY DEF UseKey
<1>2. botKeys \in [DOMAIN botKeys -> Key]
  BY DEF KeysInv, IsKeyTable
<1>3. /\ DOMAIN botKeys' = DOMAIN botKeys
      /\ \A j \in DOMAIN botKeys :
            botKeys'[j].name = botKeys[j].name /\ botKeys'[j].used >= botKeys[j].used
  BY <1>1, <1>2 DEF Key
<1>4. botKeys' \in [DOMAIN botKeys' -> Key]
  BY <1>1, <1>2 DEF Key, MaxUses
<1>5. IsKeyTable(botKeys', lastKey')
  BY <1>1, <1>3, <1>4 DEF KeysInv, IsKeyTable
<1>6. IsKeyTable(keyRows', lastKey') /\ keyRows \in [DOMAIN keyRows -> Key]
  BY <1>1 DEF KeysInv, IsKeyTable
<1>7. KeysAreStored'
  <2> SUFFICES ASSUME NEW j \in KeyId \ tornKeys
               PROVE  /\ j \in DOMAIN botKeys <=> j \in DOMAIN keyRows
                      /\ j \in DOMAIN botKeys => keyRows[j].used <= botKeys'[j].used
    BY <1>1, <1>3 DEF KeysAreStored
  <2>1. /\ j \in DOMAIN botKeys <=> j \in DOMAIN keyRows
        /\ j \in DOMAIN botKeys => keyRows[j].used <= botKeys[j].used
    BY DEF KeysInv, KeysAreStored
  <2>2. ASSUME j \in DOMAIN botKeys
        PROVE  /\ keyRows[j].used \in Int /\ botKeys[j].used \in Int /\ botKeys'[j].used \in Int
               /\ botKeys'[j].used >= botKeys[j].used
    BY <1>2, <1>3, <1>4, <1>6, <2>1, <2>2 DEF Key
  <2> QED
    BY <2>1, <2>2
<1>8. RevokedIsRefused'
  BY <1>1, <1>3 DEF KeysInv, RevokedIsRefused
<1> QED
  BY <1>1, <1>5, <1>6, <1>7, <1>8 DEF KeysInv

\* The task copies uses from the cache to the rows there are.
LEMMA SyncInv == ASSUME KeysInv, Sync PROVE KeysInv'
<1>1. /\ DOMAIN keyRows' = DOMAIN keyRows
      /\ botKeys' = botKeys /\ lastKey' = lastKey /\ revoked' = revoked /\ tornKeys' = tornKeys
  BY DEF Sync
<1>2. keyRows \in [DOMAIN keyRows -> Key] /\ botKeys \in [DOMAIN botKeys -> Key]
  BY DEF KeysInv, IsKeyTable
<1>3. \A k \in DOMAIN keyRows :
         /\ keyRows'[k] \in Key /\ keyRows'[k].name = keyRows[k].name
         /\ k \in DOMAIN botKeys => keyRows'[k].used = botKeys[k].used
  BY <1>2 DEF Sync, Key
<1>4. keyRows' \in [DOMAIN keyRows' -> Key]
  BY <1>3 DEF Sync
<1>5. IsKeyTable(keyRows', lastKey') /\ IsKeyTable(botKeys', lastKey')
  BY <1>1, <1>3, <1>4 DEF KeysInv, IsKeyTable
<1>6. \A k \in DOMAIN botKeys : botKeys[k].used \in Int
  BY <1>2 DEF Key
<1>7. KeysAreStored'
  BY <1>1, <1>3, <1>6 DEF KeysInv, KeysAreStored
<1> QED
  BY <1>1, <1>5, <1>7 DEF KeysInv, RevokedIsRefused

\* A restart takes the rows for the cache, and mends what was torn.
LEMMA RestartKeysInv == ASSUME KeysInv, RestartKeys PROVE KeysInv'
<1>1. botKeys' = keyRows /\ keyRows' = keyRows /\ lastKey' = lastKey /\ revoked' = revoked
  BY DEF RestartKeys
<1>2. IsKeyTable(keyRows', lastKey') /\ IsKeyTable(botKeys', lastKey')
  BY <1>1 DEF KeysInv, IsKeyTable
<1>3. \A k \in DOMAIN keyRows : keyRows[k].used \in Int
  BY DEF KeysInv, IsKeyTable, Key
<1>4. KeysAreStored'
  BY <1>1, <1>3 DEF KeysAreStored
<1> QED
  BY <1>1, <1>2, <1>4 DEF KeysInv, RevokedIsRefused

\* Every step keeps the invariant.
LEMMA KeysNextInv == ASSUME KeysInv, [ApiKeysNext]_keyVars PROVE KeysInv'
<1>1. CASE UNCHANGED keyVars
  BY <1>1 DEF keyVars, KeysInv, IsKeyTable, RevokedIsRefused, KeysAreStored
<1>2. CASE ApiKeysNext
  BY <1>2, CreateKeyInv, DeleteKeyInv, UseKeyInv, SyncInv, RestartKeysInv DEF ApiKeysNext
<1> QED
  BY <1>1, <1>2

\* A key whose deletion was answered is refused for good, by the running server
\* and by one that is started again; rows and cache have the same keys unless a
\* handler was dropped between them (create_bot_api_key, delete_bot_api_key,
\* check_api_key, sync_bot_key_last_used, load_users_cache).
THEOREM ApiKeysAgree == ApiKeysSpec => []KeysAgree
<1>1. KeysInv /\ [ApiKeysNext]_keyVars => KeysInv'
  BY KeysNextInv
<1> QED
  BY <1>1, KeysInitInv, KeysInvAgree, PTL DEF ApiKeysSpec

(***************************************************************************)
(* The configuration in use is the stored one.                             *)
(***************************************************************************)
\* While sets do not cross, the row is that of the only one under way.
OnlyOneSets ==
    part # "common" /\ ~crossed =>
        \A a \in Setter : setting[a] # NoRow =>
            setting[a] = entry /\ \A b \in Setter \ {a} : Idle(b)

\* The inductive invariant: what the request is going to put in use is what it
\* has written, and nobody wrote after it.
ConfigInv ==
    /\ ConfigTypeOK
    /\ part # "common" => base = None
    /\ OnlyOneSets
    /\ ConfigInUseIsStored

-----------------------------------------------------------------------------
\* The row that is not there is no entry.
LEMMA NoRowIsNoEntry == NoRow \notin Entry
BY DEF NoRow, Entry, Field

\* What a row loads is an entry; an entry, of any part but the common one, loads
\* as it is.
LEMMA LoadedFacts ==
    ASSUME part \in Part, NEW e \in Entry \cup {NoRow}
    PROVE  /\ Loaded(e) \in Entry
           /\ part # "common" /\ e # NoRow => Loaded(e) = e
BY NoRowIsNoEntry DEF Loaded, Part, Entry, Off, Field

\* A start with the tables of a new server.
LEMMA ConfigInitInv == ConfigInit => ConfigInv
<1> SUFFICES ASSUME ConfigInit PROVE ConfigInv
  OBVIOUS
<1>1. ConfigTypeOK
  BY DEF ConfigInit, ConfigTypeOK, Entry, Field, Off, None
<1>2. \A a \in Setter : setting[a] = NoRow
  BY DEF ConfigInit, None
<1>3. part # "common" => instance = Loaded(entry)
  BY NoRowIsNoEntry DEF ConfigInit, Loaded, Part, NoRow
<1> QED
  BY <1>1, <1>2, <1>3 DEF ConfigInit, ConfigInv, OnlyOneSets, ConfigInUseIsStored

\* A row is written: by one whom others have overtaken, or who is alone.
LEMMA SetRowInv ==
    ASSUME ConfigInv, NEW a \in Setter, NEW e \in Entry, SetRow(a, e)
    PROVE  ConfigInv'
<1>1. /\ part # "common" /\ Idle(a)
      /\ entry' = e /\ setting' = [setting EXCEPT ![a] = e]
      /\ crossed' = (\E b \in Setter \ {a} : ~Idle(b))
      /\ part' = part /\ instance' = instance /\ base' = base /\ patched' = patched
  BY DEF SetRow, WriteRow
<1>2. ConfigTypeOK /\ base = None
  BY <1>1 DEF ConfigInv
<1>3. ConfigTypeOK'
  BY <1>1, <1>2 DEF ConfigTypeOK
<1>4. setting'[a] = e /\ e # NoRow /\ \A b \in Setter \ {a} : setting'[b] = setting[b]
  BY <1>1, <1>2, NoRowIsNoEntry DEF ConfigTypeOK
<1>5. OnlyOneSets'
  <2> SUFFICES ASSUME \A b \in Setter \ {a} : Idle(b)
               PROVE  \A c \in Setter : setting'[c] # NoRow =>
                          setting'[c] = entry' /\ \A b \in Setter \ {c} : Idle(b)'
    BY <1>1 DEF OnlyOneSets
  <2> QED
    BY <1>1, <1>4 DEF Idle
<1>6. ~AllIdle'
  BY <1>4 DEF AllIdle, Idle
<1> QED
  BY <1>1, <1>2, <1>3, <1>5, <1>6 DEF ConfigInv, ConfigInUseIsStored

\* The common settings are outside of what is claimed of the others.
LEMMA CommonInv ==
    ASSUME ConfigTypeOK', part' = "common"
    PROVE  ConfigInv'
BY DEF ConfigInv, OnlyOneSets, ConfigInUseIsStored

\* Reading the row of the common settings.
LEMMA ReadBaseInv == ASSUME ConfigInv, NEW a \in Setter, ReadBase(a) PROVE ConfigInv'
<1>1. ConfigTypeOK'
  BY DEF ReadBase, ConfigInv, ConfigTypeOK, Off, Entry
<1> QED
  BY <1>1, CommonInv DEF ReadBase

\* Writing it back with a field changed.
LEMMA PatchInv ==
    ASSUME ConfigInv, NEW a \in Setter, NEW f \in Field, Patch(a, f)
    PROVE  ConfigInv'
<1>1. ConfigTypeOK
  BY DEF ConfigInv
<1>2. part = "common"
  BY DEF Patch, ConfigInv, None
<1>3. base[a] \cup {f} \in Entry
  BY <1>1 DEF Patch, ConfigTypeOK, Entry
<1>4. ConfigTypeOK'
  BY <1>1, <1>3 DEF Patch, WriteRow, ConfigTypeOK
<1> QED
  BY <1>2, <1>4, CommonInv DEF Patch

\* What was written is put in use.
LEMMA SetInstanceInv == ASSUME ConfigInv, NEW a \in Setter, SetInstance(a) PROVE ConfigInv'
<1>1. /\ setting[a] # NoRow /\ instance' = setting[a]
      /\ setting' = [setting EXCEPT ![a] = NoRow]
      /\ part' = part /\ entry' = entry /\ base' = base /\ crossed' = crossed
      /\ patched' = IF part = "common" THEN patched \cup setting[a] ELSE patched
  BY DEF SetInstance
<1>2. ConfigTypeOK
  BY DEF ConfigInv
<1>3. ConfigTypeOK'
  BY <1>1, <1>2 DEF ConfigTypeOK, Entry
<1>4. \A b \in Setter : setting'[b] # NoRow => b # a /\ setting'[b] = setting[b]
  BY <1>1, <1>2 DEF ConfigTypeOK
<1>5. OnlyOneSets'
  BY <1>1, <1>4 DEF ConfigInv, OnlyOneSets, Idle
<1>6. ConfigInUseIsStored'
  <2> SUFFICES ASSUME part # "common", ~crossed PROVE instance' = Loaded(entry)'
    BY <1>1 DEF ConfigInUseIsStored
  <2>1. setting[a] = entry
    BY <1>1 DEF ConfigInv, OnlyOneSets
  <2>2. Loaded(entry) = entry
    BY <1>1, <1>2, <2>1, LoadedFacts DEF ConfigTypeOK
  <2> QED
    BY <1>1, <2>1, <2>2 DEF Loaded
<1> QED
  BY <1>1, <1>3, <1>5, <1>6 DEF ConfigInv

\* A set that is cut short counts as crossed.
LEMMA SetCutInv == ASSUME ConfigInv, NEW a \in Setter, SetCut(a) PROVE ConfigInv'
<1>1. ConfigTypeOK'
  BY DEF SetCut, ConfigInv, ConfigTypeOK
<1> QED
  BY <1>1 DEF SetCut, ConfigInv, OnlyOneSets, ConfigInUseIsStored

\* A start loads what is stored.
LEMMA RestartConfigInv == ASSUME ConfigInv, RestartConfig PROVE ConfigInv'
<1>1. /\ part' = part /\ patched' = patched /\ crossed' = FALSE
      /\ setting' = None /\ base' = None /\ instance' = Loaded(entry')
      /\ entry' = IF part = "login" THEN {"one"} ELSE entry
  BY DEF RestartConfig
<1>2. entry' \in Entry \cup {NoRow} /\ part \in Part /\ patched \in SUBSET Field
  BY <1>1 DEF ConfigInv, ConfigTypeOK, Entry, Field
<1>3. Loaded(entry') \in Entry
  BY <1>2, LoadedFacts
<1>4. ConfigTypeOK'
  BY <1>1, <1>2, <1>3 DEF ConfigTypeOK, None
<1>5. Loaded(entry)' = Loaded(entry')
  BY <1>1 DEF Loaded
<1> QED
  BY <1>1, <1>4, <1>5 DEF ConfigInv, OnlyOneSets, ConfigInUseIsStored, None

\* Every step keeps the invariant.
LEMMA ConfigNextInv == ASSUME ConfigInv, [ConfigNext]_configVars PROVE ConfigInv'
<1>1. CASE UNCHANGED configVars
  BY <1>1 DEF configVars, ConfigInv, ConfigTypeOK, OnlyOneSets, ConfigInUseIsStored,
              AllIdle, Idle, Loaded
<1>2. CASE ConfigNext
  BY <1>2, SetRowInv, ReadBaseInv, PatchInv, SetInstanceInv, SetCutInv, RestartConfigInv
  DEF ConfigNext
<1> QED
  BY <1>1, <1>2

\* When every set of the configuration is over, the one in use is the one in the
\* table, which the next start loads, although row and instance are written
\* under no common lock: sets that did not cross and were not cut short agree
\* (set_dynamic_config, initialize_dynamic_config_with, create_state).
THEOREM StoredConfigInUse == ConfigSpec => []ConfigAgrees
<1>1. ConfigInv => ConfigAgrees
  BY DEF ConfigInv, ConfigAgrees
<1>2. ConfigInv /\ [ConfigNext]_configVars => ConfigInv'
  BY ConfigNextInv
<1> QED
  BY <1>1, <1>2, ConfigInitInv, PTL DEF ConfigSpec

(***************************************************************************)
(* Favourites are kept until they are deleted, and files for their days.   *)
(***************************************************************************)
\* The steps of a request that makes an archive, before and after it has read
\* the file; it deletes one in the others.
BeforeFile == {"favorite", "forward"}
BeforePreview == {"favorite file", "forward file"}
BeforeSave == {"save favorite", "save forward"}
Making == BeforeFile \cup BeforePreview \cup BeforeSave \cup {"list"}
Deleting == {"unlist", "remove"}

HandTypes ==
    /\ asking \in [Asker -> Making \cup Deleting \cup {"idle"}]
    /\ hand \in [Asker -> [id : 0 .. lastArchive, bytes : SUBSET {"file", "thumbnail"}]]
    /\ \A r \in Asker : asking[r] = "idle" => hand[r] = NoHand
    /\ \A r \in Asker : asking[r] # "idle" => hand[r].id # 0
    /\ day \in Nat /\ today \in 0 .. day /\ lastArchive \in 0 .. MaxArchives /\ account \in BOOLEAN

\* The id of an archive that is being made is known to nobody else, ...
MadeAlone ==
    \A r \in Asker : asking[r] \in Making =>
        /\ \A q \in Asker : hand[q].id = hand[r].id => q = r
        /\ hand[r].id \notin favRows \cup deleted \cup DOMAIN promised
        /\ asking[r] # "list" => hand[r].id \notin DOMAIN favFiles

\* ... and its file is written before its row.
FileBeforeRow ==
    \A r \in Asker : asking[r] = "list" =>
        hand[r].id \in DOMAIN favFiles /\ favFiles[hand[r].id] = hand[r].bytes

\* One that is being deleted is promised no more, and its row is gone first.
RowGoesFirst ==
    \A r \in Asker :
        /\ asking[r] \in Deleting => hand[r].id \notin DOMAIN promised
        /\ asking[r] = "remove" => hand[r].id \notin favRows

\* A request has the bytes of a file that was there when it read it, and the
\* thumbnail goes before the file.
HandIsWhole ==
    \A r \in Asker :
        /\ asking[r] \in BeforeFile => hand[r].bytes = {}
        /\ asking[r] \in BeforePreview => (upload => "file" \in hand[r].bytes)
                                          /\ "thumbnail" \notin hand[r].bytes
        /\ asking[r] \in Making \ BeforeFile /\ day <= FileExpiryDays => "file" \in hand[r].bytes
        /\ asking[r] \in Making /\ "thumbnail" \in hand[r].bytes => "file" \in hand[r].bytes

ThumbnailFirst == cleaning = "files" => (preview => ~Over(0))

IdsGivenOut == deleted \cup DOMAIN promised \subseteq 1 .. lastArchive

\* What is known of favourites, and what of files.
FavoritesInv ==
    MadeAlone /\ FileBeforeRow /\ RowGoesFirst /\ FavoritesKept /\ DeletedFavoriteGone
FilesInv == HandIsWhole /\ ThumbnailFirst /\ NothingGoesEarly

\* The inductive invariant.
ArchivesInv == ArchivesTypeOK /\ HandTypes /\ IdsGivenOut /\ FavoritesInv /\ FilesInv

-----------------------------------------------------------------------------
\* The invariant is as strong as the property.
LEMMA ArchivesInvKept == ArchivesInv => ArchivesKept
BY DEF ArchivesInv, FavoritesInv, FilesInv, ArchivesKept

\* The bounds are numbers.
LEMMA ArchiveBounds ==
    FileExpiryDays \in Nat /\ MaxDay \in Nat /\ MaxArchives \in Nat
BY ArchivesAssumption

\* Initially there is a file of day 0, and no archive.
LEMMA ArchivesInitInv == ArchivesInit => ArchivesInv
<1> SUFFICES ASSUME ArchivesInit PROVE ArchivesInv
  OBVIOUS
<1> USE ArchiveBounds
    DEF ArchivesInit, Empty, NoHand, Making, Deleting, BeforeFile, BeforePreview, BeforeSave
<1>1. ArchivesTypeOK
  BY DEF ArchivesTypeOK
<1>2. HandTypes /\ IdsGivenOut
  BY DEF HandTypes, IdsGivenOut
<1>3. FavoritesInv
  BY DEF FavoritesInv, MadeAlone, FileBeforeRow, RowGoesFirst, FavoritesKept, DeletedFavoriteGone
<1>4. FilesInv
  BY DEF FilesInv, HandIsWhole, ThumbnailFirst, NothingGoesEarly
<1> QED
  BY <1>1, <1>2, <1>3, <1>4 DEF ArchivesInv

\* Who runs has an archive in hand whose id was given out.
LEMMA HandIds ==
    ASSUME HandTypes
    PROVE  /\ lastArchive \in Nat /\ day \in Nat
           /\ \A q \in Asker : asking[q] # "idle" => hand[q].id \in 1 .. lastArchive
BY ArchiveBounds DEF HandTypes

\* A step of one request, with what it has in hand.
LEMMA OneSteps ==
    ASSUME HandTypes, NEW r \in Asker,
           NEW step \in Making \cup Deleting \cup {"idle"}, asking' = [asking EXCEPT ![r] = step]
    PROVE  /\ asking' \in [Asker -> Making \cup Deleting \cup {"idle"}]
           /\ asking'[r] = step /\ \A q \in Asker : q # r => asking'[q] = asking[q]
BY DEF HandTypes

\* A step that leaves requests and favourites alone.
LEMMA FavoritesStay ==
    ASSUME FavoritesInv, UNCHANGED <<asking, hand, favVars, saidVars>>
    PROVE  FavoritesInv'
BY DEF FavoritesInv, MadeAlone, FileBeforeRow, RowGoesFirst, FavoritesKept, DeletedFavoriteGone,
       favVars, saidVars

\* The end of a request, which may list, promise or delete what it had in hand.
LEMMA EndKeepsMadeAlone ==
    ASSUME HandTypes, MadeAlone, NEW r \in Asker, asking[r] # "idle",
           asking'[r] = "idle", hand'[r] = NoHand,
           \A q \in Asker : q # r => asking'[q] = asking[q] /\ hand'[q] = hand[q],
           (favRows \cup deleted \cup DOMAIN promised)' \subseteq
               favRows \cup deleted \cup DOMAIN promised \cup {hand[r].id},
           DOMAIN favFiles' \subseteq DOMAIN favFiles
    PROVE  /\ MadeAlone'
           /\ \A q \in Asker : asking'[q] \in Making => hand'[q].id # hand[r].id
<1> SUFFICES ASSUME NEW q \in Asker, asking'[q] \in Making
             PROVE  /\ \A p \in Asker : hand'[p].id = hand'[q].id => p = q
                    /\ hand'[q].id \notin (favRows \cup deleted \cup DOMAIN promised)'
                    /\ asking'[q] # "list" => hand'[q].id \notin DOMAIN favFiles'
                    /\ hand'[q].id # hand[r].id
  BY DEF MadeAlone
<1>1. q # r /\ asking[q] = asking'[q] /\ hand'[q] = hand[q] /\ asking[q] # "idle"
  BY DEF Making, BeforeFile, BeforePreview, BeforeSave
<1>2. hand[q].id # 0 /\ hand'[r].id = 0
  BY <1>1 DEF HandTypes, NoHand
<1>3. /\ \A p \in Asker : hand[p].id = hand[q].id => p = q
      /\ hand[q].id \notin favRows \cup deleted \cup DOMAIN promised
      /\ asking[q] # "list" => hand[q].id \notin DOMAIN favFiles
  BY <1>1 DEF MadeAlone
<1> QED
  BY <1>1, <1>2, <1>3

\* A request's step that leaves the files alone, and promises nothing new: it
\* ends, or deletes an archive.
LEMMA FilesStay ==
    ASSUME FilesInv, UNCHANGED <<day, fileVars, cleanVars>>,
           \A q \in Asker : asking'[q] \in Making => asking'[q] = asking[q] /\ hand'[q] = hand[q],
           \A a \in DOMAIN promised' : a \in DOMAIN promised /\ promised'[a] = promised[a]
    PROVE  FilesInv'
BY DEF FilesInv, HandIsWhole, ThumbnailFirst, NothingGoesEarly, fileVars, cleanVars, Over,
       Making, BeforeFile, BeforePreview

\* An archive is begun, under an id that was not used.
LEMMA AskForInv ==
    ASSUME ArchivesInv, NEW r \in Asker, NEW what \in {"favorite", "forward"}, AskFor(r, what)
    PROVE  ArchivesInv'
<1> DEFINE new == lastArchive + 1
<1>1. /\ asking[r] = "idle" /\ new \in 1 .. MaxArchives /\ lastArchive \in Nat /\ lastArchive' = new
      /\ asking' = [asking EXCEPT ![r] = what]
      /\ hand' = [hand EXCEPT ![r] = [id |-> new, bytes |-> {}]]
      /\ UNCHANGED <<day, fileVars, account, favVars, cleanVars, saidVars>>
  BY ArchiveBounds DEF AskFor, Step, ArchivesInv, HandTypes
<1>2. /\ asking'[r] = what /\ hand'[r] = [id |-> new, bytes |-> {}] /\ hand'[r] # NoHand
      /\ \A q \in Asker : q # r => asking'[q] = asking[q] /\ hand'[q] = hand[q]
  BY <1>1 DEF ArchivesInv, HandTypes, NoHand
<1>3. 1 .. lastArchive \subseteq 1 .. new /\ 0 .. lastArchive \subseteq 0 .. new /\ new \in 0 .. new
      /\ new \notin 0 .. lastArchive
  BY <1>1
<1>4. ArchivesTypeOK'
  BY <1>1, <1>2, <1>3 DEF ArchivesInv, ArchivesTypeOK, fileVars, favVars, cleanVars
<1>5. HandTypes'
  <2>1. hand' \in [Asker -> [id : 0 .. new, bytes : SUBSET {"file", "thumbnail"}]]
    BY <1>1, <1>3 DEF ArchivesInv, HandTypes
  <2> QED
    BY <1>1, <1>2, <2>1, OneSteps DEF ArchivesInv, HandTypes, Making, BeforeFile, cleanVars
<1>6. IdsGivenOut'
  BY <1>1, <1>3 DEF ArchivesInv, IdsGivenOut, saidVars
<1>7. new \notin favRows \cup DOMAIN favFiles \cup deleted \cup DOMAIN promised
  BY <1>3 DEF ArchivesInv, ArchivesTypeOK, IdsGivenOut
<1>8. \A q \in Asker : hand[q].id # new
  BY <1>3 DEF ArchivesInv, HandTypes
<1>9. FavoritesInv'
  <2>1. MadeAlone'
    <3> SUFFICES ASSUME NEW q \in Asker, asking'[q] \in Making
                 PROVE  /\ \A p \in Asker : hand'[p].id = hand'[q].id => p = q
                        /\ hand'[q].id \notin favRows \cup deleted \cup DOMAIN promised
                        /\ asking'[q] # "list" => hand'[q].id \notin DOMAIN favFiles
      BY <1>1 DEF MadeAlone, favVars, saidVars
    <3>1. CASE q = r
      BY <3>1, <1>2, <1>7, <1>8
    <3>2. CASE q # r
      BY <3>2, <1>2, <1>8 DEF ArchivesInv, FavoritesInv, MadeAlone
    <3> QED
      BY <3>1, <3>2
  <2>2. FileBeforeRow' /\ RowGoesFirst'
    BY <1>1, <1>2 DEF ArchivesInv, FavoritesInv, FileBeforeRow, RowGoesFirst, favVars, saidVars,
       Deleting
  <2> QED
    BY <1>1, <2>1, <2>2 DEF ArchivesInv, FavoritesInv, FavoritesKept, DeletedFavoriteGone, favVars,
       saidVars
<1>10. FilesInv'
  <2>1. HandIsWhole'
    <3> SUFFICES ASSUME NEW q \in Asker
                 PROVE  /\ asking'[q] \in BeforeFile => hand'[q].bytes = {}
                        /\ asking'[q] \in BeforePreview =>
                              (upload => "file" \in hand'[q].bytes)
                              /\ "thumbnail" \notin hand'[q].bytes
                        /\ asking'[q] \in Making \ BeforeFile /\ day <= FileExpiryDays =>
                              "file" \in hand'[q].bytes
                        /\ asking'[q] \in Making /\ "thumbnail" \in hand'[q].bytes =>
                              "file" \in hand'[q].bytes
      BY <1>1 DEF HandIsWhole, fileVars
    <3>1. CASE q # r
      BY <3>1, <1>2 DEF ArchivesInv, FilesInv, HandIsWhole
    <3>2. CASE q = r
      <4>1. asking'[q] = what /\ hand'[q].bytes = {}
        BY <3>2, <1>2
      <4>2. what \in BeforeFile /\ what \notin BeforePreview /\ what \notin Making \ BeforeFile
        BY DEF BeforeFile, BeforePreview
      <4> QED
        BY <4>1, <4>2
    <3> QED
      BY <3>1, <3>2
  <2> QED
    BY <1>1, <2>1 DEF ArchivesInv, FilesInv, ThumbnailFirst, NothingGoesEarly, Over, fileVars,
       cleanVars, saidVars
<1> QED
  BY <1>4, <1>5, <1>6, <1>9, <1>10 DEF ArchivesInv

\* Who reads has more bytes in hand and is still the same request.
LEMMA ReadKeepsTypes ==
    ASSUME ArchivesTypeOK, HandTypes, NEW r \in Asker, NEW step \in Making, NEW bytes,
           bytes \in SUBSET {"file", "thumbnail"}, asking[r] \in Making,
           asking' = [asking EXCEPT ![r] = step], hand' = [hand EXCEPT ![r].bytes = bytes],
           UNCHANGED <<day, fileVars, account, favVars, lastArchive, cleanVars>>
    PROVE  HandTypes' /\ ArchivesTypeOK'
<1>1. step # "idle" /\ asking[r] # "idle" /\ step \in Making \cup Deleting \cup {"idle"}
  BY DEF Making, BeforeFile, BeforePreview, BeforeSave
<1>2. /\ asking' \in [Asker -> Making \cup Deleting \cup {"idle"}]
      /\ asking'[r] = step /\ \A q \in Asker : q # r => asking'[q] = asking[q]
  BY <1>1, OneSteps
<1>3. /\ hand \in [Asker -> [id : 0 .. lastArchive, bytes : SUBSET {"file", "thumbnail"}]]
      /\ hand' \in [Asker -> [id : 0 .. lastArchive, bytes : SUBSET {"file", "thumbnail"}]]
  BY DEF HandTypes
<1>4. /\ \A q \in Asker : hand'[q].id = hand[q].id
      /\ \A q \in Asker : q # r => hand'[q] = hand[q]
  BY <1>3
<1>5. hand[r].id # 0 /\ hand'[r].id # 0 /\ hand'[r] # NoHand
  BY <1>1, <1>4 DEF HandTypes, NoHand
<1>6. HandTypes'
  <2>1. \A q \in Asker : asking'[q] = "idle" => hand'[q] = NoHand
    BY <1>1, <1>2, <1>4 DEF HandTypes
  <2>2. \A q \in Asker : asking'[q] # "idle" => hand'[q].id # 0
    BY <1>1, <1>2, <1>4 DEF HandTypes
  <2> QED
    BY <1>2, <1>3, <2>1, <2>2 DEF HandTypes, cleanVars
<1>7. ArchivesTypeOK'
  <2>1. \A q \in Asker : (asking'[q] = "idle") <=> (hand'[q] = NoHand)
    BY <1>1, <1>2, <1>4, <1>5 DEF ArchivesTypeOK
  <2> QED
    BY <2>1 DEF ArchivesTypeOK, fileVars, favVars, cleanVars
<1> QED
  BY <1>6, <1>7

\* The file is read.
LEMMA ReadFileInv == ASSUME ArchivesInv, NEW r \in Asker, ReadFile(r) PROVE ArchivesInv'
<1> DEFINE next == IF asking[r] = "favorite" THEN "favorite file" ELSE "forward file"
           bytes == IF upload THEN {"file"} ELSE {}
<1>1. /\ asking[r] \in {"favorite", "forward"} /\ asking' = [asking EXCEPT ![r] = next]
      /\ hand' = [hand EXCEPT ![r].bytes = bytes]
      /\ UNCHANGED <<day, fileVars, account, favVars, lastArchive, cleanVars, saidVars>>
  BY DEF ReadFile, Step
<1>2. /\ asking'[r] = next /\ hand'[r].bytes = bytes
      /\ \A q \in Asker : q # r => asking'[q] = asking[q] /\ hand'[q] = hand[q]
      /\ \A q \in Asker : hand'[q].id = hand[q].id
  BY <1>1 DEF ArchivesInv, HandTypes
<1>3. next \in {"favorite file", "forward file"} /\ bytes \in SUBSET {"file", "thumbnail"}
  BY DEF ArchivesInv, HandTypes
<1> HIDE DEF next, bytes
<1>4. HandTypes' /\ ArchivesTypeOK'
  <2>1. next \in Making /\ asking[r] \in Making
    BY <1>1, <1>3 DEF Making, BeforeFile, BeforePreview, BeforeSave
  <2> QED
    BY <1>1, <1>3, <2>1, ReadKeepsTypes DEF ArchivesInv
<1>5. FavoritesInv'
  <2>1. \A q \in Asker :
           /\ asking'[q] \in Making => asking[q] \in Making /\ (asking[q] # "list" \/ q # r)
           /\ asking'[q] \in Deleting => asking[q] \in Deleting /\ q # r
           /\ asking'[q] = "list" => asking[q] = "list" /\ q # r
           /\ asking'[q] = "remove" => asking[q] = "remove"
    BY <1>1, <1>2, <1>3 DEF Making, Deleting, BeforeFile, BeforePreview, BeforeSave
  <2>2. asking[r] \in Making /\ asking[r] # "list"
    BY <1>1 DEF Making, BeforeFile, BeforePreview
  <2>3. MadeAlone'
    BY <1>1, <1>2, <2>1, <2>2 DEF ArchivesInv, FavoritesInv, MadeAlone, favVars, saidVars
  <2>4. FileBeforeRow' /\ RowGoesFirst'
    BY <1>1, <1>2, <2>1 DEF ArchivesInv, FavoritesInv, FileBeforeRow, RowGoesFirst, favVars, saidVars
  <2> QED
    BY <1>1, <2>3, <2>4 DEF ArchivesInv, FavoritesInv, FavoritesKept, DeletedFavoriteGone, favVars,
       saidVars
<1>6. FilesInv'
  <2>1. (day <= FileExpiryDays => upload) /\ hand[r].bytes = {} /\ asking[r] \in BeforeFile
    BY <1>1 DEF ArchivesInv, FilesInv, HandIsWhole, NothingGoesEarly, BeforeFile
  <2>2. HandIsWhole'
    <3> SUFFICES ASSUME NEW q \in Asker
                 PROVE  /\ asking'[q] \in BeforeFile => hand'[q].bytes = {}
                        /\ asking'[q] \in BeforePreview =>
                              (upload => "file" \in hand'[q].bytes)
                              /\ "thumbnail" \notin hand'[q].bytes
                        /\ asking'[q] \in Making \ BeforeFile /\ day <= FileExpiryDays =>
                              "file" \in hand'[q].bytes
                        /\ asking'[q] \in Making /\ "thumbnail" \in hand'[q].bytes =>
                              "file" \in hand'[q].bytes
      BY <1>1 DEF HandIsWhole, fileVars
    <3>1. CASE q # r
      BY <3>1, <1>2 DEF ArchivesInv, FilesInv, HandIsWhole
    <3>2. CASE q = r
      BY <3>2, <1>2, <1>3, <2>1 DEF Making, BeforeFile, BeforePreview, BeforeSave, bytes
    <3> QED
      BY <3>1, <3>2
  <2> QED
    BY <1>1, <2>2 DEF ArchivesInv, FilesInv, ThumbnailFirst, NothingGoesEarly, Over, fileVars,
       cleanVars, saidVars
<1> QED
  BY <1>1, <1>4, <1>5, <1>6 DEF ArchivesInv, IdsGivenOut, saidVars

\* The thumbnail is read, which the file outlives.
LEMMA ReadPreviewInv ==
    ASSUME ArchivesInv, NEW r \in Asker, ReadPreview(r)
    PROVE  ArchivesInv'
<1> DEFINE next == IF asking[r] = "favorite file" THEN "save favorite" ELSE "save forward"
           bytes == hand[r].bytes \cup IF preview THEN {"thumbnail"} ELSE {}
<1>1. /\ asking[r] \in {"favorite file", "forward file"} /\ asking' = [asking EXCEPT ![r] = next]
      /\ hand' = [hand EXCEPT ![r].bytes = bytes]
      /\ UNCHANGED <<day, fileVars, account, favVars, lastArchive, cleanVars, saidVars>>
  BY DEF ReadPreview, Step
<1>2. /\ asking'[r] = next /\ hand'[r].bytes = bytes
      /\ \A q \in Asker : q # r => asking'[q] = asking[q] /\ hand'[q] = hand[q]
      /\ \A q \in Asker : hand'[q].id = hand[q].id
  BY <1>1 DEF ArchivesInv, HandTypes
<1>3. next \in {"save favorite", "save forward"} /\ bytes \in SUBSET {"file", "thumbnail"}
  BY DEF ArchivesInv, HandTypes
<1> HIDE DEF next, bytes
<1>4. HandTypes' /\ ArchivesTypeOK'
  <2>1. next \in Making /\ asking[r] \in Making
    BY <1>1, <1>3 DEF Making, BeforeFile, BeforePreview, BeforeSave
  <2> QED
    BY <1>1, <1>3, <2>1, ReadKeepsTypes DEF ArchivesInv
<1>5. FavoritesInv'
  <2>1. \A q \in Asker :
           /\ asking'[q] \in Making => asking[q] \in Making /\ (asking[q] # "list" \/ q # r)
           /\ asking'[q] \in Deleting => asking[q] \in Deleting /\ q # r
           /\ asking'[q] = "list" => asking[q] = "list" /\ q # r
           /\ asking'[q] = "remove" => asking[q] = "remove"
    BY <1>1, <1>2, <1>3 DEF Making, Deleting, BeforeFile, BeforePreview, BeforeSave
  <2>2. asking[r] \in Making /\ asking[r] # "list"
    BY <1>1 DEF Making, BeforeFile, BeforePreview
  <2>3. UNCHANGED <<favVars, saidVars>>
    BY <1>1
  <2>4. MadeAlone'
    BY <1>2, <2>1, <2>2, <2>3 DEF ArchivesInv, FavoritesInv, MadeAlone, favVars, saidVars
  <2>5. FileBeforeRow' /\ RowGoesFirst'
    BY <1>2, <2>1, <2>3 DEF ArchivesInv, FavoritesInv, FileBeforeRow, RowGoesFirst, favVars, saidVars
  <2> QED
    BY <1>1, <2>4, <2>5 DEF ArchivesInv, FavoritesInv, FavoritesKept, DeletedFavoriteGone, favVars,
       saidVars
<1>6. FilesInv'
  <2>1. /\ preview => "file" \in hand[r].bytes
        /\ day <= FileExpiryDays => "file" \in hand[r].bytes
        /\ "thumbnail" \notin hand[r].bytes
    BY <1>1 DEF ArchivesInv, FilesInv, HandIsWhole, NothingGoesEarly, Making, BeforeFile,
       BeforePreview
  <2>2. HandIsWhole'
    <3> SUFFICES ASSUME NEW q \in Asker
                 PROVE  /\ asking'[q] \in BeforeFile => hand'[q].bytes = {}
                        /\ asking'[q] \in BeforePreview =>
                              (upload => "file" \in hand'[q].bytes)
                              /\ "thumbnail" \notin hand'[q].bytes
                        /\ asking'[q] \in Making \ BeforeFile /\ day <= FileExpiryDays =>
                              "file" \in hand'[q].bytes
                        /\ asking'[q] \in Making /\ "thumbnail" \in hand'[q].bytes =>
                              "file" \in hand'[q].bytes
      BY <1>1 DEF HandIsWhole, fileVars
    <3>1. CASE q # r
      BY <3>1, <1>2 DEF ArchivesInv, FilesInv, HandIsWhole
    <3>2. CASE q = r
      BY <3>2, <1>2, <1>3, <2>1 DEF Making, BeforeFile, BeforePreview, BeforeSave, bytes
    <3> QED
      BY <3>1, <3>2
  <2> QED
    BY <1>1, <2>2 DEF ArchivesInv, FilesInv, ThumbnailFirst, NothingGoesEarly, Over, fileVars,
       cleanVars, saidVars
<1> QED
  BY <1>1, <1>4, <1>5, <1>6 DEF ArchivesInv, IdsGivenOut, saidVars

\* The archive of a forwarded message is written.
LEMMA SaveForwardInv ==
    ASSUME ArchivesInv, NEW r \in Asker, SaveForward(r)
    PROVE  ArchivesInv'
<1>1. /\ asking[r] = "save forward"
      /\ archiveFiles' = With(archiveFiles, hand[r].id, [bytes |-> hand[r].bytes, day |-> day])
      /\ asking' = [asking EXCEPT ![r] = "idle"] /\ hand' = [hand EXCEPT ![r] = NoHand]
      /\ UNCHANGED <<day, upload, preview, account, favVars, lastArchive, cleanVars, saidVars>>
  BY DEF SaveForward, Done
<1>2. /\ asking'[r] = "idle" /\ hand'[r] = NoHand
      /\ \A q \in Asker : q # r => asking'[q] = asking[q] /\ hand'[q] = hand[q]
  BY <1>1 DEF ArchivesInv, HandTypes
<1>3. HandTypes'
  <2>1. NoHand \in [id : 0 .. lastArchive, bytes : SUBSET {"file", "thumbnail"}]
    BY HandIds DEF ArchivesInv, NoHand
  <2> QED
    BY <1>1, <1>2, <2>1, OneSteps DEF ArchivesInv, HandTypes, cleanVars
<1>4. /\ DOMAIN archiveFiles' = DOMAIN archiveFiles \cup {hand[r].id}
      /\ archiveFiles'[hand[r].id] = [bytes |-> hand[r].bytes, day |-> day]
      /\ \A a \in DOMAIN archiveFiles : a # hand[r].id => archiveFiles'[a] = archiveFiles[a]
  BY <1>1 DEF With
<1>5. ArchivesTypeOK'
  <2>1. hand[r].id \in 1 .. lastArchive /\ day \in Nat
    BY <1>1, HandIds DEF ArchivesInv
  <2>2. (favRows \cup DOMAIN favFiles \cup DOMAIN archiveFiles)' \subseteq 1 .. lastArchive
    BY <1>1, <1>4, <2>1 DEF ArchivesInv, ArchivesTypeOK, favVars
  <2>3. \A a \in DOMAIN archiveFiles' : archiveFiles'[a].day \in 0 .. day
    BY <1>4, <2>1 DEF ArchivesInv, ArchivesTypeOK
  <2> QED
    BY <1>1, <1>2, <2>2, <2>3 DEF ArchivesInv, ArchivesTypeOK, favVars, cleanVars
<1>6. FavoritesInv'
  <2>1. MadeAlone'
    BY <1>1, <1>2, EndKeepsMadeAlone DEF ArchivesInv, FavoritesInv, favVars, saidVars
  <2>2. \A q \in Asker : asking'[q] # "idle" =>
           asking'[q] = asking[q] /\ hand'[q] = hand[q]
    BY <1>2
  <2>3. FileBeforeRow'
    BY <1>1, <2>2 DEF ArchivesInv, FavoritesInv, FileBeforeRow, favVars
  <2>4. RowGoesFirst'
    <3>1. "idle" \notin Deleting /\ "remove" # "idle" /\ UNCHANGED <<favRows, promised>>
      BY <1>1 DEF Deleting, favVars, saidVars
    <3> QED
      BY <3>1, <2>2 DEF ArchivesInv, FavoritesInv, RowGoesFirst
  <2>5. FavoritesKept' /\ DeletedFavoriteGone'
    BY <1>1 DEF ArchivesInv, FavoritesInv, FavoritesKept, DeletedFavoriteGone, favVars, saidVars
  <2> QED
    BY <2>1, <2>3, <2>4, <2>5 DEF FavoritesInv
<1>7. FilesInv'
  <2>1. day <= FileExpiryDays => "file" \in hand[r].bytes
    BY <1>1 DEF ArchivesInv, FilesInv, HandIsWhole, Making, BeforeFile, BeforeSave
  <2>2. NothingGoesEarly'
    <3>1. \A a \in DOMAIN archiveFiles' :
             archiveFiles'[a].day <= FileExpiryDays => "file" \in archiveFiles'[a].bytes
      BY <1>4, <2>1 DEF ArchivesInv, FilesInv, NothingGoesEarly
    <3> QED
      BY <1>1, <3>1 DEF ArchivesInv, FilesInv, NothingGoesEarly, saidVars
  <2>3. HandIsWhole'
    BY <1>1, <1>2 DEF ArchivesInv, FilesInv, HandIsWhole, Making, BeforeFile, BeforePreview,
       BeforeSave
  <2> QED
    BY <1>1, <2>2, <2>3 DEF ArchivesInv, FilesInv, ThumbnailFirst, Over, cleanVars
<1> QED
  BY <1>1, <1>3, <1>5, <1>6, <1>7 DEF ArchivesInv, IdsGivenOut, saidVars

\* The file of a favourite is written, under its own id.
LEMMA SaveFavoriteInv ==
    ASSUME ArchivesInv, NEW r \in Asker, SaveFavorite(r)
    PROVE  ArchivesInv'
<1> DEFINE a == hand[r].id
<1>1. /\ asking[r] = "save favorite" /\ asking' = [asking EXCEPT ![r] = "list"]
      /\ favFiles' = With(favFiles, a, hand[r].bytes)
      /\ UNCHANGED <<day, fileVars, account, favRows, lastArchive, hand, cleanVars, saidVars>>
  BY DEF SaveFavorite, Step
<1>2. asking'[r] = "list" /\ \A q \in Asker : q # r => asking'[q] = asking[q]
  BY <1>1 DEF ArchivesInv, HandTypes
<1>3. /\ DOMAIN favFiles' = DOMAIN favFiles \cup {a} /\ favFiles'[a] = hand[r].bytes
      /\ \A b \in DOMAIN favFiles : b # a => favFiles'[b] = favFiles[b]
  BY <1>1 DEF With
<1>4. HandTypes'
  BY <1>1, <1>2, OneSteps DEF ArchivesInv, HandTypes, Making, cleanVars
<1>5. ArchivesTypeOK'
  <2>1. a \in 1 .. lastArchive
    BY <1>1, HandIds DEF ArchivesInv
  <2>2. (favRows \cup DOMAIN favFiles \cup DOMAIN archiveFiles)' \subseteq 1 .. lastArchive
    BY <1>1, <1>3, <2>1 DEF ArchivesInv, ArchivesTypeOK, fileVars
  <2> QED
    BY <1>1, <1>2, <2>2 DEF ArchivesInv, ArchivesTypeOK, fileVars, cleanVars
<1>6. FavoritesInv'
  <2>1. /\ a \notin favRows \cup deleted \cup DOMAIN promised \cup DOMAIN favFiles
        /\ \A q \in Asker : hand[q].id = a => q = r
    BY <1>1 DEF ArchivesInv, FavoritesInv, MadeAlone, Making, BeforeSave
  <2>2. MadeAlone'
    <3>1. r \in Asker /\ asking'[r] = "list" /\ hand'[r].id = a
      BY <1>1, <1>2
    <3>2. \A q \in Asker : q # r => hand[q].id # a
      BY <2>1
    <3> HIDE DEF a
    <3>3. ASSUME NEW q \in Asker, q # r, asking'[q] \in Making
          PROVE  /\ \A p \in Asker : hand[p].id = hand[q].id => p = q
                 /\ hand[q].id \notin favRows \cup deleted \cup DOMAIN promised
                 /\ asking'[q] # "list" => hand[q].id \notin DOMAIN favFiles'
      BY <1>2, <1>3, <3>2, <3>3 DEF ArchivesInv, FavoritesInv, MadeAlone
    <3> QED
      BY <1>1, <2>1, <3>1, <3>3 DEF MadeAlone, saidVars
  <2>3. FileBeforeRow'
    BY <1>1, <1>2, <1>3, <2>1 DEF ArchivesInv, FavoritesInv, FileBeforeRow
  <2>4. RowGoesFirst'
    BY <1>1, <1>2 DEF ArchivesInv, FavoritesInv, RowGoesFirst, saidVars, Deleting
  <2>5. FavoritesKept'
    BY <1>1, <1>3, <2>1 DEF ArchivesInv, FavoritesInv, FavoritesKept, saidVars
  <2>6. DeletedFavoriteGone'
    BY <1>1, <1>3, <2>1 DEF ArchivesInv, FavoritesInv, DeletedFavoriteGone, saidVars
  <2> QED
    BY <2>2, <2>3, <2>4, <2>5, <2>6 DEF FavoritesInv
<1>7. FilesInv'
  BY <1>1, <1>2 DEF ArchivesInv, FilesInv, HandIsWhole, ThumbnailFirst, NothingGoesEarly, Over,
     fileVars, cleanVars, saidVars, Making, BeforeFile, BeforePreview, BeforeSave
<1> QED
  BY <1>1, <1>4, <1>5, <1>6, <1>7 DEF ArchivesInv, IdsGivenOut, saidVars

\* The row of a favourite is written if the user is there, and promised then.
LEMMA ListFavoriteInv ==
    ASSUME ArchivesInv, NEW r \in Asker, ListFavorite(r)
    PROVE  ArchivesInv'
<1> DEFINE a == hand[r].id
<1>1. /\ asking[r] = "list"
      /\ asking' = [asking EXCEPT ![r] = "idle"] /\ hand' = [hand EXCEPT ![r] = NoHand]
      /\ UNCHANGED <<day, fileVars, account, favFiles, lastArchive, cleanVars, deleted>>
      /\ account => favRows' = favRows \cup {a} /\ promised' = With(promised, a, hand[r].bytes)
      /\ ~account => favRows' = favRows /\ promised' = promised
  BY DEF ListFavorite, Done
<1>2. /\ asking'[r] = "idle" /\ hand'[r] = NoHand
      /\ \A q \in Asker : q # r => asking'[q] = asking[q] /\ hand'[q] = hand[q]
  BY <1>1 DEF ArchivesInv, HandTypes
<1>3. HandTypes'
  <2>1. NoHand \in [id : 0 .. lastArchive, bytes : SUBSET {"file", "thumbnail"}]
    BY HandIds DEF ArchivesInv, NoHand
  <2> QED
    BY <1>1, <1>2, <2>1, OneSteps DEF ArchivesInv, HandTypes, cleanVars
<1>4. /\ a \in 1 .. lastArchive /\ a \notin deleted /\ a \in DOMAIN favFiles
      /\ favFiles[a] = hand[r].bytes /\ \A q \in Asker : hand[q].id = a => q = r
      /\ "thumbnail" \in hand[r].bytes => "file" \in hand[r].bytes
  BY <1>1, HandIds
  DEF ArchivesInv, FavoritesInv, FilesInv, MadeAlone, FileBeforeRow, HandIsWhole, Making
<1>5. /\ favRows' \subseteq favRows \cup {a} /\ favRows \subseteq favRows'
      /\ DOMAIN promised' \subseteq DOMAIN promised \cup {a}
      /\ \A b \in DOMAIN promised' :
            /\ b # a => promised'[b] = promised[b]
            /\ b = a => (a \in favRows' /\ promised'[a] = hand[r].bytes) \/ a \in DOMAIN promised
  BY <1>1 DEF With
<1>6. a \notin DOMAIN promised
  BY <1>1 DEF ArchivesInv, FavoritesInv, MadeAlone, Making
<1>7. ArchivesTypeOK'
  <2>1. (favRows \cup DOMAIN favFiles \cup DOMAIN archiveFiles)' \subseteq 1 .. lastArchive
    BY <1>1, <1>4, <1>5 DEF ArchivesInv, ArchivesTypeOK, fileVars
  <2> QED
    BY <1>1, <1>2, <2>1 DEF ArchivesInv, ArchivesTypeOK, fileVars, cleanVars
<1>8. IdsGivenOut'
  BY <1>1, <1>4, <1>5 DEF ArchivesInv, IdsGivenOut
<1>9. FavoritesInv'
  <2>1. MadeAlone'
    <3>1. /\ DOMAIN favFiles' \subseteq DOMAIN favFiles
          /\ (favRows \cup deleted \cup DOMAIN promised)' \subseteq
                favRows \cup deleted \cup DOMAIN promised \cup {a}
      BY <1>1, <1>5
    <3> QED
      BY <1>1, <1>2, <3>1, EndKeepsMadeAlone DEF ArchivesInv, FavoritesInv
  <2>2. FileBeforeRow'
    BY <1>1, <1>2 DEF ArchivesInv, FavoritesInv, FileBeforeRow
  <2>3. RowGoesFirst'
    BY <1>2, <1>4, <1>5 DEF ArchivesInv, FavoritesInv, RowGoesFirst, Deleting
  <2>4. FavoritesKept'
    BY <1>1, <1>4, <1>5, <1>6 DEF ArchivesInv, FavoritesInv, FavoritesKept
  <2>5. DeletedFavoriteGone'
    BY <1>1, <1>4, <1>5 DEF ArchivesInv, FavoritesInv, DeletedFavoriteGone
  <2> QED
    BY <2>1, <2>2, <2>3, <2>4, <2>5 DEF FavoritesInv
<1>10. FilesInv'
  <2>1. NothingGoesEarly'
    BY <1>1, <1>4, <1>5, <1>6 DEF ArchivesInv, FilesInv, NothingGoesEarly, fileVars
  <2> QED
    BY <1>1, <1>2, <2>1 DEF ArchivesInv, FilesInv, HandIsWhole, ThumbnailFirst, Over, fileVars,
       cleanVars, Making, BeforeFile, BeforePreview, BeforeSave
<1> QED
  BY <1>3, <1>7, <1>8, <1>9, <1>10 DEF ArchivesInv

\* A deletion begins: of an archive that nobody is making.
LEMMA AskDeleteInv ==
    ASSUME ArchivesInv, NEW r \in Asker, NEW a \in Archive, AskDelete(r, a)
    PROVE  ArchivesInv'
<1>1. /\ asking[r] = "idle" /\ a \in DOMAIN favFiles /\ a # 0
      /\ \A q \in Asker : hand[q].id = a => asking[q] \in {"unlist", "remove"}
      /\ asking' = [asking EXCEPT ![r] = "unlist"] /\ hand' = [hand EXCEPT ![r].id = a]
      /\ DOMAIN promised' = DOMAIN promised \ {a}
      /\ \A b \in DOMAIN promised' : promised'[b] = promised[b]
      /\ UNCHANGED <<day, fileVars, account, favVars, lastArchive, cleanVars, deleted>>
  BY DEF AskDelete, Step, Without, Archive
<1>2. /\ asking'[r] = "unlist" /\ hand'[r].id = a
      /\ \A q \in Asker : q # r => asking'[q] = asking[q] /\ hand'[q] = hand[q]
  BY <1>1 DEF ArchivesInv, HandTypes
<1>3. a \in 1 .. lastArchive /\ a \in 0 .. lastArchive
  BY <1>1, HandIds DEF ArchivesInv, ArchivesTypeOK
<1>4. HandTypes'
  <2>1. hand' \in [Asker -> [id : 0 .. lastArchive, bytes : SUBSET {"file", "thumbnail"}]]
    BY <1>1, <1>3 DEF ArchivesInv, HandTypes
  <2> QED
    BY <1>1, <1>2, <2>1, OneSteps DEF ArchivesInv, HandTypes, Deleting, cleanVars
<1>5. ArchivesTypeOK'
  BY <1>1, <1>2 DEF ArchivesInv, ArchivesTypeOK, NoHand, fileVars, favVars, cleanVars
<1>6. FavoritesInv'
  <2>1. MadeAlone'
    <3>1. \A q \in Asker : asking'[q] \in Making =>
             q # r /\ asking[q] \in Making /\ hand[q].id # a
      BY <1>1, <1>2 DEF Making, BeforeFile, BeforePreview, BeforeSave
    <3>2. ASSUME NEW q \in Asker, asking'[q] \in Making, NEW p \in Asker, hand'[p].id = hand'[q].id
          PROVE  p = q
      BY <1>2, <3>1, <3>2 DEF ArchivesInv, FavoritesInv, MadeAlone
    <3> QED
      BY <1>1, <1>2, <3>1, <3>2 DEF ArchivesInv, FavoritesInv, MadeAlone, favVars
  <2>2. RowGoesFirst'
    BY <1>1, <1>2 DEF ArchivesInv, FavoritesInv, RowGoesFirst, favVars, Deleting
  <2> QED
    BY <1>1, <1>2, <2>1, <2>2 DEF ArchivesInv, FavoritesInv, FileBeforeRow, FavoritesKept,
       DeletedFavoriteGone, favVars
<1>7. FilesInv'
  BY <1>1, <1>2, FilesStay DEF ArchivesInv, Making, BeforeFile, BeforePreview, BeforeSave
<1> QED
  BY <1>1, <1>4, <1>5, <1>6, <1>7 DEF ArchivesInv, IdsGivenOut

\* The row goes, of an archive that is promised no more.
LEMMA UnlistInv == ASSUME ArchivesInv, NEW r \in Asker, Unlist(r) PROVE ArchivesInv'
<1>1. /\ asking[r] = "unlist" /\ asking' = [asking EXCEPT ![r] = "remove"]
      /\ favRows' = favRows \ {hand[r].id}
      /\ UNCHANGED <<day, fileVars, account, favFiles, lastArchive, hand, cleanVars, saidVars>>
  BY DEF Unlist, Step
<1>2. asking'[r] = "remove" /\ \A q \in Asker : q # r => asking'[q] = asking[q]
  BY <1>1 DEF ArchivesInv, HandTypes
<1>3. HandTypes'
  BY <1>1, <1>2, OneSteps DEF ArchivesInv, HandTypes, Deleting, cleanVars
<1>4. ArchivesTypeOK'
  BY <1>1, <1>2 DEF ArchivesInv, ArchivesTypeOK, fileVars, cleanVars
<1>5. FavoritesInv'
  <2>1. hand[r].id \notin DOMAIN promised
    BY <1>1 DEF ArchivesInv, FavoritesInv, RowGoesFirst, Deleting
  <2>2. FavoritesKept'
    BY <1>1, <2>1 DEF ArchivesInv, FavoritesInv, FavoritesKept, saidVars
  <2>3. MadeAlone' /\ FileBeforeRow'
    BY <1>1, <1>2 DEF ArchivesInv, FavoritesInv, MadeAlone, FileBeforeRow, saidVars, Making,
       BeforeFile, BeforePreview, BeforeSave
  <2>4. RowGoesFirst' /\ DeletedFavoriteGone'
    BY <1>1, <1>2, <2>1 DEF ArchivesInv, FavoritesInv, RowGoesFirst, DeletedFavoriteGone, saidVars,
       Deleting
  <2> QED
    BY <2>2, <2>3, <2>4 DEF FavoritesInv
<1>6. FilesInv'
  BY <1>1, <1>2, FilesStay DEF ArchivesInv, saidVars, Making, BeforeFile, BeforePreview, BeforeSave
<1> QED
  BY <1>1, <1>3, <1>4, <1>5, <1>6 DEF ArchivesInv, IdsGivenOut, saidVars

\* Its file goes, whose row is gone.
LEMMA RemoveFavoriteInv ==
    ASSUME ArchivesInv, NEW r \in Asker, RemoveFavorite(r)
    PROVE  ArchivesInv'
<1> DEFINE a == hand[r].id
<1>1. /\ asking[r] = "remove"
      /\ asking' = [asking EXCEPT ![r] = "idle"] /\ hand' = [hand EXCEPT ![r] = NoHand]
      /\ DOMAIN favFiles' = DOMAIN favFiles \ {a}
      /\ \A b \in DOMAIN favFiles' : favFiles'[b] = favFiles[b]
      /\ deleted \subseteq deleted' /\ deleted' \subseteq deleted \cup {a}
      /\ UNCHANGED <<day, fileVars, account, favRows, lastArchive, cleanVars, promised>>
  BY DEF RemoveFavorite, Done, Without
<1>2. /\ asking'[r] = "idle" /\ hand'[r] = NoHand
      /\ \A q \in Asker : q # r => asking'[q] = asking[q] /\ hand'[q] = hand[q]
  BY <1>1 DEF ArchivesInv, HandTypes
<1>3. HandTypes'
  <2>1. NoHand \in [id : 0 .. lastArchive, bytes : SUBSET {"file", "thumbnail"}]
    BY HandIds DEF ArchivesInv, NoHand
  <2> QED
    BY <1>1, <1>2, <2>1, OneSteps DEF ArchivesInv, HandTypes, cleanVars
<1>4. a \in 1 .. lastArchive /\ a \notin favRows /\ a \notin DOMAIN promised
  BY <1>1, HandIds DEF ArchivesInv, FavoritesInv, RowGoesFirst, Deleting
<1>5. ArchivesTypeOK'
  BY <1>1, <1>2 DEF ArchivesInv, ArchivesTypeOK, fileVars, cleanVars
<1>6. IdsGivenOut'
  BY <1>1, <1>4 DEF ArchivesInv, IdsGivenOut
<1>7. FavoritesInv'
  <2>1. /\ DOMAIN favFiles' \subseteq DOMAIN favFiles
        /\ (favRows \cup deleted \cup DOMAIN promised)' \subseteq
              favRows \cup deleted \cup DOMAIN promised \cup {a}
    BY <1>1
  <2>2. MadeAlone' /\ \A q \in Asker : asking'[q] \in Making => hand'[q].id # a
    BY <1>1, <1>2, <2>1, EndKeepsMadeAlone DEF ArchivesInv, FavoritesInv
  <2>3. FileBeforeRow'
    BY <1>1, <1>2, <2>2 DEF ArchivesInv, FavoritesInv, FileBeforeRow, Making
  <2>4. RowGoesFirst'
    BY <1>1, <1>2 DEF ArchivesInv, FavoritesInv, RowGoesFirst, Deleting
  <2>5. FavoritesKept'
    BY <1>1, <1>4 DEF ArchivesInv, FavoritesInv, FavoritesKept
  <2>6. DeletedFavoriteGone'
    BY <1>1, <1>4 DEF ArchivesInv, FavoritesInv, DeletedFavoriteGone
  <2> QED
    BY <2>2, <2>3, <2>4, <2>5, <2>6 DEF FavoritesInv
<1>8. FilesInv'
  BY <1>1, <1>2, FilesStay DEF ArchivesInv, Making, BeforeFile, BeforePreview, BeforeSave
<1> QED
  BY <1>3, <1>5, <1>6, <1>7, <1>8 DEF ArchivesInv

\* A request ends anywhere.
LEMMA HangUpArchiveInv == ASSUME ArchivesInv, NEW r \in Asker, HangUp(r) PROVE ArchivesInv'
<1>1. /\ asking[r] # "idle"
      /\ asking' = [asking EXCEPT ![r] = "idle"] /\ hand' = [hand EXCEPT ![r] = NoHand]
      /\ UNCHANGED <<day, fileVars, account, favVars, lastArchive, cleanVars, saidVars>>
  BY DEF HangUp, Done
<1>2. /\ asking'[r] = "idle" /\ hand'[r] = NoHand
      /\ \A q \in Asker : q # r => asking'[q] = asking[q] /\ hand'[q] = hand[q]
  BY <1>1 DEF ArchivesInv, HandTypes
<1>3. HandTypes'
  <2>1. NoHand \in [id : 0 .. lastArchive, bytes : SUBSET {"file", "thumbnail"}]
    BY HandIds DEF ArchivesInv, NoHand
  <2> QED
    BY <1>1, <1>2, <2>1, OneSteps DEF ArchivesInv, HandTypes, cleanVars
<1>4. ArchivesTypeOK'
  BY <1>1, <1>2 DEF ArchivesInv, ArchivesTypeOK, fileVars, favVars, cleanVars
<1>5. FavoritesInv'
  <2>1. MadeAlone'
    BY <1>1, <1>2, EndKeepsMadeAlone DEF ArchivesInv, FavoritesInv, favVars, saidVars
  <2> QED
    BY <1>1, <1>2, <2>1 DEF ArchivesInv, FavoritesInv, FileBeforeRow, RowGoesFirst, FavoritesKept,
       DeletedFavoriteGone, favVars, saidVars, Deleting
<1>6. FilesInv'
  BY <1>1, <1>2, FilesStay DEF ArchivesInv, saidVars, Making, BeforeFile, BeforePreview, BeforeSave
<1> QED
  BY <1>1, <1>3, <1>4, <1>5, <1>6 DEF ArchivesInv, IdsGivenOut, saidVars

\* The rows go with the account, and so do the promises.
LEMMA CloseAccountInv == ASSUME ArchivesInv, CloseAccount PROVE ArchivesInv'
<1>1. /\ account' = FALSE /\ favRows' = {} /\ DOMAIN promised' = {}
      /\ UNCHANGED <<day, fileVars, favFiles, lastArchive, asking, hand, cleanVars, deleted>>
  BY DEF CloseAccount, Empty
<1>2. ArchivesTypeOK' /\ HandTypes' /\ IdsGivenOut'
  BY <1>1 DEF ArchivesInv, ArchivesTypeOK, HandTypes, IdsGivenOut, fileVars, cleanVars
<1>3. FavoritesInv'
  BY <1>1 DEF ArchivesInv, FavoritesInv, MadeAlone, FileBeforeRow, RowGoesFirst, FavoritesKept, DeletedFavoriteGone
<1>4. FilesInv'
  BY <1>1, FilesStay DEF ArchivesInv
<1> QED
  BY <1>2, <1>3, <1>4 DEF ArchivesInv

\* A request that has begun goes on when the user leaves the group.
LEMMA ForbidInv == ASSUME ArchivesInv, Forbid PROVE ArchivesInv'
<1>1. UNCHANGED <<day, fileVars, account, favVars, lastArchive, asking, hand, cleanVars, saidVars>>
  BY DEF Forbid
<1>2. ArchivesTypeOK' /\ HandTypes' /\ IdsGivenOut'
  BY <1>1 DEF ArchivesInv, ArchivesTypeOK, HandTypes, IdsGivenOut, fileVars, favVars, saidVars,
     cleanVars
<1> QED
  BY <1>1, <1>2, FavoritesStay, FilesStay DEF ArchivesInv, saidVars

\* A day passes.
LEMMA NextDayInv == ASSUME ArchivesInv, NextDay PROVE ArchivesInv'
<1>1. /\ day' = day + 1 /\ day \in Nat /\ day < MaxDay
      /\ UNCHANGED <<fileVars, account, favVars, lastArchive, asking, hand, cleanVars, saidVars>>
  BY DEF NextDay, ArchivesInv, HandTypes
<1>2. 0 .. day \subseteq 0 .. day' /\ day' \in 0 .. MaxDay /\ day' \in Nat
      /\ (day' <= FileExpiryDays => day <= FileExpiryDays)
  BY <1>1, ArchiveBounds
<1>3. ArchivesTypeOK' /\ HandTypes' /\ IdsGivenOut'
  BY <1>1, <1>2 DEF ArchivesInv, ArchivesTypeOK, HandTypes, IdsGivenOut, fileVars, favVars, saidVars,
     cleanVars
<1>4. HandIsWhole'
  BY <1>1, <1>2 DEF ArchivesInv, FilesInv, HandIsWhole, fileVars
<1>5. NothingGoesEarly'
  BY <1>1, <1>2 DEF ArchivesInv, FilesInv, NothingGoesEarly, fileVars, saidVars
<1>6. ThumbnailFirst'
  BY <1>1 DEF ArchivesInv, FilesInv, ThumbnailFirst, Over, fileVars, cleanVars
<1> QED
  BY <1>1, <1>3, <1>4, <1>5, <1>6, FavoritesStay DEF ArchivesInv, FilesInv

\* The task that cleans up: files go after their days, thumbnails first.
LEMMA CleanInv ==
    ASSUME ArchivesInv, CleanStart \/ CleanThumbnails \/ CleanUploads \/ CleanArchives
    PROVE  ArchivesInv'
<1>1. /\ day \in Nat /\ today \in 0 .. day /\ today' \in 0 .. day
      /\ UNCHANGED <<day, account, favVars, lastArchive, asking, hand, saidVars>>
      /\ DOMAIN archiveFiles' \subseteq DOMAIN archiveFiles
      /\ \A a \in DOMAIN archiveFiles' : archiveFiles'[a] = archiveFiles[a]
  BY ArchiveBounds DEF CleanStart, CleanThumbnails, CleanUploads, CleanArchives, Without, fileVars,
     ArchivesInv, HandTypes
<1>2. ArchivesTypeOK' /\ HandTypes' /\ IdsGivenOut'
  BY <1>1 DEF ArchivesInv, ArchivesTypeOK, HandTypes, IdsGivenOut, favVars, saidVars
<1>3. day <= FileExpiryDays => ~Over(0)
  BY <1>1, ArchiveBounds DEF Over
<1>4. (upload' => upload) /\ (day <= FileExpiryDays => upload') /\ (preview' => upload')
  <2>1. (day <= FileExpiryDays => upload) /\ (preview => upload)
        /\ (cleaning = "files" /\ preview => ~Over(0))
    BY DEF ArchivesInv, FilesInv, NothingGoesEarly, ThumbnailFirst
  <2>2. CASE CleanUploads
    <3>1. /\ cleaning = "files" /\ upload' = (upload /\ ~Over(0)) /\ preview' = preview
      BY <2>2 DEF CleanUploads
    <3> QED
      BY <1>3, <2>1, <3>1, Zenon
  <2>3. CASE CleanThumbnails
    <3>1. preview' = (preview /\ ~Over(0)) /\ upload' = upload
      BY <2>3 DEF CleanThumbnails
    <3> QED
      BY <2>1, <3>1, Zenon
  <2>4. CASE CleanStart \/ CleanArchives
    BY <2>1, <2>4 DEF CleanStart, CleanArchives, fileVars
  <2> QED
    BY <2>2, <2>3, <2>4
<1>7. ThumbnailFirst'
  <2>1. CASE CleanThumbnails
    BY <2>1 DEF CleanThumbnails, ThumbnailFirst, Over
  <2>2. CASE CleanStart \/ CleanUploads \/ CleanArchives
    BY <2>2 DEF CleanStart, CleanUploads, CleanArchives, ThumbnailFirst
  <2> QED
    BY <2>1, <2>2
<1>5. HandIsWhole'
  BY <1>1, <1>4 DEF ArchivesInv, FilesInv, HandIsWhole
<1>6. NothingGoesEarly'
  BY <1>1, <1>4 DEF ArchivesInv, FilesInv, NothingGoesEarly, saidVars
<1> QED
  BY <1>1, <1>2, <1>5, <1>6, <1>7, FavoritesStay DEF ArchivesInv, FilesInv

\* Every step keeps the invariant.
LEMMA ArchivesNextInv == ASSUME ArchivesInv, [ArchivesNext]_archiveVars PROVE ArchivesInv'
<1>1. CASE UNCHANGED archiveVars
  <2>1. ArchivesTypeOK' /\ HandTypes' /\ IdsGivenOut'
    BY <1>1 DEF archiveVars, ArchivesInv, ArchivesTypeOK, HandTypes, IdsGivenOut, fileVars, favVars,
       saidVars, cleanVars
  <2> QED
    BY <1>1, <2>1, FavoritesStay, FilesStay DEF archiveVars, ArchivesInv, saidVars
<1>2. CASE ArchivesNext
  BY <1>2, AskForInv, ReadFileInv, ReadPreviewInv, SaveForwardInv, SaveFavoriteInv,
     ListFavoriteInv, AskDeleteInv, UnlistInv, RemoveFavoriteInv, HangUpArchiveInv, ForbidInv,
     CloseAccountInv, NextDayInv, CleanInv
  DEF ArchivesNext
<1> QED
  BY <1>1, <1>2

\* A favourite that was answered stays as it was made until the user deletes it,
\* one whose deletion was answered is gone, and files and archives are there for
\* their days: with requests that make and delete archives side by side and end
\* anywhere, and the task that cleans up between any two of their steps
\* (create_favorite_archive, delete_favorite_archive, clean_files).
THEOREM FavoritesAreKept == ArchivesSpec => []ArchivesKept
BY ArchivesInitInv, ArchivesNextInv, ArchivesInvKept, PTL DEF ArchivesSpec

(***************************************************************************)
(* A user's settings agree in the rows, in the cache and on its devices.   *)
(***************************************************************************)
Moment == 0 .. Max({Forever, MaxMid})

\* A request, and the event about it.
PartTable == UNION {[ts -> Moment] : ts \in SUBSET Target}
SettingEvent == [from : Device, req : PartTable]

\* Two entries say the same at a time: a mute that is over is none.
Same(k, x, y, when) == x = y \/ (k = "mute" /\ x < when /\ y < when)

\* An event changes what a device shows of a target.
Touches(e, d, t) == e.from # d /\ t \in DOMAIN e.req

\* What a device will show of a target when it was sent its events is what the
\* cache says: the last event about the target does, or else what it shows now.
WillShow(d, t, events, seen, cached, k, when) ==
    /\ (\A i \in DOMAIN events : ~Touches(events[i], d, t)) => Same(k, seen, cached, when)
    /\ \A i \in DOMAIN events :
        /\ Touches(events[i], d, t)
        /\ \A j \in DOMAIN events : j > i => ~Touches(events[j], d, t)
        => Same(k, events[i].req[t], cached, when)

SettingsTypes ==
    /\ time \in 1 .. MaxTime /\ kind \in Kind
    /\ settings \in [Target -> Moment] /\ listed \in [Target -> Moment]
    /\ kept \subseteq Target /\ live \subseteq Target /\ tornAt \subseteq Target
    /\ sweep = NotSweeping \/ sweep \in 1 .. time
    /\ changes \in 0 .. MaxChanges

DeviceTypes ==
    /\ stream \in [Device -> BOOLEAN]
    /\ shown \in [Device -> [Target -> Moment]]
    /\ pending \in [Device -> Seq(SettingEvent)]
    /\ own \in [Device -> SUBSET Target]
    /\ \A d \in Device : Len(pending[d]) <= changes
    /\ \A d \in Device : ~stream[d] => shown[d] = Unset /\ pending[d] = <<>> /\ own[d] = {}

\* A target without a row has no settings (foreign keys).
RowsAreKept == \A t \in Target : settings[t] # 0 => t \in kept

RowsAndCache == \A t \in (live \cap kept) \ tornAt : Same(kind, settings[t], listed[t], time)

\* The cache is never ahead of the rows.
ReadKept ==
    /\ readSaid \in [Target -> Nat]
    /\ AnsweredReadKept /\ ReadIndexNamesLive
    /\ kind = "read" => \A t \in live \cap kept : listed[t] <= settings[t]

DevicesWillShow ==
    \A d \in Device : stream[d] => \A t \in live \ own[d] :
        WillShow(d, t, pending[d], shown[d][t], listed[t], kind, time)

\* The inductive invariant.
TablesInv == SettingsTypes /\ RowsAreKept /\ RowsAndCache
SettingsInv == TablesInv /\ ReadKept /\ DeviceTypes /\ DevicesWillShow

-----------------------------------------------------------------------------
\* The greater of two numbers.
LEMMA GreaterOfTwo ==
    ASSUME NEW a \in Nat, NEW b \in Nat
    PROVE  Max({a, b}) \in {a, b} /\ Max({a, b}) >= a /\ Max({a, b}) >= b
<1>1. \E x \in {a, b} : \A y \in {a, b} : x >= y
  <2>1. CASE a >= b
    BY <2>1
  <2>2. CASE b >= a
    BY <2>2
  <2> QED
    BY <2>1, <2>2
<1> QED
  BY <1>1 DEF Max

\* Everything a request may say is an entry.
LEMMA EntryFacts ==
    /\ MaxTime \in Nat /\ MaxTime >= 1 /\ MaxMid \in Nat /\ MaxChanges \in Nat
    /\ Moment \subseteq Nat /\ 0 \in Moment /\ 1 \in Moment /\ Forever \in Moment
    /\ 1 .. MaxMid \subseteq Moment /\ 1 .. (MaxTime + 1) \subseteq Moment
    /\ Tables = [Target -> Moment]
<1>1. MaxTime \in Nat /\ MaxTime >= 1 /\ MaxMid \in Nat /\ MaxChanges \in Nat
  BY SettingsAssumption
<1>2. Max({Forever, MaxMid}) \in Nat /\ Max({Forever, MaxMid}) >= MaxTime + 2
      /\ Max({Forever, MaxMid}) >= MaxMid
  BY <1>1, GreaterOfTwo DEF Forever
<1> QED
  BY <1>1, <1>2 DEF Moment, Forever, Tables

\* What a change is.
LEMMA RequestFacts ==
    ASSUME NEW size, NEW values \in SUBSET Moment, NEW req \in Changes(size, values)
    PROVE  /\ req \in PartTable /\ DOMAIN req \subseteq Target
           /\ \A t \in DOMAIN req : req[t] \in values
BY DEF Changes, PartTable

\* What a table of some targets is.
LEMMA PartTableFacts ==
    ASSUME NEW req \in PartTable
    PROVE  DOMAIN req \subseteq Target /\ \A t \in DOMAIN req : req[t] \in Moment
BY DEF PartTable

\* The table after a request.
LEMMA PutFacts ==
    ASSUME NEW table \in [Target -> Moment], NEW req \in PartTable
    PROVE  /\ Put(table, req) \in [Target -> Moment]
           /\ \A t \in Target : Put(table, req)[t] = IF t \in DOMAIN req THEN req[t] ELSE table[t]
BY PartTableFacts DEF Put

\* What is over at a time.
LEMMA WithoutOverFacts ==
    ASSUME NEW table \in [Target -> Moment], NEW when \in Nat, when >= 1
    PROVE  /\ WithoutOver(table, when) \in [Target -> Moment]
           /\ \A t \in Target : Same(kind, WithoutOver(table, when)[t], table[t], when)
           /\ \A t \in Target : WithoutOver(table, when)[t] \in {0, table[t]}
           /\ kind # "mute" => WithoutOver(table, when) = table
BY EntryFacts DEF WithoutOver, Same

\* What says the same at a time is shown in the same way.
LEMMA SameIsShown ==
    ASSUME NEW f \in [Target -> Moment], NEW g \in [Target -> Moment], NEW when \in Nat, when >= 1,
           NEW t \in Target, Same(kind, f[t], g[t], when)
    PROVE  WithoutOver(f, when)[t] = WithoutOver(g, when)[t]
BY EntryFacts DEF WithoutOver, Same

\* What says the same at a time does so later, and is passed on.
LEMMA SameLater ==
    ASSUME NEW k, NEW x \in Nat, NEW y \in Nat, NEW z \in Nat, NEW when \in Nat, NEW later \in Nat,
           when <= later, Same(k, x, y, when), Same(k, y, z, later)
    PROVE  Same(k, x, z, later) /\ Same(k, y, x, when)
BY DEF Same

\* The time goes on, and the cache says the same.
LEMMA WillShowLater ==
    ASSUME NEW d \in Device, NEW t \in Target, NEW events \in Seq(SettingEvent),
           NEW seen \in Moment,
           NEW cached \in Moment, NEW becomes \in Moment, NEW k,
           NEW when \in Nat, NEW later \in Nat,
           when <= later, Same(k, cached, becomes, later),
           WillShow(d, t, events, seen, cached, k, when)
    PROVE  WillShow(d, t, events, seen, becomes, k, later)
<1>1. (\A i \in DOMAIN events : ~Touches(events[i], d, t)) => Same(k, seen, becomes, later)
  BY EntryFacts, SameLater DEF WillShow
<1>2. ASSUME NEW i \in DOMAIN events, Touches(events[i], d, t),
             \A j \in DOMAIN events : j > i => ~Touches(events[j], d, t)
      PROVE  Same(k, events[i].req[t], becomes, later)
  <2>1. events[i] \in SettingEvent
    BY <1>2
  <2>2. events[i].req \in PartTable /\ t \in DOMAIN events[i].req
    BY <1>2, <2>1 DEF SettingEvent, Touches
  <2>3. events[i].req[t] \in Nat
    BY <2>2, PartTableFacts, EntryFacts
  <2>4. Same(k, events[i].req[t], cached, when)
    BY <1>2 DEF WillShow
  <2> QED
    BY <2>3, <2>4, EntryFacts, SameLater
<1> QED
  BY <1>1, <1>2 DEF WillShow

\* An event is added, and the cache changes with it.
LEMMA WillShowAppend ==
    ASSUME NEW d \in Device, NEW t \in Target, NEW events \in Seq(SettingEvent), NEW seen,
           NEW cached, NEW becomes, NEW k, NEW when, NEW e \in SettingEvent,
           becomes = IF Touches(e, d, t) THEN e.req[t] ELSE cached,
           WillShow(d, t, events, seen, cached, k, when)
    PROVE  WillShow(d, t, Append(events, e), seen, becomes, k, when)
<1> DEFINE n == Len(events)
           longer == Append(events, e)
<1>1. /\ n \in Nat /\ DOMAIN events = 1 .. n /\ DOMAIN longer = 1 .. n + 1
      /\ longer[n + 1] = e /\ \A i \in 1 .. n : longer[i] = events[i]
  OBVIOUS
<1> HIDE DEF n, longer
<1>2. CASE Touches(e, d, t)
  <2>1. \A i \in 1 .. n + 1 :
           (\A j \in 1 .. n + 1 : j > i => ~Touches(longer[j], d, t)) => i = n + 1
    BY <1>1, <1>2
  <2>2. Same(k, e.req[t], becomes, when)
    BY <1>2 DEF Same
  <2> QED
    BY <1>1, <1>2, <2>1, <2>2 DEF WillShow, longer
<1>3. CASE ~Touches(e, d, t)
  <2>1. \A i \in 1 .. n + 1 : Touches(longer[i], d, t) =>
           i \in 1 .. n /\ Touches(events[i], d, t) /\ longer[i] = events[i]
    BY <1>1, <1>3
  <2>2. \A j \in 1 .. n : longer[j] = events[j] /\ j \in 1 .. n + 1
    BY <1>1
  <2> QED
    BY <1>1, <1>3, <2>1, <2>2 DEF WillShow, longer
<1> QED
  BY <1>2, <1>3

\* An event is taken, and what is shown changes with it.
LEMMA WillShowTail ==
    ASSUME NEW d \in Device, NEW t \in Target, NEW events \in Seq(SettingEvent), events # <<>>,
           NEW seen, NEW next, NEW cached, NEW k, NEW when,
           next = IF Touches(Head(events), d, t) THEN Head(events).req[t] ELSE seen,
           WillShow(d, t, events, seen, cached, k, when)
    PROVE  WillShow(d, t, Tail(events), next, cached, k, when)
<1> DEFINE n == Len(events)
           rest == Tail(events)
           first == Head(events)
<1>1. /\ n \in Nat /\ n >= 1 /\ DOMAIN events = 1 .. n /\ DOMAIN rest = 1 .. n - 1
      /\ events[1] = first /\ \A i \in 1 .. n - 1 : rest[i] = events[i + 1]
  OBVIOUS
<1> HIDE DEF n, rest, first
<1>2. \A i \in 1 .. n : i = 1 \/ (i - 1 \in 1 .. n - 1 /\ events[i] = rest[i - 1])
  BY <1>1
<1>3. ASSUME \A i \in DOMAIN rest : ~Touches(rest[i], d, t)
      PROVE  Same(k, next, cached, when)
  <2>1. \A i \in 1 .. n : i > 1 => ~Touches(events[i], d, t)
    <3> SUFFICES ASSUME NEW i \in 1 .. n, i > 1 PROVE ~Touches(events[i], d, t)
      OBVIOUS
    <3>1. i - 1 \in DOMAIN rest /\ events[i] = rest[i - 1]
      BY <1>1, <1>2
    <3> QED
      BY <1>3, <3>1
  <2>2. CASE Touches(first, d, t)
    BY <1>1, <2>1, <2>2 DEF WillShow, first
  <2>3. CASE ~Touches(first, d, t)
    <3>1. \A i \in 1 .. n : ~Touches(events[i], d, t)
      BY <1>1, <2>1, <2>3
    <3> QED
      BY <1>1, <2>3, <3>1 DEF WillShow, first
  <2> QED
    BY <2>2, <2>3
<1>4. ASSUME NEW i \in DOMAIN rest, Touches(rest[i], d, t),
             \A j \in DOMAIN rest : j > i => ~Touches(rest[j], d, t)
      PROVE  Same(k, rest[i].req[t], cached, when)
  <2>1. i + 1 \in 1 .. n /\ Touches(events[i + 1], d, t) /\ events[i + 1] = rest[i]
    BY <1>1, <1>4
  <2>2. \A j \in 1 .. n : j > i + 1 => ~Touches(events[j], d, t)
    <3> SUFFICES ASSUME NEW j \in 1 .. n, j > i + 1 PROVE ~Touches(events[j], d, t)
      OBVIOUS
    <3>1. i \in Nat /\ i >= 1
      BY <1>1
    <3>2. j - 1 \in DOMAIN rest /\ j - 1 > i /\ events[j] = rest[j - 1]
      BY <1>1, <1>2, <3>1
    <3> QED
      BY <1>4, <3>2
  <2> QED
    BY <1>1, <2>1, <2>2 DEF WillShow
<1> QED
  BY <1>3, <1>4 DEF WillShow, rest

-----------------------------------------------------------------------------
\* The invariant is as strong as the property.
LEMMA SettingsInvAgree == SettingsInv => SettingsAgree
<1> SUFFICES ASSUME SettingsInv PROVE SettingsAgree
  OBVIOUS
<1>1. time \in Nat /\ time >= 1
  BY EntryFacts DEF SettingsInv, TablesInv, SettingsTypes
<1>2. SettingsTypeOK
  BY EntryFacts DEF SettingsInv, TablesInv, SettingsTypes, DeviceTypes, SettingsTypeOK
<1>3. SettingsStored
  BY <1>1, SameIsShown
  DEF SettingsInv, TablesInv, SettingsTypes, RowsAndCache, SettingsStored, UserSettings, Same
<1>4. DevicesFollow
  <2> SUFFICES ASSUME NEW d \in Device, stream[d], pending[d] = <<>>, NEW t \in live \ own[d]
               PROVE  WithoutOver(shown[d], time)[t] = UserSettings[t]
    BY DEF DevicesFollow
  <2>1. Same(kind, shown[d][t], listed[t], time)
    BY DEF SettingsInv, DevicesWillShow, WillShow
  <2>2. shown[d] \in [Target -> Moment] /\ listed \in [Target -> Moment] /\ t \in Target
    BY DEF SettingsInv, TablesInv, SettingsTypes, DeviceTypes
  <2> QED
    BY <1>1, <2>1, <2>2, SameIsShown DEF UserSettings
<1> QED
  BY <1>2, <1>3, <1>4 DEF SettingsInv, ReadKept, SettingsAgree

\* Initially nothing is set, and no device has a stream.
LEMMA SettingsInitInv == SettingsInit => SettingsInv
<1> SUFFICES ASSUME SettingsInit PROVE SettingsInv
  OBVIOUS
<1> USE EntryFacts DEF SettingsInit, Unset
<1>1. TablesInv
  BY DEF TablesInv, SettingsTypes, RowsAreKept, RowsAndCache, Same
<1>2. ReadKept
  BY DEF ReadKept, AnsweredReadKept, ReadIndexNamesLive
<1>3. DeviceTypes
  BY DEF DeviceTypes
<1>4. DevicesWillShow
  BY DEF DevicesWillShow
<1> QED
  BY <1>1, <1>2, <1>3, <1>4 DEF SettingsInv

\* The tables while nothing of devices is changed, and those while nothing else is.
LEMMA ReadStays ==
    ASSUME ReadKept, kind # "read" \/ UNCHANGED <<settings, listed, kept, live>>,
           UNCHANGED <<kind, readSaid>>
    PROVE  ReadKept'
BY DEF ReadKept, AnsweredReadKept, ReadIndexNamesLive

\* The time goes on or targets leave the cache, and an entry says the same.
LEMMA DevicesStay ==
    ASSUME SettingsInv, UNCHANGED <<kind, stream, shown, pending, own>>,
           time' \in Nat, time <= time', live' \subseteq live, listed' \in [Target -> Moment],
           \A t \in live' : Same(kind, listed[t], listed'[t], time')
    PROVE  DevicesWillShow'
<1> SUFFICES ASSUME NEW d \in Device, stream[d], NEW t \in live' \ own[d]
             PROVE  WillShow(d, t, pending[d], shown[d][t], listed'[t], kind, time')
  BY DEF DevicesWillShow
<1>1. /\ time \in Nat /\ t \in Target /\ t \in live \ own[d]
      /\ pending[d] \in Seq(SettingEvent) /\ shown[d][t] \in Moment
      /\ listed[t] \in Moment /\ listed'[t] \in Moment
  BY EntryFacts DEF SettingsInv, TablesInv, SettingsTypes, DeviceTypes
<1>2. WillShow(d, t, pending[d], shown[d][t], listed[t], kind, time)
  BY <1>1 DEF SettingsInv, DevicesWillShow
<1> QED
  BY <1>1, <1>2, WillShowLater

\* A request that goes through, or stops at its commit.
LEMMA ChangeInv ==
    ASSUME SettingsInv, NEW d \in Device, NEW req \in PartTable, Change(d, req), Accepted(req),
           UNCHANGED <<time, deviceVars, targetVars, sweep>>
    PROVE  TablesInv' /\ DeviceTypes' /\ DevicesWillShow'
<1>1. /\ DOMAIN req \subseteq live /\ DOMAIN req \subseteq Target
      /\ \A t \in DOMAIN req : req[t] \in Moment /\ (req[t] # 0 => t \in kept)
      /\ changes \in Nat /\ changes < MaxChanges /\ changes' = changes + 1
      /\ UNCHANGED <<time, kind, stream, shown, kept, live, sweep>>
  BY PartTableFacts DEF Accepted, deviceVars, targetVars, SettingsInv, TablesInv, SettingsTypes
<1>2. /\ settings' \in [Target -> Moment]
      /\ \A t \in Target : settings'[t] = IF t \in DOMAIN req THEN req[t] ELSE settings[t]
  BY PutFacts DEF Change, SettingsInv, TablesInv, SettingsTypes
<1>3. SettingsInv /\ DeviceTypes /\ SettingsTypes /\ Event(d, req) \in SettingEvent
  BY DEF SettingsInv, TablesInv, Event, SettingEvent
<1>4. RowsAreKept'
  BY <1>1, <1>2 DEF SettingsInv, TablesInv, RowsAreKept
<1>5. CASE /\ listed' = Put(listed, req) /\ tornAt' = tornAt \ DOMAIN req
           /\ Owned(d, req) /\ Tell(d, req)
  <2>1. /\ listed' \in [Target -> Moment]
        /\ \A t \in Target : listed'[t] = IF t \in DOMAIN req THEN req[t] ELSE listed[t]
    BY <1>5, PutFacts DEF SettingsInv, TablesInv, SettingsTypes
  <2>2. TablesInv'
    <3>1. SettingsTypes'
      BY <1>1, <1>2, <1>5, <2>1, EntryFacts DEF SettingsInv, TablesInv, SettingsTypes
    <3>2. RowsAndCache'
      BY <1>1, <1>2, <1>5, <2>1 DEF SettingsInv, TablesInv, SettingsTypes, RowsAndCache, Same
    <3> QED
      BY <1>4, <3>1, <3>2 DEF TablesInv
  <2>3. /\ own' \in [Device -> SUBSET Target]
        /\ \A e \in Device : own[e] \subseteq own'[e]
        /\ stream[d] => DOMAIN req \subseteq own'[d]
        /\ \A e \in Device : ~stream[e] => own'[e] = own[e]
    BY <1>1, <1>3, <1>5 DEF Owned, DeviceTypes
  <2>4. \A e \in Device : pending'[e] = IF stream[e] THEN Append(pending[e], Event(d, req))
                                        ELSE pending[e]
    BY <1>5 DEF Tell
  <2>5. DeviceTypes'
    <3>1. \A e \in Device : pending'[e] \in Seq(SettingEvent) /\ Len(pending'[e]) <= changes'
      <4> SUFFICES ASSUME NEW e \in Device
                   PROVE  pending'[e] \in Seq(SettingEvent) /\ Len(pending'[e]) <= changes'
        OBVIOUS
      <4>1. pending[e] \in Seq(SettingEvent) /\ Len(pending[e]) <= changes
        BY <1>3 DEF DeviceTypes
      <4>2. CASE pending'[e] = pending[e]
        BY <1>1, <4>1, <4>2
      <4>3. CASE pending'[e] = Append(pending[e], Event(d, req))
        BY <1>1, <1>3, <4>1, <4>3
      <4> QED
        BY <2>4, <4>2, <4>3
    <3>2. pending' \in [Device -> Seq(SettingEvent)]
      BY <1>5, <3>1 DEF Tell
    <3> QED
      BY <1>1, <1>3, <2>3, <2>4, <3>1, <3>2 DEF DeviceTypes
  <2>6. DevicesWillShow'
    <3> SUFFICES ASSUME NEW e \in Device, stream[e], NEW t \in live \ own'[e]
                 PROVE  WillShow(e, t, pending'[e], shown[e][t], listed'[t], kind, time)
      BY <1>1 DEF DevicesWillShow
    <3> DEFINE ev == Event(d, req)
    <3>1. t \in Target /\ t \in live \ own[e] /\ pending[e] \in Seq(SettingEvent)
      BY <1>3, <2>3 DEF SettingsTypes, DeviceTypes
    <3>2. WillShow(e, t, pending[e], shown[e][t], listed[t], kind, time)
      BY <3>1 DEF SettingsInv, DevicesWillShow
    <3>3. ev \in SettingEvent /\ ev.from = d /\ ev.req = req
      BY <1>3 DEF Event
    <3> HIDE DEF ev
    <3>4. listed'[t] = IF Touches(ev, e, t) THEN ev.req[t] ELSE listed[t]
      BY <2>1, <2>3, <3>1, <3>3 DEF Touches
    <3>5. pending'[e] = Append(pending[e], ev)
      BY <2>4 DEF ev
    <3> QED
      BY <3>1, <3>2, <3>3, <3>4, <3>5, WillShowAppend
  <2> QED
    BY <2>2, <2>5, <2>6
<1>6. CASE tornAt' = tornAt \cup DOMAIN req /\ UNCHANGED <<listed, own, pending>>
  <2>1. TablesInv'
    <3>1. SettingsTypes'
      BY <1>1, <1>2, <1>6, EntryFacts DEF SettingsInv, TablesInv, SettingsTypes
    <3>2. RowsAndCache'
      BY <1>1, <1>2, <1>6 DEF SettingsInv, TablesInv, SettingsTypes, RowsAndCache
    <3> QED
      BY <1>4, <3>1, <3>2 DEF TablesInv
  <2>2. DeviceTypes'
    BY <1>1, <1>3, <1>6 DEF DeviceTypes
  <2>3. DevicesWillShow'
    BY <1>1, <1>6 DEF SettingsInv, DevicesWillShow
  <2> QED
    BY <2>1, <2>2, <2>3
<1> QED
  BY <1>5, <1>6 DEF Change

\* Mutes and burning times have no read index to keep.
LEMMA MuteInv ==
    ASSUME SettingsInv, NEW d \in Device, NEW req \in Changes(1, {0, time + 1, Forever}),
           Mute(d, req)
    PROVE  SettingsInv'
<1>1. {0, time + 1, Forever} \in SUBSET Moment
  BY EntryFacts DEF SettingsInv, TablesInv, SettingsTypes
<1>2. TablesInv' /\ DeviceTypes' /\ DevicesWillShow'
  BY <1>1, RequestFacts, ChangeInv DEF Mute
<1>3. ReadKept'
  BY ReadStays DEF Mute, SettingsInv, deviceVars
<1> QED
  BY <1>2, <1>3 DEF SettingsInv

\* A burning time is set.
LEMMA BurnAfterReadingInv ==
    ASSUME SettingsInv, NEW d \in Device, NEW req \in Changes(1, {0, 1}), BurnAfterReading(d, req)
    PROVE  SettingsInv'
<1>1. TablesInv' /\ DeviceTypes' /\ DevicesWillShow'
  BY EntryFacts, RequestFacts, ChangeInv DEF BurnAfterReading
<1>2. ReadKept'
  BY ReadStays DEF BurnAfterReading, SettingsInv, deviceVars
<1> QED
  BY <1>1, <1>2 DEF SettingsInv

\* Of some places in a list, there is a last.
LEMMA LastPlace ==
    ASSUME NEW n \in Nat, NEW places \in SUBSET (1 .. n), places # {}
    PROVE  Max(places) \in places /\ \A i \in places : i <= Max(places)
<1> DEFINE after == {n - i : i \in places}
<1>1. after \subseteq Nat /\ after # {}
  <2>1. \A i \in places : n - i \in Nat
    OBVIOUS
  <2>2. PICK i \in places : TRUE
    OBVIOUS
  <2>3. n - i \in after
    OBVIOUS
  <2> QED
    BY <2>1, <2>3
<1>2. PICK k \in after : \A x \in after : ~(<<x, k>> \in OpToRel(<, Nat))
  BY <1>1, NatLessThanWellFounded, WFMin
<1>3. PICK last \in places : k = n - last
  BY <1>2
<1>4. ASSUME NEW i \in places PROVE last >= i
  <2>1. n - i \in after /\ ~(n - i < k)
    BY <1>1, <1>2 DEF OpToRel
  <2> QED
    BY <1>3, <2>1
<1>5. \E x \in places : \A y \in places : x >= y
  BY <1>4
<1>6. /\ Max(places) \in places
      /\ \A y \in places : Max(places) >= y
  BY <1>5 DEF Max
<1> QED
  BY <1>6

\* What a list says last of a target, of all its items and of those beyond the
\* cache.
LEMMA ItemFacts ==
    ASSUME NEW items \in ReadLists, SettingsTypes, NEW said, NEW newer,
           said = LastItems(items, DOMAIN items), newer = LastItems(items, Newer(items))
    PROVE  /\ said \in PartTable /\ newer \in PartTable
           /\ DOMAIN said = TargetsOf(items) /\ TargetsOf(items) \subseteq Target
           /\ \A t \in DOMAIN said : said[t] \in Nat
           /\ DOMAIN newer \subseteq DOMAIN said
           /\ \A t \in DOMAIN newer : newer[t] \in Nat /\ newer[t] > listed[t]
           /\ \A t \in DOMAIN said : \/ said[t] <= listed[t]
                                     \/ t \in DOMAIN newer /\ newer[t] = said[t]
           /\ Newer(items) = {} <=> DOMAIN newer = {}
<1>1. PICK n \in 1 .. MaxBatch : items \in [1 .. n -> ReadItem]
  BY DEF ReadLists
<1>2. /\ n \in Nat /\ DOMAIN items = 1 .. n /\ Newer(items) \subseteq 1 .. n
      /\ \A i \in 1 .. n : /\ items[i] \in ReadItem /\ items[i].target \in Target
                           /\ items[i].mid \in 1 .. MaxMid /\ items[i].mid \in Nat
                           /\ items[i].mid \in Moment
  BY <1>1, EntryFacts, SettingsAssumption DEF Newer, ReadItem
<1> DEFINE Of(places, t) == {i \in places : items[i].target = t}
<1>3. ASSUME NEW places \in SUBSET (1 .. n), NEW table, table = LastItems(items, places)
      PROVE  /\ DOMAIN table = {items[i].target : i \in places}
             /\ \A t \in DOMAIN table :
                  /\ table[t] = items[Max(Of(places, t))].mid
                  /\ Max(Of(places, t)) \in Of(places, t)
                  /\ \A i \in Of(places, t) : i <= Max(Of(places, t))
  <2>1. DOMAIN table = {items[i].target : i \in places}
    BY <1>3 DEF LastItems
  <2> SUFFICES ASSUME NEW t \in DOMAIN table
               PROVE  /\ table[t] = items[Max(Of(places, t))].mid
                      /\ Max(Of(places, t)) \in Of(places, t)
                      /\ \A i \in Of(places, t) : i <= Max(Of(places, t))
    BY <2>1
  <2>2. table[t] = items[Max(Of(places, t))].mid
    BY <1>3, <2>1 DEF LastItems
  <2>3. Of(places, t) # {} /\ Of(places, t) \in SUBSET (1 .. n)
    BY <1>3, <2>1
  <2> HIDE DEF Of
  <2> QED
    BY <1>2, <2>2, <2>3, LastPlace
<1>4. ASSUME NEW places \in SUBSET (1 .. n), NEW table, table = LastItems(items, places)
      PROVE  /\ table \in PartTable
             /\ \A t \in DOMAIN table : table[t] \in Nat
             /\ DOMAIN table \subseteq Target
  <2>1. table = [t \in DOMAIN table |-> table[t]]
    BY <1>4 DEF LastItems
  <2>2. \A t : Of(places, t) \subseteq 1 .. n
    OBVIOUS
  <2> HIDE DEF Of
  <2>3. /\ DOMAIN table = {items[i].target : i \in places}
        /\ \A t \in DOMAIN table : /\ table[t] = items[Max(Of(places, t))].mid
                                   /\ Max(Of(places, t)) \in Of(places, t)
    BY <1>3, <1>4, Zenon
  <2>4. ASSUME NEW t \in DOMAIN table PROVE table[t] \in Moment /\ table[t] \in Nat
    <3>1. Max(Of(places, t)) \in 1 .. n
      BY <2>3, <2>2
    <3> QED
      BY <1>2, <2>3, <3>1
  <2>5. DOMAIN table \subseteq Target
    BY <1>2, <2>3
  <2>6. table \in [DOMAIN table -> Moment] /\ DOMAIN table \in SUBSET Target
    BY <2>1, <2>4, <2>5
  <2> QED
    BY <2>4, <2>5, <2>6 DEF PartTable
<1>5. /\ DOMAIN said = {items[i].target : i \in 1 .. n}
      /\ \A t \in DOMAIN said :
            /\ said[t] = items[Max(Of(1 .. n, t))].mid
            /\ Max(Of(1 .. n, t)) \in Of(1 .. n, t)
            /\ \A i \in Of(1 .. n, t) : i <= Max(Of(1 .. n, t))
  <2>1. said = LastItems(items, 1 .. n) /\ 1 .. n \in SUBSET (1 .. n)
    BY <1>2
  <2> HIDE DEF Of
  <2> QED
    BY <1>3, <2>1
<1>6. /\ DOMAIN newer = {items[i].target : i \in Newer(items)}
      /\ \A t \in DOMAIN newer :
            /\ newer[t] = items[Max(Of(Newer(items), t))].mid
            /\ Max(Of(Newer(items), t)) \in Of(Newer(items), t)
            /\ \A i \in Of(Newer(items), t) : i <= Max(Of(Newer(items), t))
  BY <1>2, <1>3
<1>7. \A t \in DOMAIN newer : newer[t] > listed[t]
  BY <1>6, <1>2 DEF Newer
<1>8. ASSUME NEW t \in DOMAIN said, ~(said[t] <= listed[t])
      PROVE  t \in DOMAIN newer /\ newer[t] = said[t]
  <2>1. PICK i : i = Max(Of(1 .. n, t))
    OBVIOUS
  <2>2. i \in 1 .. n /\ items[i].target = t /\ said[t] = items[i].mid
    BY <1>5, <2>1
  <2>3. listed[t] \in Nat /\ said[t] \in Nat
    BY <1>2, <2>2, EntryFacts DEF SettingsTypes
  <2>4. i \in Of(Newer(items), t) /\ t \in DOMAIN newer
    BY <1>2, <1>6, <1>8, <2>2, <2>3 DEF Newer
  <2>5. PICK j : j = Max(Of(Newer(items), t))
    OBVIOUS
  <2>6. j \in 1 .. n /\ j \in Of(1 .. n, t) /\ i <= j /\ newer[t] = items[j].mid
    BY <1>2, <1>6, <2>4, <2>5
  <2>7. i = j
    <3>1. j <= i
      BY <1>5, <2>1, <2>6
    <3> QED
      BY <1>2, <2>2, <2>6, <3>1
  <2> QED
    BY <2>2, <2>4, <2>6, <2>7
<1>9. /\ DOMAIN said = TargetsOf(items) /\ DOMAIN newer \subseteq DOMAIN said
      /\ Newer(items) = {} <=> DOMAIN newer = {}
  <2>1. TargetsOf(items) = {items[i].target : i \in 1 .. n}
    BY <1>2 DEF TargetsOf
  <2>2. /\ DOMAIN said = {items[i].target : i \in 1 .. n}
        /\ DOMAIN newer = {items[i].target : i \in Newer(items)}
    BY <1>5, <1>6
  <2>3. PICK named, beyond :
          /\ named = {items[i].target : i \in 1 .. n}
          /\ beyond = {items[i].target : i \in Newer(items)}
    OBVIOUS
  <2>4. beyond \subseteq named /\ (Newer(items) = {} <=> beyond = {})
    BY <1>2, <2>3
  <2> QED
    BY <2>1, <2>2, <2>3, <2>4
<1> QED
  BY <1>2, <1>4, <1>7, <1>8, <1>9

\* What a client is told is read, is at most what the cache says.
LEMMA SaidReadFacts ==
    ASSUME ReadKept, NEW items, NEW said, said = LastItems(items, DOMAIN items),
           DOMAIN said = TargetsOf(items), \A t \in DOMAIN said : said[t] \in Nat, SaidRead(items)
    PROVE  /\ readSaid' \in [Target -> Nat]
           /\ \A t \in Target : readSaid'[t] = readSaid[t]
                                \/ (t \in DOMAIN said /\ readSaid'[t] = said[t])
BY GreaterOfTwo DEF SaidRead, ReadKept

\* A read index is set, as far as it is ahead of the cache.
LEMMA ReadIndexInv ==
    ASSUME SettingsInv, NEW d \in Device, NEW items \in ReadLists, ReadIndex(d, items)
    PROVE  SettingsInv'
<1>1. PICK said, newer :
        said = LastItems(items, DOMAIN items) /\ newer = LastItems(items, Newer(items))
  OBVIOUS
<1>2. SettingsTypes
  BY DEF SettingsInv, TablesInv
<1>3. /\ newer \in PartTable
      /\ DOMAIN said = TargetsOf(items) /\ DOMAIN said \subseteq Target
      /\ \A t \in DOMAIN said : said[t] \in Nat
      /\ DOMAIN newer \subseteq DOMAIN said
      /\ \A t \in DOMAIN newer : newer[t] \in Nat /\ newer[t] > listed[t]
      /\ \A t \in DOMAIN said : \/ said[t] <= listed[t]
                                \/ t \in DOMAIN newer /\ newer[t] = said[t]
  BY <1>1, <1>2, ItemFacts
<1>4. /\ kind = "read" /\ DOMAIN said \subseteq live /\ Accepted(newer) /\ Change(d, newer)
      /\ IF listed' = listed THEN UNCHANGED readSaid ELSE SaidRead(items)
      /\ UNCHANGED <<time, deviceVars, targetVars, sweep>>
  BY <1>1, <1>3 DEF ReadIndex
<1>5. TablesInv' /\ DeviceTypes' /\ DevicesWillShow'
  BY <1>3, <1>4, ChangeInv
<1>6. ReadKept'
  <2>1. /\ SettingsTypes /\ ReadKept /\ UNCHANGED <<kind, kept, live>>
        /\ DOMAIN newer \subseteq live
        /\ \A t \in Target : listed[t] \in Nat /\ settings[t] \in Nat /\ readSaid[t] \in Nat
    BY <1>4, EntryFacts DEF SettingsInv, TablesInv, SettingsTypes, ReadKept, Accepted, deviceVars,
       targetVars
  <2>2. \A t \in Target : settings'[t] = IF t \in DOMAIN newer THEN newer[t] ELSE settings[t]
    BY <1>3, <1>4, PutFacts DEF Change, SettingsInv, TablesInv, SettingsTypes
  <2>3. CASE listed' = listed
    <3>1. readSaid' = readSaid
      BY <1>4, <2>3
    <3>2. \A t \in kept : readSaid[t] <= settings'[t] /\ (t \in live => listed[t] <= settings'[t])
      BY <1>3, <1>4, <2>1, <2>2
      DEF ReadKept, AnsweredReadKept, SettingsTypes
    <3> QED
      BY <1>4, <2>1, <2>3, <3>1, <3>2 DEF ReadKept, AnsweredReadKept, ReadIndexNamesLive
  <2>4. CASE listed' # listed
    <3>1. /\ SaidRead(items)
          /\ \A t \in Target : listed'[t] = IF t \in DOMAIN newer THEN newer[t] ELSE listed[t]
      BY <1>3, <1>4, <2>4, PutFacts DEF Change, SettingsInv, TablesInv, SettingsTypes
    <3>2. /\ readSaid' \in [Target -> Nat]
          /\ \A t \in Target : readSaid'[t] = readSaid[t]
                               \/ (t \in DOMAIN said /\ readSaid'[t] = said[t])
      BY <1>1, <1>3, <2>1, <3>1, SaidReadFacts
    <3>3. \A t \in live \cap kept : listed'[t] <= settings'[t]
      BY <1>3, <1>4, <2>1, <2>2, <3>1 DEF ReadKept, SettingsTypes
    <3>4. \A t \in live \cap kept : readSaid'[t] <= listed'[t]
      <4> SUFFICES ASSUME NEW t \in live \cap kept PROVE readSaid'[t] <= listed'[t]
        OBVIOUS
      <4>1. t \in Target /\ readSaid[t] <= listed[t]
        BY <1>4, <2>1 DEF ReadKept, AnsweredReadKept, SettingsTypes
      <4> QED
        BY <1>3, <2>1, <3>1, <3>2, <4>1
    <3>5. \A t \in kept : readSaid'[t] <= settings'[t]
      <4> SUFFICES ASSUME NEW t \in kept PROVE readSaid'[t] <= settings'[t]
        OBVIOUS
      <4>1. t \in Target /\ readSaid[t] <= settings[t]
        BY <1>4, <2>1 DEF ReadKept, AnsweredReadKept, SettingsTypes
      <4>2. CASE t \in live
        <5>1. listed'[t] \in Nat /\ settings'[t] \in Nat /\ readSaid'[t] \in Nat
          BY <1>3, <2>1, <2>2, <3>1, <3>2, <4>1
        <5> QED
          BY <3>3, <3>4, <4>2, <5>1
      <4>3. CASE t \notin live
        BY <1>4, <2>1, <2>2, <3>2, <4>1, <4>3
      <4> QED
        BY <4>2, <4>3
    <3>6. ReadIndexNamesLive'
      BY <1>4, <2>1, <3>1 DEF ReadKept, ReadIndexNamesLive
    <3> QED
      BY <2>1, <3>2, <3>3, <3>4, <3>5, <3>6 DEF ReadKept, AnsweredReadKept
  <2> QED
    BY <2>3, <2>4
<1> QED
  BY <1>5, <1>6 DEF SettingsInv

\* A step that leaves tables and devices alone.
LEMMA TablesStay ==
    ASSUME SettingsInv,
           UNCHANGED <<time, settings, listed, deviceVars, targetVars, sweep, pending, own, tornAt,
                       changes>>
    PROVE  TablesInv' /\ DeviceTypes' /\ DevicesWillShow'
BY DEF SettingsInv, TablesInv, SettingsTypes, RowsAreKept, RowsAndCache, DeviceTypes,
       DevicesWillShow, deviceVars, targetVars

\* One that is not is answered at once.
LEMMA ReadIndexOldInv ==
    ASSUME SettingsInv, NEW items \in ReadLists, ReadIndexOld(items)
    PROVE  SettingsInv'
<1>1. PICK said, newer :
        said = LastItems(items, DOMAIN items) /\ newer = LastItems(items, Newer(items))
  OBVIOUS
<1>2. /\ kind = "read" /\ SaidRead(items) /\ Newer(items) = {}
      /\ UNCHANGED <<time, settings, listed, deviceVars, targetVars, sweep, pending, own, tornAt,
                     changes>>
  BY DEF ReadIndexOld
<1>3. /\ DOMAIN said = TargetsOf(items) /\ \A t \in DOMAIN said : said[t] \in Nat
      /\ \A t \in DOMAIN said : said[t] <= listed[t]
  BY <1>1, <1>2, ItemFacts DEF SettingsInv, TablesInv
<1>4. /\ readSaid' \in [Target -> Nat]
      /\ \A t \in Target : readSaid'[t] = readSaid[t]
                           \/ (t \in DOMAIN said /\ readSaid'[t] = said[t])
  BY <1>1, <1>2, <1>3, SaidReadFacts DEF SettingsInv
<1>5. DOMAIN said \subseteq live
  BY <1>3 DEF ReadIndexOld
<1>6. \A t \in kept : readSaid'[t] <= settings[t] /\ (t \in live => readSaid'[t] <= listed[t])
  <2> SUFFICES ASSUME NEW t \in kept
               PROVE  readSaid'[t] <= settings[t] /\ (t \in live => readSaid'[t] <= listed[t])
    OBVIOUS
  <2>1. /\ t \in Target /\ listed[t] \in Nat /\ settings[t] \in Nat /\ readSaid[t] <= settings[t]
        /\ t \in live => readSaid[t] <= listed[t] /\ listed[t] <= settings[t]
    BY <1>2, EntryFacts DEF SettingsInv, TablesInv, SettingsTypes, ReadKept, AnsweredReadKept
  <2> QED
    BY <1>3, <1>4, <1>5, <2>1
<1>7. ReadKept'
  BY <1>2, <1>4, <1>6
  DEF SettingsInv, ReadKept, AnsweredReadKept, ReadIndexNamesLive, deviceVars, targetVars
<1> QED
  BY <1>2, <1>7, TablesStay DEF SettingsInv

-----------------------------------------------------------------------------
\* A target goes, and maybe others with it.
LEMMA RemoveTargetInv ==
    ASSUME SettingsInv, NEW gone \in Target, NEW alsoGone \in SUBSET Target,
           RemoveTarget(gone, alsoGone)
    PROVE  SettingsInv'
<1>1. /\ kept' = kept \ {gone} /\ settings' \in [Target -> Moment]
      /\ \A t \in Target : settings'[t] = IF t = gone THEN 0 ELSE settings[t]
      /\ UNCHANGED <<time, kind, stream, shown, sweep, pending, own, readSaid, changes>>
  BY EntryFacts DEF RemoveTarget, RowsWithout, deviceVars, SettingsInv, TablesInv, SettingsTypes
<1>2. /\ live' \subseteq live /\ listed' \in [Target -> Moment]
      /\ \A t \in live' : listed'[t] = listed[t]
      /\ \A t \in Target : listed'[t] \in {0, listed[t]}
      /\ kind = "read" => \A t \in live \ live' : listed'[t] = 0
      /\ (tornAt' = tornAt /\ gone \notin live') \/ tornAt' = tornAt \cup {gone}
  <2>1. CASE /\ live' = live \ ({gone} \cup alsoGone)
             /\ listed' = ForgetRead({gone} \cup alsoGone)
             /\ UNCHANGED tornAt
    <3>1. CASE kind = "read"
      BY <2>1, <3>1, EntryFacts DEF ForgetRead, SettingsInv, TablesInv, SettingsTypes
    <3>2. CASE kind # "read"
      BY <2>1, <3>2, EntryFacts DEF ForgetRead, SettingsInv, TablesInv, SettingsTypes
    <3> QED
      BY <3>1, <3>2
  <2>2. CASE tornAt' = tornAt \cup {gone} /\ UNCHANGED <<live, listed>>
    BY <2>2 DEF SettingsInv, TablesInv, SettingsTypes
  <2> QED
    BY <2>1, <2>2 DEF RemoveTarget
<1>3. TablesInv'
  <2>1. SettingsTypes'
    BY <1>1, <1>2 DEF SettingsInv, TablesInv, SettingsTypes
  <2>2. RowsAreKept'
    BY <1>1 DEF SettingsInv, TablesInv, RowsAreKept
  <2>3. RowsAndCache'
    BY <1>1, <1>2 DEF SettingsInv, TablesInv, SettingsTypes, RowsAndCache
  <2> QED
    BY <2>1, <2>2, <2>3 DEF TablesInv
<1>4. DeviceTypes'
  BY <1>1 DEF SettingsInv, DeviceTypes
<1>5. DevicesWillShow'
  BY <1>1, <1>2, DevicesStay, EntryFacts DEF Same, SettingsInv, TablesInv, SettingsTypes
<1>6. ReadKept'
  BY <1>1, <1>2
  DEF SettingsInv, TablesInv, SettingsTypes, ReadKept, AnsweredReadKept, ReadIndexNamesLive
<1> QED
  BY <1>3, <1>4, <1>5, <1>6 DEF SettingsInv

\* The task that clears mutes, at the rows and at the cache, and the clock.
LEMMA CleanMuteInv ==
    ASSUME SettingsInv, CleanMuteRows \/ CleanMuteCache \/ Tick
    PROVE  SettingsInv'
<1>1. /\ kind = "mute" \/ kind # "mute"
      /\ UNCHANGED <<kind, kept, live, stream, shown, pending, own, readSaid, tornAt, changes>>
  BY DEF CleanMuteRows, CleanMuteCache, Tick, deviceVars, targetVars
<1>2. /\ time \in Nat /\ time >= 1 /\ (sweep = NotSweeping \/ sweep \in 1 .. time)
      /\ settings \in [Target -> Moment] /\ listed \in [Target -> Moment]
      /\ live \subseteq Target
  BY EntryFacts DEF SettingsInv, TablesInv, SettingsTypes
<1>3. /\ time' \in Nat /\ time' \in 1 .. MaxTime /\ time <= time'
      /\ sweep' = NotSweeping \/ sweep' \in 1 .. time'
  BY <1>2, EntryFacts
  DEF CleanMuteRows, CleanMuteCache, Tick, SettingsInv, TablesInv, SettingsTypes
<1>4. /\ settings' \in [Target -> Moment]
      /\ \A t \in Target : /\ settings'[t] \in {0, settings[t]}
                           /\ Same(kind, settings[t], settings'[t], time')
      /\ kind # "mute" => settings' = settings
  <2>1. CASE settings' = settings
    BY <1>2, <2>1 DEF Same
  <2>2. CASE settings' = WithoutOver(settings, time)
    <3>1. time' = time \/ settings' = settings
      BY DEF CleanMuteRows, CleanMuteCache, Tick
    <3> QED
      BY <1>2, <2>1, <2>2, <3>1, WithoutOverFacts DEF Same
  <2> QED
    BY <2>1, <2>2 DEF CleanMuteRows, CleanMuteCache, Tick
<1>5. /\ listed' \in [Target -> Moment]
      /\ \A t \in Target : Same(kind, listed[t], listed'[t], time')
      /\ kind # "mute" => listed' = listed
  <2>1. CASE listed' = listed
    BY <1>2, <2>1 DEF Same
  <2>2. CASE listed' = WithoutOver(listed, sweep) /\ sweep # NotSweeping
    <3>1. sweep \in Nat /\ sweep >= 1 /\ sweep <= time'
      BY <1>2, <1>3, <2>2
    <3>2. /\ listed' \in [Target -> Moment]
          /\ \A t \in Target : Same(kind, listed'[t], listed[t], sweep)
          /\ kind # "mute" => listed' = listed
      BY <1>2, <2>2, <3>1, WithoutOverFacts
    <3>3. \A t \in Target : listed[t] \in Nat /\ listed'[t] \in Nat
      BY <1>2, <3>2, EntryFacts
    <3> QED
      BY <1>3, <3>1, <3>2, <3>3 DEF Same
  <2> QED
    BY <2>1, <2>2 DEF CleanMuteRows, CleanMuteCache, Tick
<1>6. TablesInv'
  <2>1. SettingsTypes'
    BY <1>1, <1>3, <1>4, <1>5 DEF SettingsInv, TablesInv, SettingsTypes
  <2>2. RowsAreKept'
    BY <1>1, <1>4 DEF SettingsInv, TablesInv, RowsAreKept
  <2>3. RowsAndCache'
    <3> SUFFICES ASSUME NEW t \in (live \cap kept) \ tornAt
                 PROVE  Same(kind, settings'[t], listed'[t], time')
      BY <1>1 DEF RowsAndCache
    <3>1. /\ t \in Target /\ Same(kind, settings[t], listed[t], time)
          /\ settings[t] \in Nat /\ listed[t] \in Nat /\ settings'[t] \in Nat /\ listed'[t] \in Nat
      BY <1>2, <1>4, <1>5, EntryFacts DEF SettingsInv, TablesInv, RowsAndCache
    <3> QED
      BY <1>2, <1>3, <1>4, <1>5, <3>1 DEF Same
  <2> QED
    BY <2>1, <2>2, <2>3 DEF TablesInv
<1>7. DeviceTypes'
  BY <1>1 DEF SettingsInv, DeviceTypes
<1>8. DevicesWillShow'
  BY <1>1, <1>2, <1>3, <1>5, DevicesStay
<1>9. ReadKept'
  BY <1>1, <1>4, <1>5, ReadStays DEF SettingsInv, CleanMuteRows, CleanMuteCache, Tick
<1> QED
  BY <1>6, <1>7, <1>8, <1>9 DEF SettingsInv

-----------------------------------------------------------------------------
\* A step of a device's stream leaves the tables alone.
LEMMA StreamsStay ==
    ASSUME SettingsInv,
           UNCHANGED <<time, kind, settings, listed, targetVars, sweep, readSaid, tornAt, changes>>
    PROVE  TablesInv' /\ ReadKept'
BY DEF SettingsInv, TablesInv, SettingsTypes, RowsAreKept, RowsAndCache, ReadKept,
       AnsweredReadKept, ReadIndexNamesLive, targetVars

\* A device gets a snapshot.
LEMMA SubscribeInv ==
    ASSUME SettingsInv, NEW d \in Device, Subscribe(d)
    PROVE  SettingsInv'
<1>1. /\ stream' = [stream EXCEPT ![d] = TRUE] /\ shown' = [shown EXCEPT ![d] = UserSettings]
      /\ pending' = [pending EXCEPT ![d] = <<>>] /\ own' = [own EXCEPT ![d] = {}]
      /\ UNCHANGED <<time, kind, settings, listed, targetVars, sweep, readSaid, tornAt, changes>>
  BY DEF Subscribe
<1>2. /\ UserSettings \in [Target -> Moment] /\ live \subseteq Target
      /\ \A t \in Target : Same(kind, UserSettings[t], listed[t], time)
  BY WithoutOverFacts, EntryFacts DEF UserSettings, SettingsInv, TablesInv, SettingsTypes
<1>3. /\ DeviceTypes
      /\ shown'[d] = UserSettings /\ pending'[d] = <<>>
      /\ \A e \in Device : e # d => /\ stream'[e] = stream[e] /\ shown'[e] = shown[e]
                                    /\ pending'[e] = pending[e] /\ own'[e] = own[e]
  BY <1>1 DEF SettingsInv, DeviceTypes
<1>4. DeviceTypes'
  <2>1. changes' = changes /\ changes \in Nat /\ stream'[d]
    BY <1>1 DEF SettingsInv, TablesInv, SettingsTypes, DeviceTypes
  <2> QED
    BY <1>1, <1>2, <1>3, <2>1 DEF DeviceTypes
<1>5. DevicesWillShow'
  <2> SUFFICES ASSUME NEW e \in Device, stream'[e], NEW t \in live \ own'[e]
               PROVE  WillShow(e, t, pending'[e], shown'[e][t], listed[t], kind, time)
    BY <1>1 DEF DevicesWillShow, targetVars
  <2>1. CASE e = d
    BY <1>2, <1>3, <2>1 DEF WillShow
  <2>2. CASE e # d
    BY <1>3, <2>2 DEF SettingsInv, DevicesWillShow
  <2> QED
    BY <2>1, <2>2
<1> QED
  BY <1>1, <1>4, <1>5, StreamsStay DEF SettingsInv

\* A device is sent its next event.
LEMMA DeliverInv ==
    ASSUME SettingsInv, NEW d \in Device, Deliver(d)
    PROVE  SettingsInv'
<1> DEFINE ev == Head(pending[d])
           next == IF ev.from = d THEN shown[d] ELSE Put(shown[d], ev.req)
<1>1. /\ pending[d] # <<>> /\ pending' = [pending EXCEPT ![d] = Tail(pending[d])]
      /\ UNCHANGED <<time, kind, settings, listed, targetVars, sweep, stream, own, readSaid, tornAt,
                     changes>>
  BY DEF Deliver
<1>2. shown' = [shown EXCEPT ![d] = next]
  BY DEF Deliver, SettingsInv, DeviceTypes
<1>3. /\ pending[d] \in Seq(SettingEvent) /\ shown[d] \in [Target -> Moment]
      /\ DeviceTypes /\ live \subseteq Target /\ changes \in Nat
  BY DEF SettingsInv, TablesInv, SettingsTypes, DeviceTypes
<1>4. ev \in SettingEvent /\ ev.req \in PartTable
  <2>1. ev = pending[d][1] /\ 1 \in DOMAIN pending[d]
    BY <1>1, <1>3
  <2>2. ev \in SettingEvent
    BY <1>3, <2>1
  <2> QED
    BY <2>2 DEF SettingEvent
<1>5. /\ next \in [Target -> Moment]
      /\ \A t \in Target : next[t] = IF Touches(ev, d, t) THEN ev.req[t] ELSE shown[d][t]
  BY <1>3, <1>4, PutFacts DEF Touches
<1>6. /\ Tail(pending[d]) \in Seq(SettingEvent) /\ Len(Tail(pending[d])) <= changes
      /\ stream[d]
  BY <1>1, <1>3 DEF DeviceTypes
<1> HIDE DEF next, ev
<1>7. /\ shown'[d] = next /\ pending'[d] = Tail(pending[d])
      /\ \A e \in Device : e # d => shown'[e] = shown[e] /\ pending'[e] = pending[e]
  BY <1>1, <1>2, <1>3 DEF DeviceTypes
<1>8. DeviceTypes'
  BY <1>1, <1>2, <1>3, <1>5, <1>6, <1>7 DEF DeviceTypes
<1>9. DevicesWillShow'
  <2> SUFFICES ASSUME NEW e \in Device, stream[e], NEW t \in live \ own[e]
               PROVE  WillShow(e, t, pending'[e], shown'[e][t], listed[t], kind, time)
    BY <1>1 DEF DevicesWillShow, targetVars
  <2>1. WillShow(e, t, pending[e], shown[e][t], listed[t], kind, time)
    BY DEF SettingsInv, DevicesWillShow
  <2>2. CASE e = d
    <3>1. next[t] = IF Touches(Head(pending[d]), d, t) THEN Head(pending[d]).req[t] ELSE shown[d][t]
      BY <1>3, <1>5 DEF ev
    <3>2. WillShow(d, t, Tail(pending[d]), next[t], listed[t], kind, time)
      BY <1>1, <1>3, <2>1, <2>2, <3>1, WillShowTail
    <3> QED
      BY <1>7, <2>2, <3>2
  <2>3. CASE e # d
    BY <1>7, <2>1, <2>3
  <2> QED
    BY <2>2, <2>3
<1> QED
  BY <1>1, <1>8, <1>9, StreamsStay DEF SettingsInv

\* Streams end.
LEMMA OfflineFacts ==
    ASSUME SettingsInv, NEW ds \in SUBSET Device, Offline(ds), UNCHANGED changes
    PROVE  /\ DeviceTypes'
           /\ \A d \in Device : stream'[d] => /\ d \notin ds /\ stream[d] /\ shown'[d] = shown[d]
                                              /\ pending'[d] = pending[d] /\ own'[d] = own[d]
<1>1. /\ DeviceTypes /\ changes \in Nat /\ Unset \in [Target -> Moment]
      /\ <<>> \in Seq(SettingEvent) /\ Len(<<>>) <= changes
  BY EntryFacts DEF SettingsInv, TablesInv, SettingsTypes, Unset
<1>2. \A d \in Device : d \notin ds => /\ stream'[d] = stream[d] /\ shown'[d] = shown[d]
                                       /\ pending'[d] = pending[d] /\ own'[d] = own[d]
  BY <1>1 DEF Offline, DeviceTypes
<1>3. \A d \in Device : d \in ds => /\ ~stream'[d] /\ shown'[d] = Unset
                                    /\ pending'[d] = <<>> /\ own'[d] = {}
  BY DEF Offline
<1>4. /\ stream' \in [Device -> BOOLEAN] /\ shown' \in [Device -> [Target -> Moment]]
      /\ pending' \in [Device -> Seq(SettingEvent)] /\ own' \in [Device -> SUBSET Target]
  BY <1>1 DEF Offline, DeviceTypes
<1> QED
  BY <1>1, <1>2, <1>3, <1>4 DEF DeviceTypes

\* A stream ends.
LEMMA DisconnectInv == ASSUME SettingsInv, NEW d \in Device, Disconnect(d) PROVE SettingsInv'
<1>1. /\ Offline({d})
      /\ UNCHANGED <<time, kind, settings, listed, targetVars, sweep, readSaid, tornAt, changes>>
  BY DEF Disconnect
<1>2. DevicesWillShow'
  BY <1>1, OfflineFacts DEF SettingsInv, DevicesWillShow, targetVars
<1> QED
  BY <1>1, <1>2, OfflineFacts, StreamsStay DEF SettingsInv

\* The server starts anew: the cache is what the rows say.
LEMMA RestartSettingsInv == ASSUME SettingsInv, RestartSettings PROVE SettingsInv'
<1>1. /\ listed' = settings /\ live' = kept /\ Offline(Device)
      /\ sweep' = NotSweeping /\ tornAt' = {}
      /\ UNCHANGED <<time, kind, settings, kept, readSaid, changes>>
  BY DEF RestartSettings
<1>2. TablesInv'
  BY <1>1, EntryFacts DEF SettingsInv, TablesInv, SettingsTypes, RowsAreKept, RowsAndCache, Same
<1>3. ReadKept'
  <2>1. \A t \in Target : settings[t] \in Nat /\ (settings[t] # 0 => t \in kept)
    BY EntryFacts DEF SettingsInv, TablesInv, SettingsTypes, RowsAreKept
  <2>2. kept \subseteq Target /\ \A t \in kept : settings[t] <= settings[t]
    BY <2>1 DEF SettingsInv, TablesInv, SettingsTypes
  <2> QED
    BY <1>1, <2>1, <2>2 DEF SettingsInv, ReadKept, AnsweredReadKept, ReadIndexNamesLive
<1>4. DeviceTypes' /\ DevicesWillShow'
  BY <1>1, OfflineFacts DEF DevicesWillShow
<1> QED
  BY <1>2, <1>3, <1>4 DEF SettingsInv

\* Every step keeps the invariant.
LEMMA SettingsNextInv == ASSUME SettingsInv, [SettingsNext]_setVars PROVE SettingsInv'
<1>1. CASE UNCHANGED setVars
  BY <1>1, TablesStay, ReadStays DEF SettingsInv, setVars, deviceVars, targetVars
<1>2. ASSUME NEW p \in Peer, DeletePeer(p) PROVE SettingsInv'
  BY <1>2, RemoveTargetInv DEF DeletePeer, Target
<1>3. ASSUME NEW g \in Gid, DeleteOwnGroup(g) PROVE SettingsInv'
  BY <1>3, RemoveTargetInv DEF DeleteOwnGroup, Target
<1>4. CASE SettingsNext
  BY <1>2, <1>3, <1>4, MuteInv, BurnAfterReadingInv, ReadIndexInv, ReadIndexOldInv, SubscribeInv,
     DeliverInv, DisconnectInv, CleanMuteInv, RestartSettingsInv
  DEF SettingsNext
<1> QED
  BY <1>1, <1>4

\* Rows, cache and devices agree on a user's settings, and what a client was told
\* is read stays read: with handlers that are dropped at their commit, targets
\* that are deleted, mutes that end, streams that come and go, and restarts
\* (mute, update_burn_after_reading, update_read_index, clean_mute).
THEOREM DevicesSeeSettings == SettingsSpec => []SettingsAgree
BY SettingsInitInv, SettingsNextInv, SettingsInvAgree, PTL DEF SettingsSpec

(***************************************************************************)
(* A direct message is stored as the settings say.                         *)
(***************************************************************************)
MailKind == {"text", "file", "archive", "encrypted"}
Admitted == {"admitted", "locked", "writing", "stored"}
SendStep == {"idle", "begun", "first generation"} \cup Admitted

Plain(m) == m.kind # "encrypted" => m.gen1 /\ m.off

\* Every request has a message, of one of the kinds if it runs.
MailTypes ==
    /\ sending \in [SendRequest -> SendStep]
    /\ mail = [r \in SendRequest |-> mail[r]]
    /\ \A r \in SendRequest : DOMAIN mail[r] = DOMAIN NoMail
    /\ \A r \in SendRequest : (sending[r] = "idle") <=> (mail[r] = NoMail)
    /\ \A r \in SendRequest : sending[r] # "idle" => mail[r].kind \in MailKind

\* A request that runs has noted what is so now, ...
Seen ==
    \A r \in SendRequest : sending[r] # "idle" =>
        (generation = 1 => mail[r].gen1) /\ (~encryptDm => mail[r].off)

\* ... and plain text comes past the checks if it was allowed at some moment.
PlainAdmitted ==
    \A r \in SendRequest :
        /\ sending[r] = "first generation" => mail[r].gen1
        /\ sending[r] \in Admitted => Plain(mail[r])

\* What was read with the cache locked is so until the message is stored, ...
HeldAsRead ==
    \A r \in SendRequest : sending[r] \in {"locked", "writing"} =>
        mail[r].expires = burn /\ mail[r].tell \subseteq {tokens[d] : d \in DOMAIN tokens}

\* ... by the one task that writes it.
WritesFor ==
    /\ \A w \in writing :
        /\ DOMAIN w = {"by", "waits", "mail"}
        /\ Plain(w.mail)
        /\ w.waits =>
            /\ w.by \in SendRequest /\ sending[w.by] = "writing"
            /\ w.mail.expires = mail[w.by].expires /\ w.mail.tell = mail[w.by].tell
    /\ \A v, w \in writing : v.waits /\ w.waits /\ v.by = w.by => v = w

\* A stored message whose sender waited, to be told to some phones.
IsStored(mid, phones) ==
    \E m \in inStore : m.mid = mid /\ ~m.orphan /\ phones \subseteq m.mail.tell

\* So is the message of a request that is to answer, ...
AnswersStored ==
    \A r \in SendRequest : sending[r] = "stored" => IsStored(mail[r].mid, mail[r].tell)

\* ... and that of a task that tells phones.
TellsOfStored ==
    \A task \in pushing :
        /\ DOMAIN task = {"mid", "left", "next"}
        /\ IsStored(task.mid, task.left)
        /\ task.next # NoToken => IsStored(task.mid, task.left \cup {task.next})

RequestsInv == MailTypes /\ Seen /\ PlainAdmitted /\ HeldAsRead /\ AnswersStored
StoredInv == PlainWasAllowed /\ StoredAsSettingsSay
PhonesInv == TellsOfStored /\ ToldIsStored

\* The inductive invariant.
SendingInv ==
    DOMAIN tokens = DOMAIN tokenRow /\ RequestsInv /\ WritesFor /\ StoredInv /\ PhonesInv

-----------------------------------------------------------------------------
\* The invariant is as strong as the properties.
LEMMA SendingInvFollow == SendingInv => SendsFollowSettings /\ PlainWasAllowed
BY DEF SendingInv, RequestsInv, StoredInv, PhonesInv, SendsFollowSettings, SendingTypeOK,
   MailTypes, WritesFor

\* Initially nothing is sent.
LEMMA SendingInitInv == SendingInit => SendingInv
BY DEF SendingInit, SendingInv, RequestsInv, StoredInv, PhonesInv, MailTypes, Seen, PlainAdmitted,
   PlainWasAllowed, HeldAsRead, WritesFor, StoredAsSettingsSay, AnswersStored, TellsOfStored,
   ToldIsStored, SendStep, Admitted, NoMail

\* A step of one request is one of no other.
LEMMA OneSends ==
    ASSUME MailTypes, NEW r \in SendRequest, NEW step \in SendStep, NEW m,
           sending' = [sending EXCEPT ![r] = step], mail' = [mail EXCEPT ![r] = m]
    PROVE  /\ sending' \in [SendRequest -> SendStep] /\ mail' = [q \in SendRequest |-> mail'[q]]
           /\ sending'[r] = step /\ mail'[r] = m
           /\ \A q \in SendRequest : q # r => sending'[q] = sending[q] /\ mail'[q] = mail[q]
BY DEF MailTypes

\* A request's message is kept as it should be by a step of its own.
LEMMA RequestStep ==
    ASSUME RequestsInv, NEW r \in SendRequest, NEW step \in SendStep, NEW m,
           sending' = [sending EXCEPT ![r] = step], mail' = [mail EXCEPT ![r] = m],
           UNCHANGED <<settingVars, tokens>>,
           \A x \in inStore : x \in inStore',
           DOMAIN m = DOMAIN NoMail, (step = "idle") <=> (m = NoMail),
           step # "idle" => /\ m.kind \in MailKind
                            /\ generation = 1 => m.gen1
                            /\ ~encryptDm => m.off,
           step = "first generation" => m.gen1,
           step \in Admitted => Plain(m),
           step \in {"locked", "writing"} =>
               m.expires = burn /\ m.tell \subseteq {tokens[d] : d \in DOMAIN tokens},
           step = "stored" =>
               \E x \in inStore' : x.mid = m.mid /\ ~x.orphan /\ m.tell \subseteq x.mail.tell
    PROVE  RequestsInv'
<1>1. /\ sending' \in [SendRequest -> SendStep] /\ mail' = [q \in SendRequest |-> mail'[q]]
      /\ sending'[r] = step /\ mail'[r] = m
      /\ \A q \in SendRequest : q # r => sending'[q] = sending[q] /\ mail'[q] = mail[q]
  BY OneSends DEF RequestsInv
<1>2. MailTypes'
  BY <1>1 DEF RequestsInv, MailTypes
<1>3. Seen'
  BY <1>1 DEF RequestsInv, Seen, settingVars
<1>4. PlainAdmitted'
  BY <1>1 DEF RequestsInv, PlainAdmitted
<1>5. HeldAsRead'
  <2> DEFINE toks == {tokens[d] : d \in DOMAIN tokens}
  <2>1. toks' = toks /\ burn' = burn
    BY DEF settingVars
  <2>2. \A q \in SendRequest : sending[q] \in {"locked", "writing"} =>
           mail[q].expires = burn /\ mail[q].tell \subseteq toks
    BY DEF RequestsInv, HeldAsRead
  <2>3. step \in {"locked", "writing"} => m.expires = burn /\ m.tell \subseteq toks
    OBVIOUS
  <2> HIDE DEF toks
  <2>4. \A q \in SendRequest : sending'[q] \in {"locked", "writing"} =>
           mail'[q].expires = burn' /\ mail'[q].tell \subseteq toks'
    BY <1>1, <2>1, <2>2, <2>3
  <2> QED
    BY <2>4 DEF HeldAsRead, toks
<1>6. AnswersStored'
  <2> SUFFICES ASSUME NEW q \in SendRequest, sending'[q] = "stored"
               PROVE  IsStored(mail[q].mid, mail[q].tell)'
    BY DEF AnswersStored
  <2>1. CASE q = r
    BY <2>1, <1>1 DEF IsStored
  <2>2. CASE q # r
    BY <2>2, <1>1 DEF RequestsInv, AnswersStored, IsStored
  <2> QED
    BY <2>1, <2>2
<1> QED
  BY <1>2, <1>3, <1>4, <1>5, <1>6 DEF RequestsInv

\* What is stored stays stored.
LEMMA StoredStays ==
    ASSUME \A x \in inStore : x \in inStore', NEW mid, NEW phones, IsStored(mid, phones)
    PROVE  \E m \in inStore' : m.mid = mid /\ ~m.orphan /\ phones \subseteq m.mail.tell
BY DEF IsStored

\* A step that is of no request.
LEMMA RequestsStay ==
    ASSUME RequestsInv, UNCHANGED <<settingVars, tokens, sending, mail>>,
           \A x \in inStore : x \in inStore'
    PROVE  RequestsInv'
<1>1. MailTypes' /\ Seen' /\ PlainAdmitted'
  BY DEF RequestsInv, MailTypes, Seen, PlainAdmitted, settingVars
<1>2. HeldAsRead'
  BY DEF RequestsInv, HeldAsRead, settingVars
<1>3. AnswersStored'
  BY StoredStays DEF RequestsInv, AnswersStored, IsStored
<1> QED
  BY <1>1, <1>2, <1>3 DEF RequestsInv

\* A step of one request that no task writes for leaves all tasks alone.
LEMMA RequestStepInv ==
    ASSUME SendingInv, RequestsInv', NEW r \in SendRequest, sending[r] # "writing",
           \A q \in SendRequest : q # r => sending'[q] = sending[q] /\ mail'[q] = mail[q],
           UNCHANGED <<tokenVars, writing, inStore, pushing, pushed>>
    PROVE  SendingInv'
<1>1. WritesFor'
  BY DEF SendingInv, WritesFor
<1>2. StoredInv' /\ PhonesInv'
  BY DEF SendingInv, StoredInv, PhonesInv, PlainWasAllowed, StoredAsSettingsSay, TellsOfStored,
     ToldIsStored, IsStored
<1> QED
  BY <1>1, <1>2 DEF SendingInv, tokenVars

\* A request begins.
LEMMA BeginSendInv ==
    ASSUME SendingInv, NEW r \in SendRequest, NEW what \in MailKind, BeginSend(r, what)
    PROVE  SendingInv'
<1> DEFINE m == Noted(what, r)
<1>1. /\ sending[r] = "idle"
      /\ sending' = [sending EXCEPT ![r] = "begun"] /\ mail' = [mail EXCEPT ![r] = m]
      /\ UNCHANGED <<settingVars, tokenVars, writing, inStore, pushing, pushed>>
  BY DEF BeginSend, GoTo
<1>2. DOMAIN mail[r] = DOMAIN NoMail
  BY DEF SendingInv, RequestsInv, MailTypes
<1>3. /\ DOMAIN m = DOMAIN NoMail /\ m.kind = what
      /\ generation = 1 => m.gen1
      /\ ~encryptDm => m.off
  BY <1>2 DEF Noted, NoMail
<1>4. m # NoMail
  BY <1>3 DEF NoMail, MailKind
<1>5. "begun" \in SendStep /\ "begun" \notin Admitted \cup {"idle", "first generation"}
  BY DEF SendStep, Admitted
<1> HIDE DEF m
<1>6. RequestsInv'
  BY <1>1, <1>3, <1>4, <1>5, RequestStep DEF SendingInv, tokenVars
<1> QED
  BY <1>1, <1>5, <1>6, OneSends, RequestStepInv DEF SendingInv, RequestsInv

\* A request is refused or goes on with its message.
LEMMA CheckedInv ==
    ASSUME SendingInv, NEW r \in SendRequest, NEW step \in {"first generation", "admitted", "idle"},
           sending[r] \in {"begun", "first generation"},
           sending' = [sending EXCEPT ![r] = step],
           IF step = "idle" THEN mail' = [mail EXCEPT ![r] = NoMail] ELSE UNCHANGED mail,
           step = "first generation" => generation = 1,
           step = "admitted" => Plain(mail[r]),
           UNCHANGED <<settingVars, tokenVars, writing, inStore, pushing, pushed>>
    PROVE  SendingInv'
<1> DEFINE m == IF step = "idle" THEN NoMail ELSE mail[r]
<1>1. mail' = [mail EXCEPT ![r] = m] /\ step \in SendStep
  BY DEF SendingInv, RequestsInv, MailTypes, SendStep, Admitted
<1>2. /\ DOMAIN m = DOMAIN NoMail /\ (step = "idle" <=> m = NoMail)
      /\ step # "idle" => m = mail[r] /\ mail[r].kind \in MailKind
  BY DEF SendingInv, RequestsInv, MailTypes
<1>3. step # "idle" => (generation = 1 => m.gen1) /\ (~encryptDm => m.off)
  BY <1>2 DEF SendingInv, RequestsInv, Seen
<1>4. /\ step = "first generation" => m.gen1
      /\ step \in Admitted => Plain(m)
  BY <1>3 DEF Admitted
<1> HIDE DEF m
<1>5. RequestsInv'
  BY <1>1, <1>2, <1>3, <1>4, RequestStep DEF SendingInv, tokenVars
<1> QED
  BY <1>1, <1>5, OneSends, RequestStepInv DEF SendingInv, RequestsInv

\* The generation is read.
LEMMA CheckGenerationInv ==
    ASSUME SendingInv, NEW r \in SendRequest, CheckGeneration(r)
    PROVE  SendingInv'
<1>1. CASE mail[r].kind = "encrypted"
  BY <1>1, CheckedInv DEF CheckGeneration, GoTo, Plain
<1>2. CASE mail[r].kind # "encrypted" /\ generation = 1
  BY <1>2, CheckedInv DEF CheckGeneration, GoTo
<1>3. CASE mail[r].kind # "encrypted" /\ generation # 1
  BY <1>3, CheckedInv DEF CheckGeneration, GoTo
<1> QED
  BY <1>1, <1>2, <1>3

\* The setting of the two users is read.
LEMMA CheckDmInv ==
    ASSUME SendingInv, NEW r \in SendRequest, CheckDm(r)
    PROVE  SendingInv'
<1>1. CASE encryptDm
  BY <1>1, CheckedInv DEF CheckDm, GoTo
<1>2. CASE ~encryptDm
  <2>1. mail[r].gen1 /\ mail[r].off
    BY <1>2 DEF CheckDm, SendingInv, RequestsInv, PlainAdmitted, Seen
  <2> QED
    BY <1>2, <2>1, CheckedInv DEF CheckDm, GoTo, Plain
<1> QED
  BY <1>1, <1>2

\* The cache is locked and read.
LEMMA LockCacheInv ==
    ASSUME SendingInv, NEW r \in SendRequest, LockCache(r)
    PROVE  SendingInv'
<1> DEFINE toks == {tokens[d] : d \in DOMAIN tokens}
           told == IF Told(mail[r].kind) /\ ~muting THEN toks \ {NoToken} ELSE {}
           m == [mail[r] EXCEPT !.expires = burn, !.tell = told]
<1>1. /\ sending[r] = "admitted"
      /\ sending' = [sending EXCEPT ![r] = "locked"] /\ mail' = [mail EXCEPT ![r] = m]
      /\ UNCHANGED <<settingVars, tokenVars, writing, inStore, pushing, pushed>>
  BY DEF LockCache, GoTo
<1>2. told \subseteq toks
  OBVIOUS
<1> HIDE DEF told
<1>3. /\ DOMAIN mail[r] = DOMAIN NoMail /\ mail[r] # NoMail /\ mail[r].kind \in MailKind
      /\ (generation = 1 => mail[r].gen1) /\ (~encryptDm => mail[r].off)
      /\ Plain(mail[r])
  BY <1>1 DEF SendingInv, RequestsInv, MailTypes, Seen, PlainAdmitted, Admitted
<1>4. /\ DOMAIN m = DOMAIN NoMail /\ m.expires = burn /\ m.tell = told
      /\ m.kind = mail[r].kind /\ m.gen1 = mail[r].gen1 /\ m.off = mail[r].off
  BY <1>3 DEF NoMail
<1>5. m # NoMail
  BY <1>3, <1>4 DEF NoMail, MailKind
<1>6. "locked" \in SendStep /\ "locked" \notin {"idle", "first generation", "stored"}
  BY DEF SendStep, Admitted
<1> HIDE DEF m
<1>7. Plain(m)
  BY <1>3, <1>4, Zenon DEF Plain
<1>8. (generation = 1 => m.gen1) /\ (~encryptDm => m.off)
  BY <1>3, <1>4, Zenon
<1>9. RequestsInv'
  BY <1>1, <1>2, <1>3, <1>4, <1>5, <1>6, <1>7, <1>8, RequestStep DEF SendingInv, tokenVars
<1> QED
  BY <1>1, <1>6, <1>9, OneSends, RequestStepInv DEF SendingInv, RequestsInv

\* The blocking task is started.
LEMMA StartWriteInv ==
    ASSUME SendingInv, NEW r \in SendRequest, StartWrite(r)
    PROVE  SendingInv'
<1> DEFINE new == [by |-> r, waits |-> TRUE, mail |-> mail[r]]
<1>1. /\ sending[r] = "locked"
      /\ sending' = [sending EXCEPT ![r] = "writing"] /\ mail' = [mail EXCEPT ![r] = mail[r]]
      /\ mail' = mail
      /\ writing' = writing \cup {new}
      /\ UNCHANGED <<settingVars, tokenVars, inStore, pushing, pushed>>
  BY DEF StartWrite, GoTo, SendingInv, RequestsInv, MailTypes
<1>2. /\ DOMAIN mail[r] = DOMAIN NoMail /\ mail[r] # NoMail /\ mail[r].kind \in MailKind
      /\ (generation = 1 => mail[r].gen1) /\ (~encryptDm => mail[r].off)
      /\ Plain(mail[r])
      /\ mail[r].expires = burn /\ mail[r].tell \subseteq {tokens[d] : d \in DOMAIN tokens}
  BY <1>1 DEF SendingInv, RequestsInv, MailTypes, Seen, PlainAdmitted, Admitted, HeldAsRead
<1>3. "writing" \in SendStep /\ "writing" \notin {"idle", "first generation", "stored"}
  BY DEF SendStep, Admitted
<1>4. RequestsInv'
  BY <1>1, <1>2, <1>3, RequestStep DEF SendingInv, tokenVars
<1>5. /\ sending'[r] = "writing"
      /\ \A q \in SendRequest : q # r => sending'[q] = sending[q]
  BY <1>1, <1>3, OneSends DEF SendingInv, RequestsInv
<1>6. WritesFor'
  <2>1. DOMAIN new = {"by", "waits", "mail"} /\ new.by = r /\ new.mail = mail[r]
    OBVIOUS
  <2>2. \A w \in writing : w.waits => w.by # r
    BY <1>1 DEF SendingInv, WritesFor
  <2> HIDE DEF new
  <2>3. \A w \in writing' : DOMAIN w = {"by", "waits", "mail"} /\ Plain(w.mail)
    BY <1>1, <1>2, <2>1 DEF SendingInv, WritesFor
  <2>4. \A w \in writing' : w.waits =>
            /\ w.by \in SendRequest /\ sending'[w.by] = "writing"
            /\ w.mail.expires = mail[w.by].expires /\ w.mail.tell = mail[w.by].tell
    BY <1>1, <1>5, <2>1 DEF SendingInv, WritesFor
  <2>5. \A v, w \in writing' : v.waits /\ w.waits /\ v.by = w.by => v = w
    BY <1>1, <2>1, <2>2 DEF SendingInv, WritesFor
  <2> QED
    BY <1>1, <2>3, <2>4, <2>5 DEF WritesFor
<1>7. StoredInv' /\ PhonesInv'
  BY <1>1 DEF SendingInv, StoredInv, PhonesInv, PlainWasAllowed, StoredAsSettingsSay, TellsOfStored,
     ToldIsStored, IsStored
<1> QED
  BY <1>1, <1>4, <1>6, <1>7 DEF SendingInv, tokenVars

\* The message is stored, whether or not its sender still waits.
LEMMA StoreInv ==
    ASSUME SendingInv, NEW w \in writing, Store(w)
    PROVE  SendingInv'
<1> DEFINE mid == Cardinality(inStore) + 1
           toks == {tokens[d] : d \in DOMAIN tokens}
           new == [mid |-> mid, mail |-> w.mail, orphan |-> ~w.waits, burnThen |-> burn,
                   phonesThen |-> toks]
           r == w.by
<1>1. /\ writing' = writing \ {w} /\ inStore' = inStore \cup {new}
      /\ UNCHANGED <<settingVars, tokenVars, pushing, pushed>>
  BY DEF Store
<1>2. IF w.waits THEN /\ sending' = [sending EXCEPT ![r] = "stored"]
                      /\ mail' = [mail EXCEPT ![r] = [mail[r] EXCEPT !.mid = mid]]
                 ELSE UNCHANGED <<sending, mail>>
  BY DEF Store, GoTo
<1>3. /\ new.mid = mid /\ new.mail = w.mail /\ new.burnThen = burn /\ new.phonesThen = toks
      /\ new.orphan <=> ~w.waits
  OBVIOUS
<1>4. /\ Plain(w.mail)
      /\ w.waits => /\ r \in SendRequest /\ sending[r] = "writing"
                    /\ w.mail.expires = mail[r].expires /\ w.mail.tell = mail[r].tell
                    /\ mail[r].expires = burn /\ mail[r].tell \subseteq toks
  BY DEF SendingInv, WritesFor, RequestsInv, HeldAsRead
<1> HIDE DEF new, toks, mid
<1>5. StoredInv'
  BY <1>1, <1>3, <1>4
  DEF SendingInv, StoredInv, PlainWasAllowed, StoredAsSettingsSay, Plain
<1>6. PhonesInv'
  BY <1>1 DEF SendingInv, PhonesInv, TellsOfStored, ToldIsStored, IsStored
<1>7. CASE ~w.waits
  <2>1. RequestsInv'
    BY <1>1, <1>2, <1>7, RequestsStay DEF SendingInv, tokenVars
  <2>2. WritesFor'
    BY <1>1, <1>2, <1>7 DEF SendingInv, WritesFor
  <2> QED
    BY <1>1, <1>5, <1>6, <2>1, <2>2 DEF SendingInv, tokenVars
<1>8. CASE w.waits
  <2> DEFINE m == [mail[r] EXCEPT !.mid = mid]
  <2>1. /\ DOMAIN mail[r] = DOMAIN NoMail /\ mail[r] # NoMail /\ mail[r].kind \in MailKind
        /\ (generation = 1 => mail[r].gen1) /\ (~encryptDm => mail[r].off)
        /\ Plain(mail[r])
    BY <1>4, <1>8 DEF SendingInv, RequestsInv, MailTypes, Seen, PlainAdmitted, Admitted
  <2>2. /\ DOMAIN m = DOMAIN NoMail /\ m.mid = mid /\ m.tell = mail[r].tell
        /\ m.kind = mail[r].kind /\ m.gen1 = mail[r].gen1 /\ m.off = mail[r].off
    BY <2>1 DEF NoMail
  <2>3. m # NoMail
    BY <2>1, <2>2 DEF NoMail, MailKind
  <2>4. "stored" \in SendStep /\ "stored" \notin {"idle", "first generation", "locked", "writing"}
    BY DEF SendStep, Admitted
  <2>5. sending' = [sending EXCEPT ![r] = "stored"] /\ mail' = [mail EXCEPT ![r] = m]
    BY <1>2, <1>8
  <2> HIDE DEF m
  <2>6. Plain(m)
    BY <2>1, <2>2, Zenon DEF Plain
  <2>7. (generation = 1 => m.gen1) /\ (~encryptDm => m.off)
    BY <2>1, <2>2, Zenon
  <2>8. \E x \in inStore' : x.mid = m.mid /\ ~x.orphan /\ m.tell \subseteq x.mail.tell
    BY <1>1, <1>3, <1>4, <1>8, <2>2
  <2>9. RequestsInv'
    <3>1. /\ RequestsInv /\ r \in SendRequest /\ m.kind \in MailKind
          /\ UNCHANGED <<settingVars, tokens>>
          /\ \A x \in inStore : x \in inStore'
      BY <1>1, <1>4, <1>8, <2>1, <2>2 DEF SendingInv, tokenVars
    <3> QED
      BY <2>2, <2>3, <2>4, <2>5, <2>6, <2>7, <2>8, <3>1, RequestStep
  <2>10. /\ \A q \in SendRequest : q # r => sending'[q] = sending[q] /\ mail'[q] = mail[q]
    BY <1>4, <1>8, <2>4, <2>5, OneSends DEF SendingInv, RequestsInv
  <2>11. WritesFor'
    <3>1. \A v \in writing' : v.waits => v.by # r
      BY <1>1, <1>8 DEF SendingInv, WritesFor
    <3> QED
      BY <1>1, <2>10, <3>1 DEF SendingInv, WritesFor
  <2> QED
    BY <1>1, <1>5, <1>6, <2>9, <2>11 DEF SendingInv, tokenVars
<1> QED
  BY <1>7, <1>8

\* A request ends, of which nothing is left: with its answer or without it.
LEMMA EndOfRequest ==
    ASSUME RequestsInv, NEW r \in SendRequest,
           sending' = [sending EXCEPT ![r] = "idle"], mail' = [mail EXCEPT ![r] = NoMail],
           UNCHANGED <<settingVars, tokens, inStore>>
    PROVE  /\ RequestsInv'
           /\ sending'[r] = "idle"
           /\ \A q \in SendRequest : q # r => sending'[q] = sending[q] /\ mail'[q] = mail[q]
<1>1. "idle" \in SendStep /\ "idle" \notin Admitted
  BY DEF SendStep, Admitted
<1>2. RequestsInv'
  BY <1>1, RequestStep
<1> QED
  BY <1>1, <1>2, OneSends DEF RequestsInv

\* The sender is answered, and a task tells the phones.
LEMMA NotifyAndAnswerInv ==
    ASSUME SendingInv, NEW r \in SendRequest, NotifyAndAnswer(r)
    PROVE  SendingInv'
<1> DEFINE new == [mid |-> mail[r].mid, left |-> mail[r].tell, next |-> NoToken]
<1>1. /\ sending[r] = "stored"
      /\ sending' = [sending EXCEPT ![r] = "idle"] /\ mail' = [mail EXCEPT ![r] = NoMail]
      /\ UNCHANGED <<settingVars, tokenVars, writing, inStore, pushed>>
      /\ pushing' \subseteq pushing \cup {new}
  BY DEF NotifyAndAnswer, GoTo
<1>2. RequestsInv' /\ \A q \in SendRequest : q # r => sending'[q] = sending[q] /\ mail'[q] = mail[q]
  BY <1>1, EndOfRequest DEF SendingInv, tokenVars
<1>3. WritesFor'
  BY <1>1, <1>2 DEF SendingInv, WritesFor
<1>4. PhonesInv'
  <2>1. /\ DOMAIN new = {"mid", "left", "next"} /\ new.next = NoToken
        /\ IsStored(new.mid, new.left)
    BY <1>1 DEF SendingInv, RequestsInv, AnswersStored
  <2> HIDE DEF new
  <2>2. \A mid, phones : IsStored(mid, phones) => IsStored(mid, phones)'
    BY <1>1 DEF IsStored
  <2>3. TellsOfStored'
    BY <1>1, <2>1, <2>2 DEF SendingInv, PhonesInv, TellsOfStored
  <2> QED
    BY <1>1, <2>3 DEF SendingInv, PhonesInv, ToldIsStored
<1> QED
  BY <1>1, <1>2, <1>3, <1>4
  DEF SendingInv, StoredInv, PlainWasAllowed, StoredAsSettingsSay, tokenVars

\* The sender hangs up, and its task waits for nobody.
LEMMA HangUpSendInv ==
    ASSUME SendingInv, NEW r \in SendRequest, HangUpSend(r)
    PROVE  SendingInv'
<1> DEFINE left(w) == IF w.by = r THEN [w EXCEPT !.waits = FALSE] ELSE w
<1>1. /\ sending' = [sending EXCEPT ![r] = "idle"] /\ mail' = [mail EXCEPT ![r] = NoMail]
      /\ UNCHANGED <<settingVars, tokenVars, inStore, pushing, pushed>>
      /\ writing' = {left(w) : w \in writing}
  BY DEF HangUpSend, GoTo
<1>2. RequestsInv' /\ \A q \in SendRequest : q # r => sending'[q] = sending[q] /\ mail'[q] = mail[q]
  BY <1>1, EndOfRequest DEF SendingInv, tokenVars
<1>3. WritesFor'
  <2>1. \A w \in writing : /\ DOMAIN left(w) = {"by", "waits", "mail"}
                           /\ left(w).mail = w.mail /\ left(w).by = w.by
                           /\ left(w).waits => w.by # r /\ left(w) = w
    BY DEF SendingInv, WritesFor
  <2> HIDE DEF left
  <2>2. \A w \in writing' : DOMAIN w = {"by", "waits", "mail"} /\ Plain(w.mail)
    BY <1>1, <2>1 DEF SendingInv, WritesFor
  <2>3. \A w \in writing' : w.waits => w \in writing /\ w.by # r
    BY <1>1, <2>1
  <2>4. \A w \in writing' : w.waits =>
            /\ w.by \in SendRequest /\ sending'[w.by] = "writing"
            /\ w.mail.expires = mail'[w.by].expires /\ w.mail.tell = mail'[w.by].tell
    BY <1>2, <2>3 DEF SendingInv, WritesFor
  <2>5. \A v, w \in writing' : v.waits /\ w.waits /\ v.by = w.by => v = w
    BY <2>3 DEF SendingInv, WritesFor
  <2> QED
    BY <2>2, <2>4, <2>5 DEF WritesFor
<1> QED
  BY <1>1, <1>2, <1>3
  DEF SendingInv, StoredInv, PhonesInv, PlainWasAllowed, StoredAsSettingsSay, TellsOfStored,
      ToldIsStored, IsStored, tokenVars

\* A step that leaves requests, settings and tokens alone.
LEMMA SendersStay ==
    ASSUME SendingInv, UNCHANGED <<settingVars, tokenVars, sending, mail, writing, inStore>>
    PROVE  /\ (DOMAIN tokens = DOMAIN tokenRow)' /\ RequestsInv' /\ WritesFor' /\ StoredInv'
           /\ \A mid, phones : IsStored(mid, phones)' <=> IsStored(mid, phones)
<1>1. RequestsInv'
  BY RequestsStay DEF SendingInv, tokenVars
<1>2. WritesFor' /\ StoredInv'
  BY DEF SendingInv, WritesFor, StoredInv, PlainWasAllowed, StoredAsSettingsSay
<1> QED
  BY <1>1, <1>2 DEF SendingInv, IsStored, tokenVars

\* A task takes a token that is left.
LEMMA TakeTokenInv ==
    ASSUME SendingInv, NEW task \in pushing, NEW t \in PushToken, TakeToken(task, t)
    PROVE  SendingInv'
<1> DEFINE step == IF t \in invalid THEN NoToken ELSE t
           new == [task EXCEPT !.left = task.left \ {t}, !.next = step]
<1>1. /\ t \in task.left /\ pushing' = (pushing \ {task}) \cup {new}
      /\ UNCHANGED <<settingVars, tokenVars, sending, mail, writing, inStore, pushed>>
  BY DEF TakeToken, Becomes
<1>2. DOMAIN task = {"mid", "left", "next"} /\ IsStored(task.mid, task.left)
  BY DEF SendingInv, PhonesInv, TellsOfStored
<1>3. /\ DOMAIN new = {"mid", "left", "next"}
      /\ new.mid = task.mid /\ new.left = task.left \ {t} /\ new.next = step
  BY <1>2
<1>4. step # NoToken => step = t
  OBVIOUS
<1> HIDE DEF new, step
<1>5. /\ IsStored(new.mid, new.left)
      /\ new.next # NoToken => IsStored(new.mid, new.left \cup {new.next})
  BY <1>1, <1>2, <1>3, <1>4 DEF IsStored
<1>6. PhonesInv'
  BY <1>1, <1>3, <1>5, SendersStay DEF SendingInv, PhonesInv, TellsOfStored, ToldIsStored
<1> QED
  BY <1>1, <1>6, SendersStay DEF SendingInv

\* A phone is told.
LEMMA PushInv ==
    ASSUME SendingInv, NEW task \in pushing, NEW good \in BOOLEAN, Push(task, good)
    PROVE  SendingInv'
<1> DEFINE new == [task EXCEPT !.next = NoToken]
           note == [mid |-> task.mid, token |-> task.next]
<1>1. /\ task.next # NoToken /\ pushing' = (pushing \ {task}) \cup {new}
      /\ pushed' = pushed \cup {note}
      /\ UNCHANGED <<settingVars, tokenVars, sending, mail, writing, inStore>>
  BY DEF Push, Becomes
<1>2. /\ DOMAIN task = {"mid", "left", "next"} /\ IsStored(task.mid, task.left)
      /\ IsStored(task.mid, task.left \cup {task.next})
  BY <1>1 DEF SendingInv, PhonesInv, TellsOfStored
<1>3. /\ DOMAIN new = {"mid", "left", "next"}
      /\ new.mid = task.mid /\ new.left = task.left /\ new.next = NoToken
      /\ note.mid = task.mid /\ note.token = task.next
  BY <1>2
<1> HIDE DEF new, note
<1>4. TellsOfStored'
  BY <1>1, <1>2, <1>3, SendersStay DEF SendingInv, PhonesInv, TellsOfStored
<1>5. ToldIsStored'
  <2>1. \E m \in inStore : m.mid = note.mid /\ ~m.orphan /\ note.token \in m.mail.tell
    BY <1>2, <1>3 DEF IsStored
  <2> QED
    BY <1>1, <2>1 DEF SendingInv, PhonesInv, ToldIsStored
<1> QED
  BY <1>1, <1>4, <1>5, SendersStay DEF SendingInv, PhonesInv

\* A task ends.
LEMMA EndPushInv ==
    ASSUME SendingInv, NEW task \in pushing, EndPush(task)
    PROVE  SendingInv'
<1>1. /\ pushing' = pushing \ {task}
      /\ UNCHANGED <<settingVars, tokenVars, sending, mail, writing, inStore, pushed>>
  BY DEF EndPush, Becomes
<1>2. PhonesInv'
  BY <1>1, SendersStay DEF SendingInv, PhonesInv, TellsOfStored, ToldIsStored
<1> QED
  BY <1>1, <1>2, SendersStay DEF SendingInv

-----------------------------------------------------------------------------
\* A message of a request under way notes the settings as they become.
LEMMA SwitchedMail ==
    ASSUME MailTypes, Switched, NEW r \in SendRequest
    PROVE  /\ DOMAIN mail'[r] = DOMAIN NoMail /\ mail'[r].kind = mail[r].kind
           /\ mail'[r].expires = mail[r].expires /\ mail'[r].tell = mail[r].tell
           /\ mail'[r].mid = mail[r].mid
           /\ sending[r] = "idle" => mail'[r] = NoMail
           /\ (mail[r].gen1 => mail'[r].gen1) /\ (mail[r].off => mail'[r].off)
           /\ sending[r] # "idle" => /\ generation' = 1 => mail'[r].gen1
                                     /\ ~encryptDm' => mail'[r].off
<1> DEFINE seen == [mail[r] EXCEPT !.gen1 = mail[r].gen1 \/ generation' = 1,
                                   !.off = mail[r].off \/ ~encryptDm']
<1>1. mail'[r] = IF sending[r] = "idle" THEN mail[r] ELSE seen
  BY DEF Switched
<1>2. DOMAIN mail[r] = DOMAIN NoMail /\ (sending[r] = "idle" => mail[r] = NoMail)
  BY DEF MailTypes
<1>3. /\ DOMAIN seen = DOMAIN NoMail
      /\ seen.kind = mail[r].kind /\ seen.expires = mail[r].expires
      /\ seen.tell = mail[r].tell /\ seen.mid = mail[r].mid
      /\ (mail[r].gen1 => seen.gen1) /\ (mail[r].off => seen.off)
      /\ (generation' = 1 => seen.gen1) /\ (~encryptDm' => seen.off)
  BY <1>2 DEF NoMail
<1> HIDE DEF seen
<1>4. CASE sending[r] = "idle"
  BY <1>1, <1>2, <1>4
<1>5. CASE sending[r] # "idle"
  <2>1. mail'[r] = seen
    BY <1>1, <1>5
  <2> QED
    BY <1>3, <1>5, <2>1
<1> QED
  BY <1>4, <1>5

\* A setting changes: one that is in the cache, while nobody holds it.
LEMMA SwitchedInv ==
    ASSUME SendingInv, Switched, burn' = burn \/ Free
    PROVE  SendingInv'
<1>1. /\ mail' = [r \in SendRequest |-> mail'[r]]
      /\ UNCHANGED <<tokenVars, sending, writing, inStore, pushing, pushed>>
  BY DEF Switched
<1>2. \A r \in SendRequest :
         /\ DOMAIN mail'[r] = DOMAIN NoMail /\ mail'[r].kind = mail[r].kind
         /\ mail'[r].expires = mail[r].expires /\ mail'[r].tell = mail[r].tell
         /\ mail'[r].mid = mail[r].mid
         /\ sending[r] = "idle" => mail'[r] = NoMail
         /\ (mail[r].gen1 => mail'[r].gen1) /\ (mail[r].off => mail'[r].off)
         /\ sending[r] # "idle" => /\ generation' = 1 => mail'[r].gen1
                                   /\ ~encryptDm' => mail'[r].off
  BY SwitchedMail DEF SendingInv, RequestsInv
<1>3. \A r \in SendRequest : sending[r] \in {"locked", "writing"} => burn' = burn
  BY DEF Free, Holding
<1>4. MailTypes'
  <2>1. \A r \in SendRequest :
           sending[r] # "idle" => mail'[r] # NoMail /\ mail'[r].kind \in MailKind
    BY <1>2 DEF SendingInv, RequestsInv, MailTypes, NoMail, MailKind
  <2> QED
    BY <1>1, <1>2, <2>1 DEF SendingInv, RequestsInv, MailTypes
<1>5. Seen' /\ PlainAdmitted'
  BY <1>1, <1>2 DEF SendingInv, RequestsInv, Seen, PlainAdmitted, Plain
<1>6. HeldAsRead'
  BY <1>1, <1>2, <1>3 DEF SendingInv, RequestsInv, HeldAsRead, tokenVars
<1>7. AnswersStored'
  BY <1>1, <1>2 DEF SendingInv, RequestsInv, AnswersStored, IsStored
<1>8. WritesFor'
  BY <1>1, <1>2 DEF SendingInv, WritesFor
<1> QED
  BY <1>1, <1>4, <1>5, <1>6, <1>7, <1>8
  DEF SendingInv, RequestsInv, StoredInv, PhonesInv, PlainWasAllowed, StoredAsSettingsSay,
      TellsOfStored, ToldIsStored, IsStored, tokenVars

\* The tokens of a phone change while nobody holds the cache.
LEMMA TokensInv ==
    ASSUME SendingInv, Free, DOMAIN tokens' = DOMAIN tokenRow',
           UNCHANGED <<generation, encryptDm, burn, sending, mail, writing, inStore, pushing,
                       pushed>>
    PROVE  SendingInv'
<1>1. HeldAsRead'
  BY DEF Free, Holding, HeldAsRead
<1> QED
  BY <1>1
  DEF SendingInv, RequestsInv, StoredInv, PhonesInv, MailTypes, Seen, PlainAdmitted, AnswersStored,
      IsStored, WritesFor, PlainWasAllowed, StoredAsSettingsSay, TellsOfStored, ToldIsStored

\* The server starts anew, and what was under way is lost.
LEMMA RestartSendingInv == ASSUME SendingInv, RestartSending PROVE SendingInv'
<1>1. /\ \A r \in SendRequest : sending'[r] = "idle" /\ mail'[r] = NoMail
      /\ sending' \in [SendRequest -> SendStep] /\ mail' = [r \in SendRequest |-> mail'[r]]
      /\ writing' = {} /\ pushing' = {} /\ tokens' = tokenRow
      /\ UNCHANGED <<settingVars, tokenRow, inStore, pushed>>
  BY DEF RestartSending, SendStep
<1>2. RequestsInv' /\ WritesFor'
  BY <1>1 DEF RequestsInv, MailTypes, Seen, PlainAdmitted, HeldAsRead, AnswersStored, WritesFor,
     Admitted
<1> QED
  BY <1>1, <1>2
  DEF SendingInv, StoredInv, PhonesInv, PlainWasAllowed, StoredAsSettingsSay, TellsOfStored,
      ToldIsStored

\* Every step keeps the invariant.
LEMMA SendingNextInv == ASSUME SendingInv, [SendingNext]_sendVars PROVE SendingInv'
<1>1. CASE UNCHANGED sendVars
  <2>1. UNCHANGED <<settingVars, tokenVars, sending, mail, writing, inStore, pushing, pushed>>
    BY <1>1 DEF sendVars
  <2>2. PhonesInv'
    BY <2>1, SendersStay DEF SendingInv, PhonesInv, TellsOfStored, ToldIsStored
  <2> QED
    BY <2>1, <2>2, SendersStay DEF SendingInv
<1>2. ASSUME NEW on \in BOOLEAN, PutDmSetting(on) PROVE SendingInv'
  BY <1>2, SwitchedInv DEF PutDmSetting
<1>3. ASSUME NEW n \in {1, 2}, SetGeneration(n) PROVE SendingInv'
  BY <1>3, SwitchedInv DEF SetGeneration
<1>4. ASSUME NEW n \in {0, 1}, SetBurn(n) PROVE SendingInv'
  BY <1>4, SwitchedInv DEF SetBurn
<1>5. ASSUME MuteSender PROVE SendingInv'
  BY <1>5, SwitchedInv DEF MuteSender
<1>6. ASSUME NEW d \in Phone, NEW t \in PushToken \cup {NoToken}, NEW cut \in BOOLEAN,
             UpdateDeviceToken(d, t, cut)
      PROVE  SendingInv'
  BY <1>6, TokensInv DEF UpdateDeviceToken, SendingInv
<1>7. ASSUME NEW d \in Phone, DropDevice(d) PROVE SendingInv'
  BY <1>7, TokensInv DEF DropDevice, SendingInv, settingVars
<1>8. ASSUME ExpireFile PROVE SendingInv'
  <2>1. UNCHANGED <<settingVars, tokenVars, sending, mail, writing, inStore, pushing, pushed>>
    BY <1>8 DEF ExpireFile
  <2>2. PhonesInv'
    BY <2>1, SendersStay DEF SendingInv, PhonesInv, TellsOfStored, ToldIsStored
  <2> QED
    BY <2>1, <2>2, SendersStay DEF SendingInv
<1>9. CASE SendingNext
  BY <1>2, <1>3, <1>4, <1>5, <1>6, <1>7, <1>8, <1>9, BeginSendInv, CheckGenerationInv, CheckDmInv,
     LockCacheInv, StartWriteInv, StoreInv, NotifyAndAnswerInv, HangUpSendInv, TakeTokenInv,
     PushInv, EndPushInv, RestartSendingInv
  DEF SendingNext, MailKind
<1> QED
  BY <1>1, <1>9

\* The invariant, for the theorems.
LEMMA SendingIsInv == SendingSpec => []SendingInv
BY SendingInitInv, SendingNextInv, PTL DEF SendingSpec

\* Plain text is stored only if it was allowed while it was sent: with settings
\* and the generation that change between the checks and the store
\* (enforce_e2e_required, send_message).
THEOREM PlainTextWasAllowed == SendingSpec => []PlainWasAllowed
BY SendingIsInv, SendingInvFollow, PTL

\* A message burns as the sender's setting says when it is stored, and only
\* phones that are signed in then are told, of messages that are stored: while
\* settings and tokens change, and senders hang up (send_message, send_notify).
THEOREM MessagesSentAsSet == SendingSpec => []SendsFollowSettings
BY SendingIsInv, SendingInvFollow, PTL

(***************************************************************************)
(* An upload that was answered is whole and is what the answer says.       *)
(***************************************************************************)
\* Where a request is; from "open" on it has the file open, from "written" on
\* its chunk is in the file.
AfterWrite == {"written", "sized", "hashed", "moved", "thumbnail", "answer"}
HasFile == {"open"} \cup AfterWrite
Path == {"idle", "exists"} \cup HasFile

Body == Seq(1 .. Chunks) \cup {NoFile}
UploadJob == [chunk : 0 .. Chunks, inode : Inode \cup {0}, size : Nat, hash : Body]

UploadTypes ==
    /\ content \in [Inode -> Body]
    /\ {tmp, saved} \subseteq Inode \cup {0}
    /\ at \in [Request -> Path]
    /\ job \in [Request -> UploadJob]
    /\ got \in 0 .. Chunks /\ sent \in 0 .. Chunks /\ got <= sent
    /\ repeats \in 0 .. MaxRepeats

\* A file is in one place, and inodes are made one after the other.
FilesInPlace ==
    /\ tmp # 0 => tmp # saved /\ content[tmp] # NoFile
    /\ saved # 0 => content[saved] # NoFile
    /\ \E n \in Inode : \A i \in Inode : content[i] # NoFile <=> i <= n

\* The file that prepare has made is the only one so far.
OneFile == \A i \in Inode : content[i] # NoFile => i = 1

\* A request that runs has a chunk that was sent, and a file that is there.
JobIsWhole(r) ==
    /\ at[r] = "idle" <=> job[r] = NoJob
    /\ at[r] # "idle" => job[r].chunk \in 1 .. sent
    /\ at[r] \in {"exists", "open"} => job[r].chunk <= got + 1
    /\ at[r] \in HasFile => job[r].inode # 0 /\ content[job[r].inode] # NoFile

\* The request has the answer to the last chunk in hand.
HasAnswer(r) == at[r] = "answer" /\ IsLast(r)

\* Whoever measured the only file knows its size and hash, as long as nobody
\* wrote to it afterwards.
MeasuredRight ==
    OneFile /\ ~late =>
        /\ \A r \in Request :
            /\ at[r] \in {"sized", "hashed", "moved", "thumbnail"} \/ HasAnswer(r) =>
                job[r].size = Len(content[1])
            /\ at[r] \in {"hashed", "moved", "thumbnail"} \/ HasAnswer(r) =>
                job[r].hash = content[1]
        /\ answer # NoAnswer => answer.hash = content[1] /\ answer.size = Len(content[1])

\* The chunks up to number c are in the file, each after those before it.
InOrderTo(file, c) ==
    \A i \in 1 .. c : \E n \in DOMAIN file :
        file[n] = i /\ \A j \in 1 .. i - 1 : \E m \in 1 .. n - 1 : file[m] = j

\* The only file has what was answered, and what a request has written.
ChunksAreIn ==
    OneFile =>
        /\ InOrderTo(content[1], got)
        /\ \A r \in Request : at[r] \in AfterWrite => InOrderTo(content[1], job[r].chunk)
        /\ answer # NoAnswer => InOrderTo(content[1], Chunks)

\* What a request has moved is in place for good.
MovedIsInPlace ==
    /\ \A r \in Request :
        /\ at[r] \in {"moved", "thumbnail"} \/ HasAnswer(r) => saved # 0
        /\ at[r] = "thumbnail" \/ HasAnswer(r) => savedMeta
        /\ HasAnswer(r) => image # "broken" /\ (image = "yes" => thumbnail)
    /\ AnsweredIsComplete

\* A description without its file is about to be moved or removed.
LeftoverIsHandled ==
    ~cutMove /\ tmpMeta /\ tmp = 0 => clearing = "removed" \/ \E r \in Request : at[r] = "moved"

\* The inductive invariant.
UploadsInv ==
    /\ UploadTypes
    /\ FilesInPlace
    /\ \A r \in Request : JobIsWhole(r)
    /\ MeasuredRight
    /\ ChunksAreIn
    /\ MovedIsInPlace
    /\ LeftoverIsHandled

-----------------------------------------------------------------------------

\* The parts of a job.
LEMMA UploadJobFacts ==
    ASSUME UploadsInv, NEW r \in Request
    PROVE  /\ at[r] \in Path /\ job[r] \in UploadJob
           /\ job[r].chunk \in 0 .. Chunks /\ job[r].inode \in Inode \cup {0}
           /\ job[r].size \in Nat /\ job[r].hash \in Body
BY DEF UploadsInv, UploadTypes, UploadJob

\* The bounds.
LEMMA UploadBounds == Chunks \in Nat \ {0} /\ MaxInode \in Nat \ {0} /\ MaxRepeats \in Nat \ {0}
BY UploadsAssumption

\* A sequence has elements of its set.
LEMMA InTheSequence == ASSUME NEW S, NEW s \in Seq(S), NEW n \in 1 .. Len(s) PROVE s[n] \in S
OBVIOUS

\* A file that is there is a sequence of chunks, and stays one when it grows.
LEMMA FileFacts ==
    ASSUME NEW file \in Body, file # NoFile, NEW c \in 1 .. Chunks
    PROVE  /\ file \in Seq(1 .. Chunks) /\ Len(file) \in Nat
           /\ DOMAIN file = 1 .. Len(file)
           /\ Append(file, c) \in Seq(1 .. Chunks)
           /\ Append(file, c) \in Body /\ Append(file, c) # NoFile
<1>1. file \in Seq(1 .. Chunks)
  BY DEF Body
<1>2. Append(file, c) \in Seq(1 .. Chunks)
  BY <1>1
<1>3. Append(file, c) # NoFile
  <2>1. NoFile \notin Seq(1 .. Chunks)
    <3> SUFFICES ASSUME NoFile \in Seq(1 .. Chunks) PROVE FALSE
      OBVIOUS
    <3>1. Len(NoFile) = 1 /\ NoFile[1] = 0
      BY DEF NoFile
    <3>2. 1 \in 1 .. Len(NoFile)
      BY <3>1
    <3>4. NoFile[1] \in 1 .. Chunks
      BY <3>2, InTheSequence
    <3> QED BY <3>1, <3>4, UploadBounds
  <2> QED BY <1>2, <2>1
<1> QED BY <1>1, <1>2, <1>3 DEF Body

\* The empty file is a file.
LEMMA EmptyFile == <<>> \in Body /\ <<>> # NoFile
BY DEF Body, NoFile

\* NoFile is the content of no file.
LEMMA NoFileInBody == NoFile \in Body
BY DEF Body

\* A chunk that is appended is after the chunks before it.
LEMMA InOrderAppend ==
    ASSUME NEW file \in Seq(1 .. Chunks), NEW c \in 1 .. Chunks, NEW k \in 0 .. Chunks,
           InOrderTo(file, k), NEW d \in 0 .. Chunks, d <= k \/ (d = c /\ c <= k + 1)
    PROVE  InOrderTo(Append(file, c), d)
<1> DEFINE new == Append(file, c)
<1>1. /\ Len(file) \in Nat /\ DOMAIN file = 1 .. Len(file)
      /\ DOMAIN new = 1 .. Len(file) + 1 /\ new[Len(file) + 1] = c
      /\ \A n \in 1 .. Len(file) : new[n] = file[n]
  OBVIOUS
<1>2. SUFFICES ASSUME NEW i \in 1 .. d
               PROVE  \E n \in DOMAIN new :
                        new[n] = i /\ \A j \in 1 .. i - 1 : \E m \in 1 .. n - 1 : new[m] = j
  BY DEF InOrderTo
<1>3. CASE i <= k
  <2>0. i \in 1 .. k
    BY <1>3, UploadBounds
  <2>1. PICK n \in DOMAIN file :
          file[n] = i /\ \A j \in 1 .. i - 1 : \E m \in 1 .. n - 1 : file[m] = j
    BY <2>0 DEF InOrderTo
  <2>2. n \in DOMAIN new /\ new[n] = i
    BY <1>1, <2>1
  <2>3. ASSUME NEW j \in 1 .. i - 1 PROVE \E m \in 1 .. n - 1 : new[m] = j
    BY <1>1, <2>1, <2>3
  <2> HIDE DEF new
  <2> QED BY <2>2, <2>3
<1>4. CASE i = k + 1 /\ i = c
  <2>1. ASSUME NEW j \in 1 .. i - 1 PROVE \E m \in 1 .. Len(file) : new[m] = j
    <3>1. j \in 1 .. k
      BY <1>4, <2>1
    <3>2. PICK m \in DOMAIN file : file[m] = j
      BY <3>1 DEF InOrderTo
    <3> QED BY <1>1, <3>2
  <2> HIDE DEF new
  <2>2. Len(file) + 1 \in DOMAIN new /\ new[Len(file) + 1] = i
    BY <1>1, <1>4
  <2>3. (Len(file) + 1) - 1 = Len(file)
    BY <1>1
  <2> QED BY <2>1, <2>2, <2>3
<1>5. i <= k \/ (i = k + 1 /\ i = c)
  BY UploadBounds
<1> QED BY <1>3, <1>4, <1>5

\* What is in order to one chunk is in order to those before it.
LEMMA InOrderLess ==
    ASSUME NEW file, NEW k \in Nat, NEW d \in Nat, d <= k, InOrderTo(file, k)
    PROVE  InOrderTo(file, d)
BY DEF InOrderTo

\* As long as there is one file, every file is that.
LEMMA OnlyOne ==
    ASSUME UploadsInv, OneFile
    PROVE  /\ tmp \in {0, 1} /\ saved \in {0, 1} /\ content[1] # NoFile /\ 1 \in Inode
           /\ \A r \in Request : at[r] \in HasFile => job[r].inode = 1
<1>1. tmp # 0 => tmp = 1
  BY DEF UploadsInv, UploadTypes, FilesInPlace, OneFile
<1>2. saved # 0 => saved = 1
  BY DEF UploadsInv, UploadTypes, FilesInPlace, OneFile
<1>3. 1 \in Inode
  BY UploadBounds DEF Inode
<1>4. content[1] # NoFile
  BY <1>3 DEF UploadsInv, FilesInPlace, Inode
<1>5. ASSUME NEW r \in Request, at[r] \in HasFile PROVE job[r].inode = 1
  BY <1>5, UploadJobFacts DEF UploadsInv, JobIsWhole, OneFile
<1> QED BY <1>1, <1>2, <1>3, <1>4, <1>5

-----------------------------------------------------------------------------
\* Initially the file is empty, and nobody has it.
LEMMA UploadsInitInv == ASSUME UploadsInit PROVE UploadsInv
<1>1. 1 \in Inode /\ 0 \in Nat
  BY UploadBounds DEF Inode
<1>2. UploadTypes
  BY <1>1, EmptyFile, NoFileInBody, UploadBounds
  DEF UploadsInit, UploadTypes, UploadJob, NoJob, Path
<1>3. FilesInPlace
  BY <1>1, EmptyFile DEF UploadsInit, FilesInPlace, Inode
<1>4. \A r \in Request : JobIsWhole(r)
  BY DEF UploadsInit, JobIsWhole, HasFile, AfterWrite
<1>5. MeasuredRight
  BY DEF UploadsInit, MeasuredRight, HasAnswer
<1>6. ChunksAreIn
  BY DEF UploadsInit, ChunksAreIn, AfterWrite, InOrderTo
<1>7. MovedIsInPlace
  BY DEF UploadsInit, MovedIsInPlace, HasAnswer, AnsweredIsComplete
<1>8. LeftoverIsHandled
  BY DEF UploadsInit, LeftoverIsHandled
<1> QED BY <1>2, <1>3, <1>4, <1>5, <1>6, <1>7, <1>8 DEF UploadsInv

\* The invariant is as strong as the property.
LEMMA UploadsInvWhole == ASSUME UploadsInv PROVE UploadsWhole
<1>1. OneFile \/ MadeAnew
  <2>1. PICK n \in Inode : \A i \in Inode : content[i] # NoFile <=> i <= n
    BY DEF UploadsInv, FilesInPlace
  <2>2. CASE n = 1
    BY <2>1, <2>2 DEF OneFile, Inode
  <2>3. CASE n # 1
    <3>1. 2 \in Inode /\ 2 <= n
      BY <2>3, UploadBounds DEF Inode
    <3> QED BY <2>1, <3>1 DEF MadeAnew
  <2> QED BY <2>2, <2>3
<1>2. UploadsTypeOK
  BY DEF UploadsInv, UploadTypes, FilesInPlace, JobIsWhole, UploadsTypeOK
<1>3. answer # NoAnswer => saved # 0 /\ (OneFile => saved = 1)
  BY OnlyOne DEF UploadsInv, MovedIsInPlace, AnsweredIsComplete
<1>4. AnswerDescribesFile
  BY <1>1, <1>3 DEF AnswerDescribesFile, UploadsInv, MeasuredRight
<1>5. StoredIsWhole
  BY <1>1, <1>3 DEF StoredIsWhole, InOrder, UploadsInv, ChunksAreIn, InOrderTo
<1>6. AnsweredIsComplete
  BY DEF UploadsInv, MovedIsInPlace
<1>7. LeftoversAreFound
  BY DEF UploadsInv, LeftoverIsHandled, LeftoversAreFound, Quiet
<1> QED BY <1>2, <1>4, <1>5, <1>6, <1>7 DEF UploadsWhole

-----------------------------------------------------------------------------
\* A request takes another step, and the files and the client stay as they are.
LEMMA StepKeepsFiles ==
    ASSUME UploadsInv, NEW r \in Request, NEW to \in Path, NEW new \in UploadJob,
           at' = [at EXCEPT ![r] = to], job' = [job EXCEPT ![r] = new],
           UNCHANGED <<content, tmp, saved, got, sent, repeats>>,
           to = "idle" <=> new = NoJob,
           to # "idle" => new.chunk \in 1 .. sent,
           to \in {"exists", "open"} => new.chunk <= got + 1,
           to \in HasFile => new.inode # 0 /\ content[new.inode] # NoFile
    PROVE  UploadTypes' /\ FilesInPlace' /\ (\A q \in Request : JobIsWhole(q))'
<1>1. UploadTypes'
  BY DEF UploadsInv, UploadTypes
<1>2. FilesInPlace'
  BY DEF UploadsInv, FilesInPlace
<1>3. ASSUME NEW q \in Request PROVE JobIsWhole(q)'
  <2>1. CASE q = r
    BY <2>1 DEF UploadsInv, UploadTypes, JobIsWhole
  <2>2. CASE q # r
    BY <2>2 DEF UploadsInv, UploadTypes, JobIsWhole
  <2> QED BY <2>1, <2>2
<1> QED BY <1>1, <1>2, <1>3

\* A request ends.
LEMMA EndKeeps ==
    ASSUME UploadsInv, NEW r \in Request, End(r), late' = late,
           UNCHANGED <<content, tmp, saved, savedMeta, thumbnail, image, answer, got, sent,
                       repeats>>
    PROVE  /\ UploadTypes' /\ FilesInPlace' /\ (\A q \in Request : JobIsWhole(q))'
           /\ MeasuredRight' /\ ChunksAreIn' /\ MovedIsInPlace'
<1>1. NoJob \in UploadJob
  BY UploadBounds, NoFileInBody DEF NoJob, UploadJob
<1>2. UploadTypes' /\ FilesInPlace' /\ (\A q \in Request : JobIsWhole(q))'
  <2> DEFINE to == "idle"
  <2>1. to \in Path /\ to \notin HasFile
    BY DEF Path, HasFile, AfterWrite
  <2> QED BY <1>1, <2>1, StepKeepsFiles DEF End, HasFile, AfterWrite
<1>3. \A q \in Request : at'[q] # "idle" => at'[q] = at[q] /\ job'[q] = job[q]
  BY DEF End, UploadsInv, UploadTypes
<1>4. MeasuredRight'
  BY <1>3 DEF MeasuredRight, UploadsInv, OneFile, HasAnswer, IsLast
<1>5. ChunksAreIn'
  BY <1>3 DEF ChunksAreIn, UploadsInv, OneFile, AfterWrite, InOrderTo
<1>6. MovedIsInPlace'
  BY <1>3 DEF MovedIsInPlace, UploadsInv, HasAnswer, IsLast, AnsweredIsComplete
<1> QED BY <1>2, <1>4, <1>5, <1>6

\* A request that goes on with a chunk in hand: what it has measured, written
\* and moved by then.
LEMMA StepKeepsClaims ==
    ASSUME UploadsInv, NEW r \in Request,
           \A q \in Request \ {r} : at'[q] = at[q] /\ job'[q] = job[q],
           UNCHANGED <<content, got, answer, image, late>>,
           saved # 0 => saved' # 0, savedMeta => savedMeta', thumbnail => thumbnail',
           OneFile /\ ~late =>
             /\ (at[r] \in {"sized", "hashed", "moved", "thumbnail"} \/ HasAnswer(r))' =>
                    job'[r].size = Len(content[1])
             /\ (at[r] \in {"hashed", "moved", "thumbnail"} \/ HasAnswer(r))' =>
                    job'[r].hash = content[1],
           OneFile /\ at'[r] \in AfterWrite => InOrderTo(content[1], job'[r].chunk),
           (at[r] \in {"moved", "thumbnail"} \/ HasAnswer(r))' => saved' # 0,
           (at[r] = "thumbnail" \/ HasAnswer(r))' => savedMeta',
           HasAnswer(r)' => image # "broken" /\ (image = "yes" => thumbnail')
    PROVE  MeasuredRight' /\ ChunksAreIn' /\ MovedIsInPlace'
<1>1. MeasuredRight'
  BY DEF MeasuredRight, UploadsInv, OneFile, HasAnswer, IsLast
<1>2. ChunksAreIn'
  BY DEF ChunksAreIn, UploadsInv, OneFile, InOrderTo
<1>3. MovedIsInPlace'
  BY DEF MovedIsInPlace, UploadsInv, HasAnswer, IsLast, AnsweredIsComplete
<1> QED BY <1>1, <1>2, <1>3

-----------------------------------------------------------------------------
\* A chunk arrives: the next one, or the one that was not answered.
LEMMA ArriveInv == ASSUME UploadsInv, NEW r \in Request, Arrive(r) PROVE UploadsInv'
<1>1. /\ got \in 0 .. Chunks /\ sent \in 0 .. Chunks /\ got + 1 \in 1 .. Chunks
      /\ sent' \in 0 .. Chunks /\ sent <= sent' /\ got + 1 <= sent' /\ repeats' \in 0 .. MaxRepeats
  BY UploadBounds DEF Arrive, UploadsInv, UploadTypes
<1>2. /\ at' = [at EXCEPT ![r] = "exists"]
      /\ job' = [job EXCEPT ![r] = [@ EXCEPT !.chunk = got + 1]]
      /\ UNCHANGED <<content, tmp, saved, tmpMeta, savedMeta, thumbnail, image, clearing, got,
                     answer, late, cutMove>>
  BY UploadJobFacts DEF Arrive, Go, placeVars, taskVars, UploadsInv, UploadTypes
<1>3. [job[r] EXCEPT !.chunk = got + 1] \in UploadJob
  BY <1>1, UploadJobFacts DEF UploadJob
<1>4. /\ at' \in [Request -> Path] /\ job' \in [Request -> UploadJob]
      /\ at'[r] = "exists" /\ job'[r].chunk = got + 1
      /\ \A q \in Request \ {r} : at'[q] = at[q] /\ job'[q] = job[q]
  BY <1>2, <1>3, UploadJobFacts DEF UploadsInv, UploadTypes, UploadJob, Path
<1>5. UploadTypes'
  BY <1>1, <1>2, <1>4, UploadBounds DEF UploadsInv, UploadTypes
<1>6. FilesInPlace'
  BY <1>2 DEF UploadsInv, FilesInPlace
<1>7. ASSUME NEW q \in Request PROVE JobIsWhole(q)'
  <2>1. CASE q = r
    BY <1>1, <1>2, <1>4, <2>1, UploadBounds DEF JobIsWhole, HasFile, AfterWrite, NoJob
  <2>2. CASE q # r
    <3>1. job[q].chunk \in 0 .. Chunks
      BY UploadJobFacts
    <3> QED BY <1>1, <1>2, <1>4, <2>2, <3>1, UploadBounds DEF UploadsInv, JobIsWhole
  <2> QED BY <2>1, <2>2
<1>8. MeasuredRight' /\ ChunksAreIn' /\ MovedIsInPlace'
  BY <1>2, <1>4, StepKeepsClaims DEF HasAnswer, AfterWrite
<1>9. LeftoverIsHandled'
  BY <1>2, <1>4 DEF UploadsInv, LeftoverIsHandled, Arrive
<1> QED BY <1>5, <1>6, <1>7, <1>8, <1>9 DEF UploadsInv

\* The file is opened, or made anew as the next inode.
LEMMA OpenInv == ASSUME UploadsInv, NEW r \in Request, Open(r) PROVE UploadsInv'
<1>1. PICK i \in Inode :
        /\ tmp' = i /\ job' = [job EXCEPT ![r] = [@ EXCEPT !.inode = i]]
        /\ \/ tmp = i /\ content' = content
           \/ /\ tmp = 0 /\ content[i] = NoFile /\ content' = [content EXCEPT ![i] = <<>>]
              /\ i # 1 /\ \E n \in Inode : \A k \in Inode : content'[k] # NoFile <=> k <= n
  <2>1. CASE tmp # 0 /\ job' = [job EXCEPT ![r].inode = tmp] /\ UNCHANGED <<content, tmp>>
    <3>1. tmp \in Inode
      BY <2>1 DEF UploadsInv, UploadTypes
    <3> QED BY <2>1, <3>1, UploadJobFacts DEF UploadsInv, UploadTypes
  <2>2. CASE /\ tmp = 0 /\ \E i \in Inode : content[i] = NoFile
             /\ tmp' = NewInode
             /\ content' = [content EXCEPT ![NewInode] = <<>>]
             /\ job' = [job EXCEPT ![r].inode = NewInode]
    <3>1. PICK n \in Inode : \A k \in Inode : content[k] # NoFile <=> k <= n
      BY DEF UploadsInv, FilesInPlace
    <3>2. n + 1 \in Inode
      BY <2>2, <3>1, UploadBounds DEF Inode
    <3>3. content[n + 1] = NoFile /\ \A j \in 1 .. (n + 1) - 1 : content[j] # NoFile
      BY <3>1, <3>2, UploadBounds DEF Inode
    <3>4. /\ NewInode \in Inode /\ content[NewInode] = NoFile
          /\ \A j \in 1 .. NewInode - 1 : content[j] # NoFile
      BY <3>2, <3>3 DEF NewInode
    <3>5. NewInode = n + 1
      <4>1. ~(NewInode <= n)
        BY <3>1, <3>4
      <4>2. ~(n + 1 < NewInode)
        BY <3>2, <3>3, <3>4, UploadBounds DEF Inode
      <4> QED BY <4>1, <4>2, <3>4, UploadBounds DEF Inode
    <3>6. \A k \in Inode : content'[k] # NoFile <=> k <= n + 1
      BY <2>2, <3>1, <3>2, <3>5, EmptyFile, UploadBounds DEF Inode, UploadsInv, UploadTypes
    <3>7. NewInode # 1
      BY <3>5 DEF Inode
    <3> QED BY <2>2, <3>2, <3>4, <3>5, <3>6, <3>7, UploadJobFacts DEF UploadsInv, UploadTypes
  <2> QED BY <2>1, <2>2 DEF Open
<1>2. /\ at' = [at EXCEPT ![r] = "open"] /\ at[r] = "exists"
      /\ UNCHANGED <<saved, tmpMeta, savedMeta, thumbnail, image, clearing, got, sent, repeats,
                     answer, late, cutMove>>
  BY DEF Open, Go, taskVars, clientSide
<1>3. [job[r] EXCEPT !.inode = i] \in UploadJob
  BY UploadJobFacts DEF UploadJob
<1>4. /\ at' \in [Request -> Path] /\ job' \in [Request -> UploadJob]
      /\ at'[r] = "open" /\ job'[r].inode = i /\ job'[r].chunk = job[r].chunk
      /\ \A q \in Request \ {r} : at'[q] = at[q] /\ job'[q] = job[q]
  BY <1>1, <1>2, <1>3, UploadJobFacts DEF UploadsInv, UploadTypes, UploadJob, Path, HasFile
<1>5. /\ content' \in [Inode -> Body] /\ content'[i] # NoFile
      /\ \A k \in Inode : content[k] # NoFile => content'[k] = content[k]
  BY <1>1, EmptyFile DEF UploadsInv, UploadTypes, FilesInPlace
<1>6. UploadTypes'
  BY <1>1, <1>2, <1>4, <1>5 DEF UploadsInv, UploadTypes
<1>7. FilesInPlace'
  <2>1. \E n \in Inode : \A k \in Inode : content'[k] # NoFile <=> k <= n
    BY <1>1 DEF UploadsInv, FilesInPlace
  <2>2. saved # 0 => saved \in Inode /\ content[saved] # NoFile /\ content'[saved] # NoFile
    BY <1>5 DEF UploadsInv, UploadTypes, FilesInPlace
  <2>3. i # saved
    BY <1>1, <2>2 DEF UploadsInv, FilesInPlace, Inode
  <2> QED BY <1>1, <1>2, <1>5, <2>1, <2>2, <2>3 DEF FilesInPlace
<1>8. ASSUME NEW q \in Request PROVE JobIsWhole(q)'
  <2>1. CASE q = r
    BY <1>1, <1>2, <1>4, <1>5, <2>1 DEF UploadsInv, JobIsWhole, HasFile, AfterWrite, NoJob, Inode
  <2>2. CASE q # r
    BY <1>2, <1>4, <1>5, <2>2, UploadJobFacts DEF UploadsInv, JobIsWhole
  <2> QED BY <2>1, <2>2
<1>9. MeasuredRight' /\ ChunksAreIn' /\ MovedIsInPlace'
  <2>1. CASE content' = content
    BY <1>2, <1>4, <2>1, StepKeepsClaims DEF HasAnswer, AfterWrite
  <2>2. CASE content' # content
    <3>1. ~OneFile'
      BY <1>1, <1>5, <2>2 DEF OneFile
    <3> QED BY <1>2, <1>4, <3>1
            DEF MeasuredRight, ChunksAreIn, MovedIsInPlace, UploadsInv, HasAnswer, IsLast,
                AnsweredIsComplete
  <2> QED BY <2>1, <2>2
<1>10. LeftoverIsHandled'
  BY <1>1 DEF LeftoverIsHandled, Inode
<1> QED BY <1>6, <1>7, <1>8, <1>9, <1>10 DEF UploadsInv

\* A chunk is appended to the file the request has open.
LEMMA WriteInv == ASSUME UploadsInv, NEW r \in Request, Write(r) PROVE UploadsInv'
<1> DEFINE i == job[r].inode
           c == job[r].chunk
<1>1. /\ at[r] = "open" /\ i \in Inode /\ content[i] # NoFile /\ content[i] \in Body
      /\ c \in 1 .. sent /\ c \in 1 .. Chunks /\ c <= got + 1
  BY UploadJobFacts DEF Write, UploadsInv, UploadTypes, JobIsWhole, HasFile
<1>2. /\ content' = [content EXCEPT ![i] = Append(@, c)]
      /\ at' = [at EXCEPT ![r] = IF IsLast(r) THEN "written" ELSE "answer"]
      /\ late' = (late \/ Measured(i))
      /\ UNCHANGED <<tmp, saved, tmpMeta, savedMeta, thumbnail, image, clearing, job, got, sent,
                     repeats, answer, cutMove>>
  BY DEF Write, Written, Go, placeVars, clientSide
<1>3. /\ at' \in [Request -> Path] /\ at'[r] = (IF IsLast(r) THEN "written" ELSE "answer")
      /\ \A q \in Request \ {r} : at'[q] = at[q]
      /\ ~HasAnswer(r)' /\ at'[r] \in AfterWrite
  BY <1>2 DEF UploadsInv, UploadTypes, Path, HasFile, AfterWrite, HasAnswer, IsLast
<1>4. /\ content' \in [Inode -> Body] /\ content'[i] = Append(content[i], c)
      /\ \A k \in Inode : content'[k] # NoFile <=> content[k] # NoFile
      /\ \A k \in Inode \ {i} : content'[k] = content[k]
  BY <1>1, <1>2, FileFacts DEF UploadsInv, UploadTypes
<1> HIDE DEF i, c
<1>5. UploadTypes'
  BY <1>2, <1>3, <1>4 DEF UploadsInv, UploadTypes
<1>6. FilesInPlace'
  BY <1>2, <1>4 DEF UploadsInv, UploadTypes, FilesInPlace
<1>7. ASSUME NEW q \in Request PROVE JobIsWhole(q)'
  <2>1. job[q].inode \in Inode \cup {0}
    BY UploadJobFacts
  <2>2. CASE q = r
    BY <1>1, <1>2, <1>3, <1>4, <2>1, <2>2
    DEF UploadsInv, JobIsWhole, HasFile, AfterWrite
  <2>3. CASE q # r
    BY <1>2, <1>3, <1>4, <2>1, <2>3 DEF UploadsInv, JobIsWhole, HasFile
  <2> QED BY <2>2, <2>3
<1>8. OneFile' => OneFile /\ i = 1
  BY <1>1, <1>4 DEF OneFile
<1>9. MeasuredRight'
  <2>1. SUFFICES ASSUME OneFile', ~late' PROVE MeasuredRight'
    BY DEF MeasuredRight
  <2>2. OneFile /\ i = 1 /\ ~late /\ ~Measured(i)
    BY <1>2, <1>8, <2>1
  <2>3. saved = 0
    BY <2>2, OnlyOne DEF Measured
  <2>4. answer = NoAnswer /\ \A q \in Request : at[q] \notin {"moved", "thumbnail"} /\ ~HasAnswer(q)
    BY <2>3 DEF UploadsInv, MovedIsInPlace, AnsweredIsComplete
  <2>5. \A q \in Request : at[q] \notin {"sized", "hashed"}
    BY <2>2, OnlyOne DEF Measured, HasFile, AfterWrite
  <2> QED BY <1>2, <1>3, <2>4, <2>5 DEF MeasuredRight, HasAnswer, IsLast
<1>10. ChunksAreIn'
  <2>1. SUFFICES ASSUME OneFile' PROVE ChunksAreIn'
    BY DEF ChunksAreIn
  <2>2. OneFile /\ i = 1
    BY <1>8, <2>1
  <2>3. content[1] \in Seq(1 .. Chunks) /\ content'[1] = Append(content[1], c)
    BY <1>1, <1>4, <2>2, FileFacts
  <2>4. ASSUME NEW d \in 0 .. Chunks, InOrderTo(content[1], d) PROVE InOrderTo(content'[1], d)
    <3>1. d <= d
      BY UploadBounds
    <3> QED BY <1>1, <2>3, <2>4, <3>1, InOrderAppend
  <2>5. InOrderTo(content'[1], c)
    <3>1. got \in 0 .. Chunks /\ c \in 0 .. Chunks /\ InOrderTo(content[1], got)
      BY <1>1, <2>2 DEF UploadsInv, UploadTypes, ChunksAreIn
    <3> QED BY <1>1, <2>3, <3>1, InOrderAppend
  <2>6. InOrderTo(content'[1], got)
    BY <2>2, <2>4 DEF UploadsInv, UploadTypes, ChunksAreIn
  <2>7. ASSUME NEW q \in Request, at'[q] \in AfterWrite PROVE InOrderTo(content'[1], job[q].chunk)
    <3>1. CASE q = r
      BY <2>5, <3>1 DEF c
    <3>2. CASE q # r
      BY <1>3, <2>2, <2>4, <2>7, <3>2, UploadJobFacts DEF UploadsInv, ChunksAreIn
    <3> QED BY <3>1, <3>2
  <2>8. answer # NoAnswer => InOrderTo(content'[1], Chunks)
    BY <2>2, <2>4, UploadBounds DEF UploadsInv, ChunksAreIn
  <2> QED BY <1>2, <2>6, <2>7, <2>8 DEF ChunksAreIn
<1>11. MovedIsInPlace'
  <2>1. UNCHANGED <<saved, savedMeta, image, thumbnail, answer>>
    BY <1>2
  <2>2. AnsweredIsComplete'
    BY <2>1 DEF UploadsInv, MovedIsInPlace, AnsweredIsComplete
  <2>3. ASSUME NEW q \in Request
        PROVE  /\ at'[q] \in {"moved", "thumbnail"} \/ HasAnswer(q)' => saved' # 0
               /\ at'[q] = "thumbnail" \/ HasAnswer(q)' => savedMeta'
               /\ HasAnswer(q)' => image' # "broken" /\ (image' = "yes" => thumbnail')
    <3>1. /\ at[q] \in {"moved", "thumbnail"} \/ HasAnswer(q) => saved # 0
          /\ at[q] = "thumbnail" \/ HasAnswer(q) => savedMeta
          /\ HasAnswer(q) => image # "broken" /\ (image = "yes" => thumbnail)
      BY DEF UploadsInv, MovedIsInPlace
    <3>2. /\ HasAnswer(q)' => HasAnswer(q)
          /\ at'[q] \in {"moved", "thumbnail"} => at'[q] = at[q]
      BY <1>2, <1>3 DEF HasAnswer, IsLast
    <3> QED BY <2>1, <3>1, <3>2
  <2> QED BY <2>2, <2>3 DEF MovedIsInPlace
<1>12. LeftoverIsHandled'
  BY <1>1, <1>2, <1>3 DEF UploadsInv, LeftoverIsHandled
<1> QED BY <1>5, <1>6, <1>7, <1>9, <1>10, <1>11, <1>12 DEF UploadsInv

\* A step that leaves the leftovers to whom they were left.
LEMMA StillHandled ==
    ASSUME UploadsInv, NEW r \in Request, at[r] # "moved",
           \A q \in Request \ {r} : at'[q] = at[q],
           UNCHANGED <<tmp, tmpMeta, clearing, cutMove>>
    PROVE  LeftoverIsHandled'
BY DEF UploadsInv, LeftoverIsHandled

\* The size of what is in the temporary directory.
LEMMA ReadMetaAndSizeInv ==
    ASSUME UploadsInv, NEW r \in Request, ReadMetaAndSize(r) PROVE UploadsInv'
<1>1. /\ at[r] = "written"
      /\ UNCHANGED <<content, tmp, saved, tmpMeta, savedMeta, thumbnail, image, clearing, got, sent,
                     repeats, answer, late, cutMove>>
  BY DEF ReadMetaAndSize, placeVars, taskVars, clientSide
<1>2. CASE End(r)
  <2>1. \A q \in Request \ {r} : at'[q] = at[q]
    BY <1>2 DEF End, UploadsInv, UploadTypes
  <2> QED BY <1>1, <1>2, <2>1, EndKeeps, StillHandled DEF UploadsInv
<1>3. CASE /\ tmp # 0 /\ at' = [at EXCEPT ![r] = "sized"]
           /\ job' = [job EXCEPT ![r].size = Len(content[tmp])]
  <2> DEFINE new == [job[r] EXCEPT !.size = Len(content[tmp])]
  <2>1. content[tmp] # NoFile /\ content[tmp] \in Body /\ Len(content[tmp]) \in Nat
    <3>1. content[tmp] # NoFile /\ content[tmp] \in Body /\ 1 \in 1 .. Chunks
      BY <1>3, UploadBounds DEF UploadsInv, UploadTypes, FilesInPlace
    <3> QED BY <3>1, FileFacts
  <2>2. /\ new \in UploadJob /\ new.chunk = job[r].chunk /\ new.inode = job[r].inode
        /\ new.size = Len(content[tmp])
    BY <2>1, UploadJobFacts DEF UploadJob
  <2>3. job' = [job EXCEPT ![r] = new]
    BY <1>3, UploadJobFacts DEF UploadsInv, UploadTypes
  <2> HIDE DEF new
  <2>4. /\ at'[r] = "sized" /\ job'[r] = new
        /\ \A q \in Request \ {r} : at'[q] = at[q] /\ job'[q] = job[q]
    BY <1>3, <2>3, UploadJobFacts DEF UploadsInv, UploadTypes
  <2>5. new # NoJob /\ new.chunk \in 1 .. sent /\ new.inode # 0 /\ content[new.inode] # NoFile
    BY <1>1, <2>2 DEF UploadsInv, JobIsWhole, HasFile, AfterWrite, NoJob
  <2>6. "sized" \in Path
    BY DEF Path, HasFile, AfterWrite
  <2>7. UploadTypes' /\ FilesInPlace' /\ (\A q \in Request : JobIsWhole(q))'
    BY <1>1, <1>3, <2>2, <2>3, <2>5, <2>6, StepKeepsFiles
  <2>8. OneFile => tmp = 1 /\ InOrderTo(content[1], new.chunk)
    BY <1>1, <1>3, <2>2, OnlyOne DEF UploadsInv, ChunksAreIn, AfterWrite
  <2>9. MeasuredRight' /\ ChunksAreIn' /\ MovedIsInPlace'
    BY <1>1, <2>2, <2>4, <2>8, StepKeepsClaims DEF HasAnswer
  <2> QED BY <1>1, <2>4, <2>7, <2>9, StillHandled DEF UploadsInv
<1> QED BY <1>2, <1>3 DEF ReadMetaAndSize, Go

\* The hash of it.
LEMMA HashInv == ASSUME UploadsInv, NEW r \in Request, Hash(r) PROVE UploadsInv'
<1>1. /\ at[r] = "sized"
      /\ UNCHANGED <<content, tmp, saved, tmpMeta, savedMeta, thumbnail, image, clearing, got, sent,
                     repeats, answer, late, cutMove>>
  BY DEF Hash, placeVars, taskVars, clientSide
<1>2. CASE End(r)
  <2>1. \A q \in Request \ {r} : at'[q] = at[q]
    BY <1>2 DEF End, UploadsInv, UploadTypes
  <2> QED BY <1>1, <1>2, <2>1, EndKeeps, StillHandled DEF UploadsInv
<1>3. CASE /\ tmp # 0 /\ at' = [at EXCEPT ![r] = "hashed"]
           /\ job' = [job EXCEPT ![r].hash = content[tmp]]
  <2> DEFINE new == [job[r] EXCEPT !.hash = content[tmp]]
  <2>1. content[tmp] \in Body
    BY <1>3 DEF UploadsInv, UploadTypes
  <2>2. /\ new \in UploadJob /\ new.chunk = job[r].chunk /\ new.inode = job[r].inode
        /\ new.size = job[r].size /\ new.hash = content[tmp]
    BY <2>1, UploadJobFacts DEF UploadJob
  <2>3. job' = [job EXCEPT ![r] = new]
    BY <1>3, UploadJobFacts DEF UploadsInv, UploadTypes
  <2> HIDE DEF new
  <2>4. /\ at'[r] = "hashed" /\ job'[r] = new
        /\ \A q \in Request \ {r} : at'[q] = at[q] /\ job'[q] = job[q]
    BY <1>3, <2>3, UploadJobFacts DEF UploadsInv, UploadTypes
  <2>5. new # NoJob /\ new.chunk \in 1 .. sent /\ new.inode # 0 /\ content[new.inode] # NoFile
    BY <1>1, <2>2 DEF UploadsInv, JobIsWhole, HasFile, AfterWrite, NoJob
  <2>6. "hashed" \in Path
    BY DEF Path, HasFile, AfterWrite
  <2>7. UploadTypes' /\ FilesInPlace' /\ (\A q \in Request : JobIsWhole(q))'
    BY <1>1, <1>3, <2>2, <2>3, <2>5, <2>6, StepKeepsFiles
  <2>8. OneFile => tmp = 1 /\ InOrderTo(content[1], new.chunk)
    BY <1>1, <1>3, <2>2, OnlyOne DEF UploadsInv, ChunksAreIn, AfterWrite
  <2>9. OneFile /\ ~late => new.size = Len(content[1]) /\ new.hash = content[1]
    BY <1>1, <2>2, <2>8 DEF UploadsInv, MeasuredRight
  <2>10. MeasuredRight' /\ ChunksAreIn' /\ MovedIsInPlace'
    BY <1>1, <2>4, <2>8, <2>9, StepKeepsClaims DEF HasAnswer
  <2> QED BY <1>1, <2>4, <2>7, <2>10, StillHandled DEF UploadsInv
<1> QED BY <1>2, <1>3 DEF Hash, Go

\* A request goes on and keeps its job.
LEMMA StepOnly ==
    ASSUME UploadsInv, NEW r \in Request, NEW to \in AfterWrite, at[r] \in AfterWrite,
           at' = [at EXCEPT ![r] = to], UNCHANGED <<job, content, got, sent, repeats>>
    PROVE  /\ at' \in [Request -> Path] /\ at'[r] = to
           /\ \A q \in Request \ {r} : at'[q] = at[q]
           /\ (\A q \in Request : JobIsWhole(q))'
<1>1. to \in Path /\ to \in HasFile /\ to \notin {"idle", "exists", "open"}
  BY DEF Path, HasFile, AfterWrite
<1>2. at[r] \in HasFile /\ at[r] # "idle"
  BY DEF HasFile, AfterWrite
<1>3. /\ at' \in [Request -> Path] /\ at'[r] = to
      /\ \A q \in Request \ {r} : at'[q] = at[q]
  BY <1>1 DEF UploadsInv, UploadTypes
<1> QED BY <1>1, <1>2, <1>3 DEF UploadsInv, JobIsWhole

\* The file is moved to the directory of the day.
LEMMA MoveFileInv == ASSUME UploadsInv, NEW r \in Request, MoveFile(r) PROVE UploadsInv'
<1>1. /\ at[r] = "hashed"
      /\ UNCHANGED <<content, tmpMeta, savedMeta, thumbnail, image, clearing, got, sent, repeats,
                     answer, late, cutMove>>
  BY DEF MoveFile, taskVars, clientSide
<1>2. CASE tmp = 0 /\ End(r) /\ UNCHANGED <<tmp, saved>>
  <2>1. \A q \in Request \ {r} : at'[q] = at[q]
    BY <1>2 DEF End, UploadsInv, UploadTypes
  <2> QED BY <1>1, <1>2, <2>1, EndKeeps, StillHandled DEF UploadsInv
<1>3. CASE tmp # 0 /\ saved' = tmp /\ tmp' = 0 /\ at' = [at EXCEPT ![r] = "moved"] /\ UNCHANGED job
  <2>1. /\ at' \in [Request -> Path] /\ at'[r] = "moved"
        /\ \A q \in Request \ {r} : at'[q] = at[q]
        /\ (\A q \in Request : JobIsWhole(q))'
    BY <1>1, <1>3, StepOnly DEF AfterWrite
  <2>2. UploadTypes'
    BY <1>1, <1>3, <2>1 DEF UploadsInv, UploadTypes
  <2>3. FilesInPlace'
    BY <1>1, <1>3 DEF UploadsInv, FilesInPlace
  <2>4. OneFile => InOrderTo(content[1], job[r].chunk)
    BY <1>1 DEF UploadsInv, ChunksAreIn, AfterWrite
  <2>5. OneFile /\ ~late => job[r].size = Len(content[1]) /\ job[r].hash = content[1]
    BY <1>1 DEF UploadsInv, MeasuredRight
  <2>6. MeasuredRight' /\ ChunksAreIn' /\ MovedIsInPlace'
    BY <1>1, <1>3, <2>1, <2>4, <2>5, StepKeepsClaims DEF HasAnswer
  <2>7. LeftoverIsHandled'
    BY <2>1 DEF LeftoverIsHandled
  <2> QED BY <2>1, <2>2, <2>3, <2>6, <2>7 DEF UploadsInv
<1> QED BY <1>2, <1>3 DEF MoveFile, Go

\* The description follows.
LEMMA MoveMetaInv == ASSUME UploadsInv, NEW r \in Request, MoveMeta(r) PROVE UploadsInv'
<1>1. /\ at[r] = "moved" /\ ~tmpMeta'
      /\ UNCHANGED <<content, tmp, saved, thumbnail, image, clearing, got, sent, repeats,
                     answer, late, cutMove>>
  BY DEF MoveMeta, taskVars, clientSide
<1>2. LeftoverIsHandled'
  BY <1>1 DEF LeftoverIsHandled
<1>3. CASE ~tmpMeta /\ End(r) /\ UNCHANGED <<tmpMeta, savedMeta>>
  BY <1>1, <1>2, <1>3, EndKeeps DEF UploadsInv
<1>4. CASE savedMeta' = TRUE /\ at' = [at EXCEPT ![r] = "thumbnail"] /\ UNCHANGED job
  <2>1. /\ at' \in [Request -> Path] /\ at'[r] = "thumbnail"
        /\ \A q \in Request \ {r} : at'[q] = at[q]
        /\ (\A q \in Request : JobIsWhole(q))'
    BY <1>1, <1>4, StepOnly DEF AfterWrite
  <2>2. UploadTypes'
    BY <1>1, <2>1, <1>4 DEF UploadsInv, UploadTypes
  <2>3. FilesInPlace'
    BY <1>1 DEF UploadsInv, FilesInPlace
  <2>4. OneFile => InOrderTo(content[1], job[r].chunk)
    BY <1>1 DEF UploadsInv, ChunksAreIn, AfterWrite
  <2>5. OneFile /\ ~late => job[r].size = Len(content[1]) /\ job[r].hash = content[1]
    BY <1>1 DEF UploadsInv, MeasuredRight
  <2>6. saved # 0
    BY <1>1 DEF UploadsInv, MovedIsInPlace
  <2>7. MeasuredRight' /\ ChunksAreIn' /\ MovedIsInPlace'
    BY <1>1, <1>4, <2>1, <2>4, <2>5, <2>6, StepKeepsClaims DEF HasAnswer
  <2> QED BY <1>2, <2>1, <2>2, <2>3, <2>7 DEF UploadsInv
<1> QED BY <1>3, <1>4 DEF MoveMeta, Go

\* The thumbnail is made, or the image is refused.
LEMMA ThumbnailInv == ASSUME UploadsInv, NEW r \in Request, Thumbnail(r) PROVE UploadsInv'
<1>1. /\ at[r] = "thumbnail"
      /\ UNCHANGED <<content, tmp, saved, tmpMeta, savedMeta, image, clearing, got, sent, repeats,
                     answer, late, cutMove>>
  BY DEF Thumbnail, taskVars, clientSide
<1>2. CASE End(r) /\ UNCHANGED thumbnail
  <2>1. \A q \in Request \ {r} : at'[q] = at[q]
    BY <1>2 DEF End, UploadsInv, UploadTypes
  <2> QED BY <1>1, <1>2, <2>1, EndKeeps, StillHandled DEF UploadsInv
<1>3. CASE /\ image # "broken" /\ at' = [at EXCEPT ![r] = "answer"]
           /\ thumbnail' = (thumbnail \/ image = "yes") /\ UNCHANGED job
  <2>1. /\ at' \in [Request -> Path] /\ at'[r] = "answer"
        /\ \A q \in Request \ {r} : at'[q] = at[q]
        /\ (\A q \in Request : JobIsWhole(q))'
    BY <1>1, <1>3, StepOnly DEF AfterWrite
  <2>2. UploadTypes'
    BY <1>1, <2>1, <1>3 DEF UploadsInv, UploadTypes
  <2>3. FilesInPlace'
    BY <1>1 DEF UploadsInv, FilesInPlace
  <2>4. OneFile => InOrderTo(content[1], job[r].chunk)
    BY <1>1 DEF UploadsInv, ChunksAreIn, AfterWrite
  <2>5. OneFile /\ ~late => job[r].size = Len(content[1]) /\ job[r].hash = content[1]
    BY <1>1 DEF UploadsInv, MeasuredRight
  <2>6. saved # 0 /\ savedMeta
    BY <1>1 DEF UploadsInv, MovedIsInPlace
  <2>7. MeasuredRight' /\ ChunksAreIn' /\ MovedIsInPlace'
    BY <1>1, <1>3, <2>1, <2>4, <2>5, <2>6, StepKeepsClaims
  <2> QED BY <1>1, <2>1, <2>2, <2>3, <2>7, StillHandled DEF UploadsInv
<1> QED BY <1>2, <1>3 DEF Thumbnail, Go

\* The answer to a chunk, and to the last one with size and hash.
LEMMA AnswerInv == ASSUME UploadsInv, NEW r \in Request, Answer(r) PROVE UploadsInv'
<1> DEFINE c == job[r].chunk
<1>1. /\ at[r] = "answer" /\ c \in 1 .. sent /\ c \in 0 .. Chunks
      /\ UNCHANGED <<content, tmp, saved, tmpMeta, savedMeta, thumbnail, image, clearing, sent,
                     repeats, late, cutMove>>
  BY UploadJobFacts DEF Answer, placeVars, taskVars, UploadsInv, JobIsWhole
<1>2. /\ got' \in {got, c} /\ got <= got' /\ got' <= sent /\ got' \in 0 .. Chunks
  BY <1>1, UploadBounds DEF Answer, UploadsInv, UploadTypes
<1>3. /\ at' \in [Request -> Path] /\ at'[r] = "idle" /\ job'[r] = NoJob
      /\ job' \in [Request -> UploadJob]
      /\ \A q \in Request \ {r} : at'[q] = at[q] /\ job'[q] = job[q]
  BY UploadBounds, NoFileInBody DEF Answer, End, NoJob, UploadJob, UploadsInv, UploadTypes, Path
<1>4. UploadTypes'
  BY <1>1, <1>2, <1>3 DEF UploadsInv, UploadTypes
<1>5. FilesInPlace'
  BY <1>1 DEF UploadsInv, FilesInPlace
<1>6. ASSUME NEW q \in Request PROVE JobIsWhole(q)'
  <2>1. CASE q = r
    BY <1>3, <2>1 DEF JobIsWhole, HasFile, AfterWrite
  <2>2. CASE q # r
    <3>1. job[q].chunk <= got + 1 => job[q].chunk <= got' + 1
      BY <1>2, UploadJobFacts, UploadBounds DEF UploadsInv, UploadTypes
    <3> QED BY <1>1, <1>3, <2>2, <3>1 DEF UploadsInv, JobIsWhole
  <2> QED BY <2>1, <2>2
<1>7. answer' # answer => HasAnswer(r) /\ answer' = [size |-> job[r].size, hash |-> job[r].hash]
  BY <1>1 DEF Answer, HasAnswer
<1>8. \A q \in Request : at'[q] # "idle" => at'[q] = at[q] /\ job'[q] = job[q]
  BY <1>3
<1>9. MeasuredRight'
  BY <1>1, <1>7, <1>8 DEF UploadsInv, MeasuredRight, OneFile, HasAnswer, IsLast
<1>10. ChunksAreIn'
  <2>1. SUFFICES ASSUME OneFile' PROVE ChunksAreIn'
    BY DEF ChunksAreIn
  <2>2. OneFile
    BY <1>1, <2>1 DEF OneFile
  <2>3. InOrderTo(content[1], c) /\ InOrderTo(content[1], got)
    BY <1>1, <2>2 DEF UploadsInv, ChunksAreIn, AfterWrite
  <2>4. HasAnswer(r) => c = Chunks
    BY DEF HasAnswer, IsLast
  <2> HIDE DEF c
  <2>5. answer' # NoAnswer => InOrderTo(content[1], Chunks)
    BY <1>7, <2>2, <2>3, <2>4 DEF UploadsInv, ChunksAreIn
  <2>6. \A q \in Request : at'[q] \in AfterWrite => InOrderTo(content[1], job'[q].chunk)
    BY <1>8, <2>2 DEF UploadsInv, ChunksAreIn, AfterWrite
  <2> QED BY <1>1, <1>2, <2>3, <2>5, <2>6 DEF ChunksAreIn, InOrderTo
<1>11. MovedIsInPlace'
  BY <1>1, <1>7, <1>8 DEF UploadsInv, MovedIsInPlace, HasAnswer, IsLast, AnsweredIsComplete
<1>12. LeftoverIsHandled'
  BY <1>1, <1>3, StillHandled
<1> QED BY <1>4, <1>5, <1>6, <1>9, <1>10, <1>11, <1>12 DEF UploadsInv

\* The client hangs up.
LEMMA AbandonInv == ASSUME UploadsInv, NEW r \in Request, Abandon(r) PROVE UploadsInv'
<1>1. UNCHANGED <<content, tmp, saved, tmpMeta, savedMeta, thumbnail, image, clearing, got, sent,
                  repeats, answer, late>>
  BY DEF Abandon, placeVars, taskVars, clientSide
<1>2. \A q \in Request \ {r} : at'[q] = at[q]
  BY DEF Abandon, End, UploadsInv, UploadTypes
<1>3. LeftoverIsHandled'
  BY <1>1, <1>2 DEF Abandon, UploadsInv, LeftoverIsHandled
<1> QED BY <1>1, <1>3, EndKeeps DEF Abandon, UploadsInv

-----------------------------------------------------------------------------
\* The task that clears files leaves jobs and moved files alone.
LEMMA TaskKeeps ==
    ASSUME UploadsInv, tmp' \in {tmp, 0}, LeftoverIsHandled',
           UNCHANGED <<content, saved, savedMeta, thumbnail, image, at, job, got, sent, repeats,
                       answer, late>>
    PROVE  UploadsInv'
<1>1. UploadTypes' /\ FilesInPlace'
  BY DEF UploadsInv, UploadTypes, FilesInPlace
<1>2. (\A q \in Request : JobIsWhole(q))'
  BY DEF UploadsInv, JobIsWhole
<1>3. MeasuredRight' /\ ChunksAreIn' /\ MovedIsInPlace'
  BY DEF UploadsInv, MeasuredRight, ChunksAreIn, MovedIsInPlace, OneFile, HasAnswer, IsLast,
         AnsweredIsComplete, InOrderTo
<1> QED BY <1>1, <1>2, <1>3 DEF UploadsInv

\* Time passes, and the task looks for old files.
LEMMA AgeInv == ASSUME UploadsInv, Age \/ ClearCheck PROVE UploadsInv'
<1>1. UNCHANGED <<content, placeVars, at, job, clientSide, late, cutMove>> /\ tmp # 0
  BY DEF Age, ClearCheck
<1>2. LeftoverIsHandled'
  BY <1>1 DEF LeftoverIsHandled, placeVars
<1> QED BY <1>1, <1>2, TaskKeeps DEF placeVars, clientSide

\* It removes the file.
LEMMA ClearFileInv == ASSUME UploadsInv, ClearFile PROVE UploadsInv'
<1>1. LeftoverIsHandled'
  BY DEF ClearFile, LeftoverIsHandled
<1> QED BY <1>1, TaskKeeps DEF ClearFile, clientSide

\* Then its description.
LEMMA ClearMetaInv == ASSUME UploadsInv, ClearMeta PROVE UploadsInv'
<1>1. LeftoverIsHandled'
  BY DEF ClearMeta, LeftoverIsHandled
<1> QED BY <1>1, TaskKeeps DEF ClearMeta, clientSide

\* Every step keeps the invariant.
LEMMA UploadsNextInv == ASSUME UploadsInv, [UploadsNext]_uploadVars PROVE UploadsInv'
<1>1. CASE UNCHANGED uploadVars
  <2>1. LeftoverIsHandled'
    BY <1>1 DEF uploadVars, placeVars, taskVars, UploadsInv, LeftoverIsHandled
  <2> QED BY <1>1, <2>1, TaskKeeps DEF uploadVars, placeVars, clientSide
<1>2. ASSUME NEW r \in Request,
             \/ Arrive(r) \/ Open(r) \/ Write(r) \/ ReadMetaAndSize(r) \/ Hash(r)
             \/ MoveFile(r) \/ MoveMeta(r) \/ Thumbnail(r) \/ Answer(r) \/ Abandon(r)
      PROVE  UploadsInv'
  BY <1>2, ArriveInv, OpenInv, WriteInv, ReadMetaAndSizeInv, HashInv, MoveFileInv, MoveMetaInv,
     ThumbnailInv, AnswerInv, AbandonInv
<1> QED BY <1>1, <1>2, AgeInv, ClearFileInv, ClearMetaInv DEF UploadsNext

\* For any number of requests, chunks and files, an upload that was answered
\* is whole, in place, and what the answer says, whichever requests for it and
\* whichever rounds of clean_temp_files met on the way (upload_file).
THEOREM UploadsAreWhole == UploadsSpec => []UploadsWhole
<1>1. UploadsInit => UploadsInv
  BY UploadsInitInv
<1>2. UploadsInv /\ [UploadsNext]_uploadVars => UploadsInv'
  BY UploadsNextInv
<1>3. UploadsInv => UploadsWhole
  BY UploadsInvWhole
<1> QED BY <1>1, <1>2, <1>3, PTL DEF UploadsSpec

(***************************************************************************)
(* Table, cache, log and clients agree on who the users are.               *)
(***************************************************************************)
Profile == [name : Name, avatar : Nat]
UserTable(last) == UNION {[us -> Profile] : us \in SUBSET (1 .. last)}
Naming == {"create", "name"}
Dating == {"create", "avatar"}
ProfileChange == [what : Naming \cup Dating \cup {"delete"}, uid : Uid, name : Name \cup {NoName},
           avatar : Nat]

\* A name or a new user comes with its name.
IsChange(row) == row.what \in Naming => row.name \in Name

\* Row i of the log is the last one up to v of these kinds about user u.
LastOf(rows, kinds, u, v, i) ==
    /\ i \in 1 .. v /\ rows[i].uid = u /\ rows[i].what \in kinds
    /\ \A j \in i + 1 .. v : rows[j].uid = u => rows[j].what \notin kinds

\* The table shows user u as the first v rows of the log say.
ShownAt(rows, table, u, v) ==
    /\ u \in DOMAIN table <=>
        /\ \E i \in 1 .. v : rows[i].uid = u /\ rows[i].what = "create"
        /\ \A i \in 1 .. v : rows[i].uid = u => rows[i].what # "delete"
    /\ u \in DOMAIN table =>
        /\ \E i \in 1 .. v : LastOf(rows, Naming, u, v, i) /\ table[u].name = rows[i].name
        /\ \E i \in 1 .. v : LastOf(rows, Dating, u, v, i) /\ table[u].avatar = rows[i].avatar

ProfileTypes ==
    /\ lastUid \in 0 .. MaxUid
    /\ profileRows \in UserTable(lastUid) /\ profiles \in UserTable(lastUid)
    /\ picture \in [Uid -> Nat]
    /\ userLog \in Seq(ProfileChange)
    /\ follows \in [Follower -> BOOLEAN]
    /\ userList \in [Follower -> UserTable(lastUid)]
    /\ version \in [Follower -> 0 .. Len(userLog)]
    /\ news \in [Follower -> Seq(Nat)]

\* Only users that were created are in the log, the row of their creation first.
LogInOrder ==
    /\ \A i \in 1 .. Len(userLog) :
        /\ userLog[i].uid <= lastUid
        /\ IsChange(userLog[i])
    /\ \A i, j \in 1 .. Len(userLog) :
        userLog[i].what = "create" /\ userLog[j].uid = userLog[i].uid => i <= j

\* The rows of the table are those of the log; so is the cache, but for what
\* was not told.
TablesFollowLog ==
    /\ \A u \in Uid : ShownAt(userLog, profileRows, u, Len(userLog))
    /\ \A u \in Uid \ untold : ShownAt(userLog, profiles, u, Len(userLog))

\* A client has the log up to its version, and every row after it of a user of
\* whom all is told is on its stream, in the order of the ids.
ListFollowsLog(c) ==
    /\ \A u \in Uid \ untold : ShownAt(userLog, userList[c], u, version[c])
    /\ \A i \in 1 .. Len(news[c]) : news[c][i] \in version[c] + 1 .. Len(userLog)
    /\ \A i, j \in 1 .. Len(news[c]) : i < j => news[c][i] < news[c][j]
    /\ IF follows[c]
       THEN \A k \in version[c] + 1 .. Len(userLog) :
                userLog[k].uid \in untold \/ \E i \in 1 .. Len(news[c]) : news[c][i] = k
       ELSE news[c] = <<>>

\* The table has the time of the picture as well, for the next start; and who is
\* still to be created has none, unless a creation was rolled back.
PicturesDated ==
    /\ \A u \in Uid : u > lastUid => picture[u] = 0 \/ u \in badPicture
    /\ \A u \in DOMAIN profileRows \ badPicture : profileRows[u].avatar = picture[u]
    /\ PictureIsDated

\* The inductive invariant.
ProfilesInv ==
    /\ ProfileTypes
    /\ LogInOrder
    /\ TablesFollowLog
    /\ \A c \in Follower : ListFollowsLog(c)
    /\ NamesDiffer
    /\ PicturesDated

-----------------------------------------------------------------------------

\* What a table of users holds.
LEMMA TableHolds ==
    ASSUME NEW last \in Nat, NEW t \in UserTable(last)
    PROVE  /\ DOMAIN t \subseteq 1 .. last /\ t \in [DOMAIN t -> Profile]
           /\ \A u \in DOMAIN t : /\ t[u] \in Profile /\ t[u].name \in Name /\ t[u].avatar \in Nat
                                  /\ u \in 1 .. last
BY DEF UserTable, Profile

\* What makes a table of users.
LEMMA IsTable ==
    ASSUME NEW last \in Nat, NEW t, NEW us, us \subseteq 1 .. last, t \in [us -> Profile]
    PROVE  t \in UserTable(last)
BY DEF UserTable

\* A row of the log says this of its user, and nothing of the others.
LEMMA AppliedFacts ==
    ASSUME NEW last \in Nat, NEW t \in UserTable(last), NEW row \in ProfileChange, IsChange(row),
           row.uid <= last
    PROVE  LET new == Applied(t, row) IN
           /\ new \in UserTable(last)
           /\ \A u : u # row.uid => /\ u \in DOMAIN new <=> u \in DOMAIN t
                                    /\ u \in DOMAIN t => new[u] = t[u]
           /\ row.uid \in DOMAIN new <=>
                row.what = "create" \/ (row.what # "delete" /\ row.uid \in DOMAIN t)
           /\ row.uid \in DOMAIN new =>
                /\ new[row.uid].name =
                        IF row.what \in Naming THEN row.name ELSE t[row.uid].name
                /\ new[row.uid].avatar =
                        IF row.what \in Dating THEN row.avatar ELSE t[row.uid].avatar
<1> DEFINE new == Applied(t, row)
           u == row.uid
<1>1. /\ u \in 1 .. last /\ row.avatar \in Nat
      /\ row.what \in {"create", "name", "avatar", "delete"}
  BY ProfilesAssumption DEF ProfileChange, Uid, Naming, Dating
<1>2. CASE row.what = "create"
  <2>1. new = [v \in DOMAIN t \cup {u} |->
                IF v = u THEN [name |-> row.name, avatar |-> row.avatar] ELSE t[v]]
    BY <1>2 DEF Applied, Set
  <2>2. [name |-> row.name, avatar |-> row.avatar] \in Profile
    BY <1>1, <1>2 DEF IsChange, Naming, Profile
  <2>3. new \in [DOMAIN t \cup {u} -> Profile] /\ DOMAIN t \cup {u} \subseteq 1 .. last
    BY <1>1, <2>1, <2>2, TableHolds
  <2>4. new \in UserTable(last)
    BY <2>3, IsTable
  <2> HIDE DEF new
  <2> QED BY <1>2, <2>1, <2>4 DEF Naming, Dating, new
<1>3. CASE row.what = "name"
  <2>1. new = IF u \in DOMAIN t THEN [t EXCEPT ![u] = [@ EXCEPT !.name = row.name]] ELSE t
    BY <1>3, TableHolds DEF Applied, Renamed
  <2>2. u \in DOMAIN t => [t[u] EXCEPT !.name = row.name] \in Profile
    BY <1>3, TableHolds DEF IsChange, Naming, Profile
  <2>3. new \in [DOMAIN t -> Profile] /\ DOMAIN t \subseteq 1 .. last
    BY <2>1, <2>2, TableHolds
  <2>4. new \in UserTable(last)
    BY <2>3, IsTable
  <2>5. u \in DOMAIN t => t[u] = [name |-> t[u].name, avatar |-> t[u].avatar]
    BY TableHolds DEF Profile
  <2> HIDE DEF new
  <2>6. u \in DOMAIN t => new[u].name = row.name /\ new[u].avatar = t[u].avatar
    BY <2>1, <2>5
  <2> QED BY <1>3, <2>1, <2>4, <2>6 DEF Naming, Dating, new
<1>4. CASE row.what = "avatar"
  <2>1. new = IF u \in DOMAIN t THEN [t EXCEPT ![u] = [@ EXCEPT !.avatar = row.avatar]] ELSE t
    BY <1>4, TableHolds DEF Applied, Dated
  <2>2. u \in DOMAIN t => [t[u] EXCEPT !.avatar = row.avatar] \in Profile
    BY <1>1, TableHolds DEF Profile
  <2>3. new \in [DOMAIN t -> Profile] /\ DOMAIN t \subseteq 1 .. last
    BY <2>1, <2>2, TableHolds
  <2>4. new \in UserTable(last)
    BY <2>3, IsTable
  <2>5. u \in DOMAIN t => t[u] = [name |-> t[u].name, avatar |-> t[u].avatar]
    BY TableHolds DEF Profile
  <2> HIDE DEF new
  <2>6. u \in DOMAIN t => new[u].avatar = row.avatar /\ new[u].name = t[u].name
    BY <2>1, <2>5
  <2> QED BY <1>4, <2>1, <2>4, <2>6 DEF Naming, Dating, new
<1>5. CASE row.what = "delete"
  <2>1. new = [v \in DOMAIN t \ {u} |-> t[v]]
    BY <1>5 DEF Applied, Drop
  <2>2. new \in [DOMAIN t \ {u} -> Profile] /\ DOMAIN t \ {u} \subseteq 1 .. last
    BY <2>1, TableHolds
  <2>3. new \in UserTable(last)
    BY <2>2, IsTable
  <2> HIDE DEF new
  <2> QED BY <1>5, <2>1, <2>3 DEF new
<1> QED BY <1>1, <1>2, <1>3, <1>4, <1>5

\* Rows of other users change nothing of a user.
LEMMA ShownSkip ==
    ASSUME NEW rows, NEW t, NEW u, NEW v \in Nat, NEW w \in Nat, v <= w,
           \A k \in v + 1 .. w : rows[k].uid # u,
           ShownAt(rows, t, u, v)
    PROVE  ShownAt(rows, t, u, w)
<1>1. \A i : i \in 1 .. w /\ rows[i].uid = u <=> i \in 1 .. v /\ rows[i].uid = u
  OBVIOUS
<1>2. ASSUME NEW kinds, NEW i, LastOf(rows, kinds, u, v, i) PROVE LastOf(rows, kinds, u, w, i)
  BY <1>1, <1>2 DEF LastOf
<1>3. 1 .. v \subseteq 1 .. w
  OBVIOUS
<1> QED BY <1>1, <1>2, <1>3, Zenon DEF ShownAt

\* Rows that come later change nothing of what the log said before.
LEMMA ShownAppend ==
    ASSUME NEW rows \in Seq(ProfileChange), NEW row \in ProfileChange, NEW t, NEW u,
           NEW v \in 0 .. Len(rows),
           ShownAt(rows, t, u, v)
    PROVE  ShownAt(Append(rows, row), t, u, v)
<1> DEFINE more == Append(rows, row)
<1>1. \A i \in 1 .. v : more[i] = rows[i]
  OBVIOUS
<1> HIDE DEF more
<1>2. ASSUME NEW kinds, NEW i, LastOf(rows, kinds, u, v, i) PROVE LastOf(more, kinds, u, v, i)
  BY <1>1, <1>2 DEF LastOf
<1>3. ShownAt(more, t, u, v)
  BY <1>1, <1>2, Zenon DEF ShownAt
<1> QED BY <1>3 DEF more

\* Two tables that follow the log to the same place show a user alike.
LEMMA ShownSame ==
    ASSUME NEW last \in Nat, NEW s \in UserTable(last), NEW t \in UserTable(last), NEW rows, NEW u,
           NEW v \in Nat, ShownAt(rows, s, u, v), ShownAt(rows, t, u, v)
    PROVE  (u \in DOMAIN s <=> u \in DOMAIN t) /\ (u \in DOMAIN t => s[u] = t[u])
<1>1. u \in DOMAIN s <=> u \in DOMAIN t
  BY Zenon DEF ShownAt
<1>2. ASSUME NEW kinds, NEW i \in 1 .. v, NEW j \in 1 .. v,
             LastOf(rows, kinds, u, v, i), LastOf(rows, kinds, u, v, j)
      PROVE  i = j
  BY <1>2 DEF LastOf
<1>3. ASSUME u \in DOMAIN t PROVE s[u] = t[u]
  <2>1. s[u] \in Profile /\ t[u] \in Profile
    BY <1>1, <1>3, TableHolds
  <2>2. s[u].name = t[u].name
    BY <1>1, <1>2, <1>3, Zenon DEF ShownAt
  <2>3. s[u].avatar = t[u].avatar
    BY <1>1, <1>2, <1>3, Zenon DEF ShownAt
  <2> QED BY <2>1, <2>2, <2>3 DEF Profile
<1> QED BY <1>1, <1>3

\* Whoever takes the next row of the log follows the log to there.
LEMMA ShownNext ==
    ASSUME NEW last \in Nat, NEW t \in UserTable(last), NEW rows, NEW h \in Nat \ {0},
           rows[h] \in ProfileChange, IsChange(rows[h]), rows[h].uid <= last,
           rows[h].what = "create" => \A i \in 1 .. h - 1 : rows[i].uid # rows[h].uid,
           NEW u, ShownAt(rows, t, u, h - 1)
    PROVE  ShownAt(rows, Applied(t, rows[h]), u, h)
<1> DEFINE row == rows[h]
           new == Applied(t, row)
<1>1. /\ \A v : v # row.uid => /\ v \in DOMAIN new <=> v \in DOMAIN t
                               /\ v \in DOMAIN t => new[v] = t[v]
      /\ row.uid \in DOMAIN new <=>
                row.what = "create" \/ (row.what # "delete" /\ row.uid \in DOMAIN t)
      /\ row.uid \in DOMAIN new =>
                /\ new[row.uid].name =
                        IF row.what \in Naming THEN row.name ELSE t[row.uid].name
                /\ new[row.uid].avatar =
                        IF row.what \in Dating THEN row.avatar ELSE t[row.uid].avatar
  BY AppliedFacts
<1> HIDE DEF new
<1>2. CASE u # row.uid
  <2>1. ShownAt(rows, t, u, h)
    <3>1. h - 1 \in Nat /\ h - 1 <= h /\ \A k \in (h - 1) + 1 .. h : rows[k].uid # u
      BY <1>2
    <3> QED BY <3>1, ShownSkip
  <2>2. (u \in DOMAIN new <=> u \in DOMAIN t) /\ (u \in DOMAIN t => new[u] = t[u])
    BY <1>1, <1>2
  <2>3. ShownAt(rows, new, u, h)
    BY <2>1, <2>2 DEF ShownAt
  <2> QED BY <2>3 DEF new
<1>3. CASE u = row.uid
  <2>1. h \in 1 .. h /\ 1 .. h - 1 \subseteq 1 .. h /\ \A i \in 1 .. h : i = h \/ i \in 1 .. h - 1
    OBVIOUS
  <2>2. ASSUME NEW kinds, row.what \in kinds PROVE LastOf(rows, kinds, u, h, h)
    BY <1>3, <2>1, <2>2 DEF LastOf
  <2>3. ASSUME NEW kinds, NEW i \in 1 .. h - 1, LastOf(rows, kinds, u, h - 1, i),
               row.what \notin kinds
        PROVE  LastOf(rows, kinds, u, h, i)
    BY <2>3 DEF LastOf
  <2>4. u \in DOMAIN new <=>
          /\ \E i \in 1 .. h : rows[i].uid = u /\ rows[i].what = "create"
          /\ \A i \in 1 .. h : rows[i].uid = u => rows[i].what # "delete"
    <3>1. u \in DOMAIN t <=>
            /\ \E i \in 1 .. h - 1 : rows[i].uid = u /\ rows[i].what = "create"
            /\ \A i \in 1 .. h - 1 : rows[i].uid = u => rows[i].what # "delete"
      BY Zenon DEF ShownAt
    <3>2. CASE row.what = "create"
      <4>1. \A i \in 1 .. h - 1 : rows[i].uid # u
        BY <1>3, <3>2
      <4> QED BY <1>1, <1>3, <2>1, <3>2, <4>1
    <3>3. CASE row.what = "delete"
      BY <1>1, <1>3, <2>1, <3>3
    <3>4. CASE row.what \notin {"create", "delete"}
      BY <1>1, <1>3, <2>1, <3>1, <3>4
    <3> QED BY <3>2, <3>3, <3>4
  <2>5. ASSUME u \in DOMAIN new
        PROVE  \E i \in 1 .. h : LastOf(rows, Naming, u, h, i) /\ new[u].name = rows[i].name
    <3>1. CASE row.what \in Naming
      BY <1>1, <1>3, <2>1, <2>2, <2>5, <3>1
    <3>2. CASE row.what \notin Naming
      <4>1. u \in DOMAIN t /\ new[u].name = t[u].name
        BY <1>1, <1>3, <2>5, <3>2 DEF Naming
      <4>2. PICK i \in 1 .. h - 1 : LastOf(rows, Naming, u, h - 1, i) /\ t[u].name = rows[i].name
        BY <4>1, Zenon DEF ShownAt
      <4> QED BY <2>1, <2>3, <3>2, <4>1, <4>2
    <3> QED BY <3>1, <3>2
  <2>6. ASSUME u \in DOMAIN new
        PROVE  \E i \in 1 .. h : LastOf(rows, Dating, u, h, i) /\ new[u].avatar = rows[i].avatar
    <3>1. CASE row.what \in Dating
      BY <1>1, <1>3, <2>1, <2>2, <2>6, <3>1
    <3>2. CASE row.what \notin Dating
      <4>1. u \in DOMAIN t /\ new[u].avatar = t[u].avatar
        BY <1>1, <1>3, <2>6, <3>2 DEF Dating
      <4>2. PICK i \in 1 .. h - 1 :
              LastOf(rows, Dating, u, h - 1, i) /\ t[u].avatar = rows[i].avatar
        BY <4>1, Zenon DEF ShownAt
      <4> QED BY <2>1, <2>3, <3>2, <4>1, <4>2
    <3> QED BY <3>1, <3>2
  <2>7. ShownAt(rows, new, u, h)
    BY <2>4, <2>5, <2>6, Zenon DEF ShownAt
  <2> QED BY <2>7 DEF new
<1> QED BY <1>2, <1>3 DEF new

-----------------------------------------------------------------------------
\* Initially there are no users, and nothing in the log.
LEMMA ProfilesInitInv == ASSUME ProfilesInit PROVE ProfilesInv
<1>1. DOMAIN profileRows = {} /\ profileRows \in UserTable(0) /\ Len(userLog) = 0
  <2>1. profileRows \in [{} -> Profile] /\ DOMAIN profileRows = {}
    BY DEF ProfilesInit
  <2>2. profileRows \in UserTable(0)
    BY <2>1, IsTable
  <2> QED BY <2>1, <2>2 DEF ProfilesInit
<1>2. 0 \in 0 .. MaxUid
  BY ProfilesAssumption
<1>3. ProfileTypes
  BY <1>1, <1>2 DEF ProfilesInit, ProfileTypes
<1>4. LogInOrder
  BY <1>1 DEF LogInOrder
<1>5. ASSUME NEW u PROVE ShownAt(userLog, profileRows, u, 0)
  BY <1>1 DEF ShownAt
<1>6. TablesFollowLog
  BY <1>1, <1>5 DEF ProfilesInit, TablesFollowLog
<1>7. ASSUME NEW c \in Follower PROVE ListFollowsLog(c)
  BY <1>1, <1>5 DEF ProfilesInit, ListFollowsLog
<1>8. NamesDiffer
  BY <1>1 DEF ProfilesInit, NamesDiffer
<1>9. PicturesDated
  BY <1>1 DEF ProfilesInit, PicturesDated, PictureIsDated
<1> QED BY <1>3, <1>4, <1>6, <1>7, <1>8, <1>9 DEF ProfilesInv

\* What the invariant says of the log and of one client.
LEMMA LogFacts ==
    ASSUME ProfilesInv
    PROVE  /\ userLog \in Seq(ProfileChange) /\ Len(userLog) \in Nat /\ lastUid \in Nat
           /\ \A i \in 1 .. Len(userLog) : /\ userLog[i] \in ProfileChange /\ IsChange(userLog[i])
                                           /\ userLog[i].uid \in Uid /\ userLog[i].uid <= lastUid
           /\ \A c \in Follower : /\ version[c] \in 0 .. Len(userLog)
                                  /\ userList[c] \in UserTable(lastUid)
                                  /\ news[c] \in Seq(Nat) /\ Len(news[c]) \in Nat
<1>1. userLog \in Seq(ProfileChange) /\ lastUid \in Nat
  BY ProfilesAssumption DEF ProfilesInv, ProfileTypes
<1>2. Len(userLog) \in Nat /\ \A i \in 1 .. Len(userLog) : userLog[i] \in ProfileChange
  BY <1>1
<1>3. \A row \in ProfileChange : row.uid \in Uid
  BY DEF ProfileChange
<1>4. \A i \in 1 .. Len(userLog) : IsChange(userLog[i]) /\ userLog[i].uid <= lastUid
  BY DEF ProfilesInv, LogInOrder
<1>5. ASSUME NEW c \in Follower
      PROVE  /\ version[c] \in 0 .. Len(userLog) /\ userList[c] \in UserTable(lastUid)
             /\ news[c] \in Seq(Nat) /\ Len(news[c]) \in Nat
  BY DEF ProfilesInv, ProfileTypes
<1> QED BY <1>1, <1>2, <1>3, <1>4, <1>5

\* The invariant is as strong as the property.
LEMMA ProfilesInvAgree == ASSUME ProfilesInv PROVE ProfilesAgree
<1>1. ProfilesTypeOK
  <2>1. ASSUME NEW t \in UserTable(lastUid)
        PROVE  /\ DOMAIN t \subseteq 1 .. lastUid
               /\ \A u \in DOMAIN t : t[u].name \in Name /\ t[u].avatar \in Nat
    BY LogFacts, TableHolds
  <2>2. profileRows \in UserTable(lastUid) /\ profiles \in UserTable(lastUid)
    BY DEF ProfilesInv, ProfileTypes
  <2>3. ASSUME NEW c \in Follower
        PROVE  /\ userList[c] \in UserTable(lastUid) /\ version[c] \in 0 .. Len(userLog)
               /\ \A i \in 1 .. Len(news[c]) : news[c][i] \in version[c] + 1 .. Len(userLog)
               /\ ~follows[c] => news[c] = <<>>
    BY LogFacts DEF ProfilesInv, ListFollowsLog
  <2> QED BY <2>1, <2>2, <2>3 DEF ProfilesTypeOK
<1>2. ListsFollow
  <2>1. SUFFICES ASSUME NEW c \in Follower, follows[c], news[c] = <<>>, NEW u \in Uid \ untold
                 PROVE  /\ u \in DOMAIN userList[c] <=> u \in DOMAIN profiles
                        /\ u \in DOMAIN profiles => userList[c][u] = profiles[u]
    BY DEF ListsFollow
  <2>2. \A k \in version[c] + 1 .. Len(userLog) : userLog[k].uid # u
    BY <2>1 DEF ProfilesInv, ListFollowsLog
  <2>3. ShownAt(userLog, userList[c], u, version[c])
    BY DEF ProfilesInv, ListFollowsLog
  <2>4. version[c] \in Nat /\ Len(userLog) \in Nat /\ version[c] <= Len(userLog)
    BY LogFacts
  <2>5. ShownAt(userLog, userList[c], u, Len(userLog))
    BY <2>2, <2>3, <2>4, ShownSkip
  <2>6. ShownAt(userLog, profiles, u, Len(userLog))
    BY DEF ProfilesInv, TablesFollowLog
  <2>7. userList[c] \in UserTable(lastUid) /\ profiles \in UserTable(lastUid) /\ lastUid \in Nat
    BY LogFacts DEF ProfilesInv, ProfileTypes
  <2> QED BY <2>4, <2>5, <2>6, <2>7, ShownSame
<1> QED BY <1>1, <1>2 DEF ProfilesInv, PicturesDated, ProfilesAgree

-----------------------------------------------------------------------------
\* A transaction appends its row to the log and changes the table as the row
\* says; then the cache and the clients are told, or nobody is.
LEMMA CommitInv ==
    ASSUME ProfilesInv, NEW row \in ProfileChange, IsChange(row),
           lastUid' \in 0 .. MaxUid, lastUid <= lastUid', row.uid <= lastUid',
           row.what = "create" => lastUid < row.uid,
           Commit(Applied(profileRows, row), row, Applied(profiles, row)),
           UNCHANGED <<follows, userList, version>>
    PROVE  /\ userLog' = Append(userLog, row)
           /\ profileRows' = Applied(profileRows, row)
           /\ profiles' \in {profiles, Applied(profiles, row)}
           /\ profileRows' \in UserTable(lastUid') /\ profiles' \in UserTable(lastUid')
           /\ userLog' \in Seq(ProfileChange)
           /\ userList' \in [Follower -> UserTable(lastUid')]
           /\ version' \in [Follower -> 0 .. Len(userLog')]
           /\ news' \in [Follower -> Seq(Nat)]
           /\ LogInOrder' /\ TablesFollowLog' /\ (\A c \in Follower : ListFollowsLog(c))'
<1> DEFINE len == Len(userLog)
<1>1. /\ len \in Nat /\ lastUid \in Nat /\ lastUid' \in Nat /\ userLog \in Seq(ProfileChange)
      /\ profileRows \in UserTable(lastUid) /\ profiles \in UserTable(lastUid)
  BY LogFacts, ProfilesAssumption DEF ProfilesInv, ProfileTypes
<1>2. /\ profileRows' = Applied(profileRows, row) /\ userLog' = Append(userLog, row)
      /\ \/ /\ profiles' = Applied(profiles, row) /\ untold' = untold
            /\ news' = [c \in Follower |-> IF follows[c] THEN Append(news[c], Len(userLog'))
                                                         ELSE news[c]]
         \/ profiles' = profiles /\ untold' = untold \cup {row.uid} /\ news' = news
  BY DEF Commit
<1>3. /\ userLog' \in Seq(ProfileChange) /\ Len(userLog') = len + 1 /\ userLog'[len + 1] = row
      /\ \A i \in 1 .. len : userLog'[i] = userLog[i]
  BY <1>1, <1>2
<1>4. UserTable(lastUid) \subseteq UserTable(lastUid')
  <2>1. 1 .. lastUid \subseteq 1 .. lastUid'
    BY <1>1
  <2> QED BY <2>1 DEF UserTable
<1>5. profileRows' \in UserTable(lastUid') /\ profiles' \in UserTable(lastUid')
  BY <1>1, <1>2, <1>4, AppliedFacts
<1>6. \A i \in 1 .. len : /\ userLog[i].uid <= lastUid /\ IsChange(userLog[i])
                          /\ userLog[i].uid \in Nat
  BY LogFacts DEF Uid
<1>7. LogInOrder'
  <2>1. \A i \in 1 .. len + 1 : i \in 1 .. len \/ i = len + 1
    BY <1>1
  <2>2. ASSUME NEW i \in 1 .. len + 1 PROVE userLog'[i].uid <= lastUid' /\ IsChange(userLog'[i])
    BY <1>1, <1>3, <1>6, <2>1
  <2>3. ASSUME NEW i \in 1 .. len + 1, NEW j \in 1 .. len + 1,
               userLog'[i].what = "create", userLog'[j].uid = userLog'[i].uid
        PROVE  i <= j
    <3>1. CASE i \in 1 .. len /\ j \in 1 .. len
      BY <1>3, <2>3, <3>1 DEF ProfilesInv, LogInOrder
    <3>2. CASE j = len + 1
      BY <1>1, <3>2
    <3>3. CASE i = len + 1 /\ j \in 1 .. len
      <4>1. userLog[j].uid <= lastUid /\ userLog[j].uid = row.uid /\ lastUid < row.uid
        BY <1>3, <1>6, <2>3, <3>3
      <4> QED BY <1>1, <1>6, <3>3, <4>1
    <3> QED BY <2>1, <3>1, <3>2, <3>3
  <2> QED BY <1>3, <2>2, <2>3 DEF LogInOrder
<1>8. ASSUME NEW u \in Uid, NEW t \in UserTable(lastUid), ShownAt(userLog, t, u, len)
      PROVE  ShownAt(userLog', Applied(t, row), u, len + 1)
  <2>1. ShownAt(userLog', t, u, len)
    BY <1>1, <1>2, <1>8, ShownAppend
  <2>2. len + 1 \in Nat \ {0} /\ (len + 1) - 1 = len
    BY <1>1
  <2>3. row.what = "create" => \A i \in 1 .. len : userLog'[i].uid # row.uid
    BY <1>1, <1>3, <1>6
  <2>4. t \in UserTable(lastUid')
    BY <1>4
  <2> HIDE DEF len
  <2> QED BY <1>1, <1>3, <2>1, <2>2, <2>3, <2>4, ShownNext
<1>9. ASSUME NEW u \in Uid, u # row.uid, NEW t, NEW v \in 0 .. len, ShownAt(userLog, t, u, v)
      PROVE  ShownAt(userLog', t, u, v)
  BY <1>1, <1>2, <1>9, ShownAppend
<1>10. TablesFollowLog'
  <2>1. \A u \in Uid : ShownAt(userLog', profileRows', u, len + 1)
    BY <1>1, <1>2, <1>8 DEF ProfilesInv, TablesFollowLog
  <2>2. ASSUME NEW u \in Uid \ untold' PROVE ShownAt(userLog', profiles', u, len + 1)
    <3>1. u \notin untold /\ ShownAt(userLog, profiles, u, len)
      BY <1>2 DEF ProfilesInv, TablesFollowLog
    <3>2. CASE profiles' = Applied(profiles, row)
      BY <1>1, <1>8, <3>1, <3>2
    <3>3. CASE profiles' = profiles /\ u # row.uid
      <4>1. ShownAt(userLog', profiles, u, len)
        BY <1>1, <1>9, <3>1, <3>3
      <4>2. \A k \in len + 1 .. len + 1 : userLog'[k].uid # u
        BY <1>1, <1>3, <3>3
      <4>3. len + 1 \in Nat /\ len <= len + 1
        BY <1>1
      <4> HIDE DEF len
      <4> QED BY <1>1, <3>3, <4>1, <4>2, <4>3, ShownSkip
    <3> QED BY <1>2, <3>2, <3>3
  <2> QED BY <1>3, <2>1, <2>2 DEF TablesFollowLog
<1>11. ASSUME NEW c \in Follower
       PROVE  ListFollowsLog(c)' /\ news'[c] \in Seq(Nat) /\ version[c] \in 0 .. len + 1
  <2>1. /\ version[c] \in 0 .. len /\ news[c] \in Seq(Nat) /\ Len(news[c]) \in Nat
        /\ version' = version /\ follows' = follows /\ userList' = userList
    BY LogFacts
  <2>2. ASSUME NEW u \in Uid \ untold' PROVE ShownAt(userLog', userList[c], u, version[c])
    <3>1. ShownAt(userLog, userList[c], u, version[c])
      BY <1>2 DEF ProfilesInv, ListFollowsLog
    <3> QED BY <1>1, <1>2, <2>1, <3>1, ShownAppend
  <2>3. CASE news'[c] = Append(news[c], len + 1) /\ follows[c] /\ untold' = untold
    <3> DEFINE n == Len(news[c])
               told == news'[c]
    <3>1. /\ told \in Seq(Nat) /\ Len(told) = n + 1 /\ told[n + 1] = len + 1
          /\ \A i \in 1 .. n : told[i] = news[c][i]
          /\ \A i \in 1 .. n + 1 : i \in 1 .. n \/ i = n + 1
      BY <1>1, <2>1, <2>3
    <3>2. \A i \in 1 .. n : news[c][i] \in version[c] + 1 .. len
      BY DEF ProfilesInv, ListFollowsLog
    <3>3. \A i, j \in 1 .. n : i < j => news[c][i] < news[c][j]
      BY DEF ProfilesInv, ListFollowsLog
    <3>4. \A k \in version[c] + 1 .. len :
                userLog[k].uid \in untold \/ \E i \in 1 .. n : news[c][i] = k
      BY <2>3 DEF ProfilesInv, ListFollowsLog
    <3> HIDE DEF n, told
    <3>0. n \in Nat
      BY <2>1 DEF n
    <3>5. \A i \in 1 .. n + 1 : told[i] \in version[c] + 1 .. len + 1
      <4>1. ASSUME NEW i \in 1 .. n PROVE told[i] \in version[c] + 1 .. len + 1
        <5>1. told[i] \in version[c] + 1 .. len
          BY <3>1, <3>2
        <5>2. version[c] + 1 .. len \subseteq version[c] + 1 .. len + 1
          BY <1>1, <2>1
        <5> QED BY <5>1, <5>2
      <4>2. told[n + 1] \in version[c] + 1 .. len + 1
        BY <1>1, <2>1, <3>1
      <4> QED BY <3>1, <4>1, <4>2
    <3>6. ASSUME NEW i \in 1 .. n + 1, NEW j \in 1 .. n + 1, i < j PROVE told[i] < told[j]
      <4>1. i \in 1 .. n
        BY <3>0, <3>6
      <4>2. CASE j \in 1 .. n
        BY <3>1, <3>3, <3>6, <4>1, <4>2
      <4>3. CASE j = n + 1
        <5>1. told[j] = len + 1 /\ told[i] \in version[c] + 1 .. len
          BY <3>1, <3>2, <4>1, <4>3
        <5> QED BY <1>1, <2>1, <5>1
      <4> QED BY <3>1, <4>2, <4>3
    <3>7. ASSUME NEW k \in version[c] + 1 .. len + 1
          PROVE  userLog'[k].uid \in untold' \/ \E i \in 1 .. n + 1 : told[i] = k
      <4>1. CASE k = len + 1
        BY <3>0, <3>1, <4>1
      <4>2. CASE k # len + 1
        <5>1. k \in version[c] + 1 .. len /\ userLog'[k] = userLog[k]
          BY <1>1, <1>3, <2>1, <4>2
        <5> QED BY <2>3, <3>0, <3>1, <3>4, <5>1
      <4> QED BY <4>1, <4>2
    <3>8. ListFollowsLog(c)'
      BY <1>3, <2>1, <2>2, <2>3, <3>1, <3>5, <3>6, <3>7 DEF ListFollowsLog, told
    <3> QED BY <1>1, <2>1, <3>1, <3>8 DEF told
  <2>4. CASE news'[c] = news[c] /\ (follows[c] => untold' = untold \cup {row.uid})
    <3>1. \A i \in 1 .. Len(news[c]) : news[c][i] \in version[c] + 1 .. len + 1
      BY <1>1, <2>1 DEF ProfilesInv, ListFollowsLog
    <3>2. ASSUME follows[c], NEW k \in version[c] + 1 .. len + 1
          PROVE  userLog'[k].uid \in untold' \/ \E i \in 1 .. Len(news[c]) : news[c][i] = k
      <4>1. CASE k = len + 1
        BY <1>3, <2>4, <3>2, <4>1
      <4>2. CASE k # len + 1
        <5>1. k \in version[c] + 1 .. len /\ userLog'[k] = userLog[k]
          BY <1>1, <1>3, <2>1, <4>2
        <5> QED BY <2>4, <3>2, <5>1 DEF ProfilesInv, ListFollowsLog
      <4> QED BY <4>1, <4>2
    <3>3. ListFollowsLog(c)'
      BY <1>3, <2>1, <2>2, <2>4, <3>1, <3>2 DEF ListFollowsLog, ProfilesInv
    <3> QED BY <1>1, <2>1, <2>4, <3>3
  <2> QED BY <1>2, <1>3, <2>3, <2>4
<1>12. userList' \in [Follower -> UserTable(lastUid')]
  BY <1>4 DEF ProfilesInv, ProfileTypes
<1>13. version' \in [Follower -> 0 .. Len(userLog')]
  BY <1>3, <1>11 DEF ProfilesInv, ProfileTypes
<1>14. news' \in [Follower -> Seq(Nat)]
  BY <1>2, <1>11 DEF ProfilesInv, ProfileTypes
<1> QED BY <1>2, <1>3, <1>5, <1>7, <1>10, <1>11, <1>12, <1>13, <1>14

\* The parts of the invariant that a step about the picture and the tables has
\* to show by itself.
LEMMA FromCommit ==
    ASSUME ProfilesInv, NEW row \in ProfileChange, IsChange(row),
           lastUid' \in 0 .. MaxUid, lastUid <= lastUid', row.uid <= lastUid',
           row.what = "create" => lastUid < row.uid,
           Commit(Applied(profileRows, row), row, Applied(profiles, row)),
           UNCHANGED <<follows, userList, version>>,
           picture' \in [Uid -> Nat], NamesDiffer', PicturesDated'
    PROVE  ProfilesInv'
BY CommitInv DEF ProfilesInv, ProfileTypes

\* In a table where names differ, they differ after one has got a new name.
LEMMA NewNameDiffers ==
    ASSUME NEW last \in Nat, NEW t \in UserTable(last), NEW row \in ProfileChange, IsChange(row),
           row.uid <= last,
           \A u, v \in DOMAIN t : u # v => Fold[t[u].name] # Fold[t[v].name],
           row.what \in Naming =>
                \A v \in DOMAIN t \ {row.uid} : Fold[t[v].name] # Fold[row.name]
    PROVE  LET new == Applied(t, row) IN
           \A u, v \in DOMAIN new : u # v => Fold[new[u].name] # Fold[new[v].name]
<1> DEFINE new == Applied(t, row)
<1>1. /\ \A u : u # row.uid => /\ u \in DOMAIN new <=> u \in DOMAIN t
                               /\ u \in DOMAIN t => new[u] = t[u]
      /\ row.uid \in DOMAIN new <=>
                row.what = "create" \/ (row.what # "delete" /\ row.uid \in DOMAIN t)
      /\ row.uid \in DOMAIN new =>
                new[row.uid].name = IF row.what \in Naming THEN row.name ELSE t[row.uid].name
  BY AppliedFacts
<1> HIDE DEF new
<1>2. ASSUME NEW v \in DOMAIN new, v # row.uid, row.uid \in DOMAIN new
      PROVE  Fold[new[v].name] # Fold[new[row.uid].name]
  <2>1. v \in DOMAIN t /\ new[v] = t[v]
    BY <1>1, <1>2
  <2>2. CASE row.what \in Naming
    BY <1>1, <1>2, <2>1, <2>2
  <2>3. CASE row.what \notin Naming
    BY <1>1, <1>2, <2>1, <2>3 DEF Naming
  <2> QED BY <2>2, <2>3
<1>3. ASSUME NEW u \in DOMAIN new, NEW v \in DOMAIN new, u # v
      PROVE  Fold[new[u].name] # Fold[new[v].name]
  <2>1. CASE u = row.uid
    BY <1>2, <1>3, <2>1
  <2>2. CASE v = row.uid
    BY <1>2, <1>3, <2>2
  <2>3. CASE u # row.uid /\ v # row.uid
    BY <1>1, <1>3, <2>3
  <2> QED BY <2>1, <2>2, <2>3
<1> QED BY <1>3 DEF new

\* Names differ in both tables after a change for which the name is free.
LEMMA NamesStayApart ==
    ASSUME ProfilesInv, NEW row \in ProfileChange, IsChange(row), row.uid <= lastUid',
           lastUid' \in 0 .. MaxUid, lastUid <= lastUid',
           profileRows' = Applied(profileRows, row),
           profiles' \in {profiles, Applied(profiles, row)},
           row.what \in Naming => NameFree(row.name) /\ NameUnused(row.uid, row.name)
    PROVE  NamesDiffer'
<1>1. /\ lastUid' \in Nat
      /\ profileRows \in UserTable(lastUid') /\ profiles \in UserTable(lastUid')
  <2>1. lastUid \in Nat /\ lastUid' \in Nat
    BY ProfilesAssumption DEF ProfilesInv, ProfileTypes
  <2>2. 1 .. lastUid \subseteq 1 .. lastUid'
    BY <2>1
  <2> QED BY <2>1, <2>2 DEF ProfilesInv, ProfileTypes, UserTable
<1>2. \A u, v \in DOMAIN profileRows' :
        u # v => Fold[profileRows'[u].name] # Fold[profileRows'[v].name]
  <2>1. \A u, v \in DOMAIN profileRows :
          u # v => Fold[profileRows[u].name] # Fold[profileRows[v].name]
    BY DEF ProfilesInv, NamesDiffer
  <2>2. row.what \in Naming =>
          \A v \in DOMAIN profileRows \ {row.uid} : Fold[profileRows[v].name] # Fold[row.name]
    BY DEF NameUnused
  <2> QED BY <1>1, <2>1, <2>2, NewNameDiffers
<1>3. \A u, v \in DOMAIN profiles' :
        u # v => Fold[profiles'[u].name] # Fold[profiles'[v].name]
  <2>1. \A u, v \in DOMAIN profiles :
          u # v => Fold[profiles[u].name] # Fold[profiles[v].name]
    BY DEF ProfilesInv, NamesDiffer
  <2>2. row.what \in Naming =>
          \A v \in DOMAIN profiles \ {row.uid} : Fold[profiles[v].name] # Fold[row.name]
    BY DEF NameFree
  <2>3. LET new == Applied(profiles, row) IN
          \A u, v \in DOMAIN new : u # v => Fold[new[u].name] # Fold[new[v].name]
    BY <1>1, <2>1, <2>2, NewNameDiffers
  <2> QED BY <2>1, <2>3
<1> QED BY <1>2, <1>3 DEF NamesDiffer

-----------------------------------------------------------------------------
\* A step that changes neither the log nor the tables.
LEMMA LogStays ==
    ASSUME ProfilesInv, UNCHANGED <<profileRows, profiles, lastUid, userLog, untold>>
    PROVE  /\ LogInOrder' /\ TablesFollowLog' /\ NamesDiffer'
           /\ profileRows' \in UserTable(lastUid') /\ profiles' \in UserTable(lastUid')
           /\ lastUid' \in 0 .. MaxUid /\ userLog' \in Seq(ProfileChange)
<1>1. LogInOrder'
  BY DEF ProfilesInv, LogInOrder
<1>2. TablesFollowLog'
  BY DEF ProfilesInv, TablesFollowLog
<1>3. NamesDiffer'
  BY DEF ProfilesInv, NamesDiffer
<1> QED BY <1>1, <1>2, <1>3 DEF ProfilesInv, ProfileTypes

\* A new user, with the next uid and a name that is free; or the picture of one
\* that was not to be.
LEMMA CreateProfileInv ==
    ASSUME ProfilesInv, NEW n \in Name, NEW avatar \in BOOLEAN, CreateProfile(n, avatar)
    PROVE  ProfilesInv'
<1> DEFINE u == lastUid + 1
           dated == IF avatar THEN picture[u] + 1 ELSE 0
           p == [name |-> n, avatar |-> dated]
           row == Log("create", u, n, dated)
<1>1. /\ lastUid \in 0 .. MaxUid /\ MaxUid \in Nat
      /\ u \in Uid /\ NameFree(n) /\ NameUnused(u, n) /\ picture \in [Uid -> Nat]
      /\ UNCHANGED <<follows, userList, version>>
  BY ProfilesAssumption DEF CreateProfile, clientVars, ProfilesInv, ProfileTypes
<1>2. \/ /\ lastUid' = u
         /\ Commit(Set(profileRows, u, p), row, Set(profiles, u, p))
         /\ \/ /\ picture' = [picture EXCEPT ![u] = IF avatar THEN dated ELSE @]
               /\ badPicture' = IF avatar THEN badPicture \ {u} ELSE badPicture
            \/ badPicture' = badPicture \cup {u} /\ picture' = picture
      \/ /\ picture' = [picture EXCEPT ![u] = dated] /\ badPicture' = badPicture \cup {u}
         /\ UNCHANGED <<profileRows, profiles, lastUid, userLog, news, untold>>
  BY DEF CreateProfile
<1>3. dated \in Nat
  BY <1>1
<1>4. row \in ProfileChange /\ IsChange(row) /\ row.uid = u /\ row.what = "create" /\ row.name = n
      /\ row.avatar = dated
  BY <1>1, <1>3 DEF Log, ProfileChange, IsChange, Naming, Dating
<1>5. /\ \A v \in DOMAIN profileRows : v \in Uid \ {u}
      /\ \A v \in DOMAIN profiles : v \in Uid \ {u}
  <2>1. \A v \in 1 .. lastUid : v \in Uid \ {u}
    BY <1>1 DEF Uid
  <2>2. lastUid \in Nat
    BY <1>1
  <2> QED BY <2>1, <2>2, TableHolds DEF ProfilesInv, ProfileTypes
<1>6. /\ \A v \in DOMAIN profileRows \ badPicture : profileRows[v].avatar = picture[v]
      /\ \A v \in DOMAIN profiles \ badPicture : profiles[v].avatar = picture[v]
      /\ \A v \in Uid : v > lastUid => picture[v] = 0 \/ v \in badPicture
      /\ u > lastUid
  BY <1>1 DEF ProfilesInv, PicturesDated, PictureIsDated
<1>7. /\ picture' \in [Uid -> Nat]
      /\ \A v \in Uid \ {u} : picture'[v] = picture[v] /\ (v \in badPicture' <=> v \in badPicture)
  BY <1>1, <1>2, <1>3
<1> HIDE DEF row, dated
<1>8. CASE /\ lastUid' = u
           /\ Commit(Set(profileRows, u, p), row, Set(profiles, u, p))
           /\ \/ /\ picture' = [picture EXCEPT ![u] = IF avatar THEN dated ELSE @]
                 /\ badPicture' = IF avatar THEN badPicture \ {u} ELSE badPicture
              \/ badPicture' = badPicture \cup {u} /\ picture' = picture
  <2>1. lastUid' \in 0 .. MaxUid /\ lastUid <= lastUid' /\ row.uid <= lastUid' /\ lastUid < row.uid
    BY <1>1, <1>4, <1>8 DEF Uid
  <2>2. Commit(Applied(profileRows, row), row, Applied(profiles, row))
    <3>1. \A t : Applied(t, row) = Set(t, u, p)
      BY <1>4 DEF Applied
    <3> QED BY <1>8, <3>1
  <2>3. /\ profileRows' = Applied(profileRows, row)
        /\ profiles' \in {profiles, Applied(profiles, row)}
    BY <2>2 DEF Commit
  <2>4. NamesDiffer'
    BY <1>1, <1>4, <2>1, <2>3, NamesStayApart
  <2>5. dated = picture'[u] \/ u \in badPicture'
    <3>1. avatar = FALSE => dated = 0
      BY DEF dated
    <3>2. picture[u] = 0 \/ u \in badPicture
      BY <1>1, <1>6
    <3> QED BY <1>1, <1>8, <3>1, <3>2
  <2>6. ASSUME NEW t, \A v \in DOMAIN t : v \in Uid \ {u},
               \A v \in DOMAIN t \ badPicture : t[v].avatar = picture[v],
               NEW new, new = t \/ new = Set(t, u, p)
        PROVE  \A v \in DOMAIN new \ badPicture' : new[v].avatar = picture'[v]
    <3>1. \A v \in DOMAIN t \ badPicture' : t[v].avatar = picture'[v]
      BY <1>7, <2>6
    <3>2. CASE new = Set(t, u, p)
      <4>1. /\ DOMAIN new = DOMAIN t \cup {u} /\ new[u] = p
            /\ \A v \in DOMAIN t : new[v] = t[v]
        BY <2>6, <3>2 DEF Set
      <4> QED BY <2>5, <3>1, <4>1
    <3> QED BY <2>6, <3>1, <3>2
  <2>7. profileRows' = Set(profileRows, u, p) /\ profiles' \in {profiles, Set(profiles, u, p)}
    BY <1>8 DEF Commit
  <2>8. \A v \in DOMAIN profileRows' \ badPicture' : profileRows'[v].avatar = picture'[v]
    BY <1>5, <1>6, <2>6, <2>7
  <2>9. \A v \in DOMAIN profiles' \ badPicture' : profiles'[v].avatar = picture'[v]
    BY <1>5, <1>6, <2>6, <2>7
  <2>10. \A v \in Uid : v > lastUid' => picture'[v] = 0 \/ v \in badPicture'
    <3>1. \A v \in Uid : v > lastUid' => v # u /\ v > lastUid
      BY <1>1, <1>8 DEF Uid
    <3> QED BY <1>6, <1>7, <3>1
  <2>11. PicturesDated'
    BY <2>8, <2>9, <2>10 DEF PicturesDated, PictureIsDated
  <2> QED BY <1>1, <1>4, <1>7, <2>1, <2>2, <2>4, <2>11, FromCommit
<1>9. CASE /\ picture' = [picture EXCEPT ![u] = dated] /\ badPicture' = badPicture \cup {u}
           /\ UNCHANGED <<profileRows, profiles, lastUid, userLog, news, untold>>
  <2>1. PicturesDated'
    BY <1>5, <1>6, <1>7, <1>9 DEF PicturesDated, PictureIsDated
  <2>2. (\A c \in Follower : ListFollowsLog(c))'
    BY <1>1, <1>9 DEF ProfilesInv, ListFollowsLog
  <2>3. ProfileTypes'
    BY <1>1, <1>7, <1>9 DEF ProfilesInv, ProfileTypes
  <2> QED BY <1>9, <2>1, <2>2, <2>3, LogStays DEF ProfilesInv
<1> QED BY <1>2, <1>8, <1>9

\* A change of what is not the picture keeps its time.
LEMMA DatesStay ==
    ASSUME ProfilesInv, NEW row \in ProfileChange, IsChange(row), row.uid <= lastUid,
           row.what \in {"name", "delete"},
           profileRows' = Applied(profileRows, row),
           profiles' \in {profiles, Applied(profiles, row)},
           UNCHANGED <<lastUid, picture, badPicture>>
    PROVE  PicturesDated'
<1>1. ASSUME NEW t \in UserTable(lastUid),
             \A v \in DOMAIN t \ badPicture : t[v].avatar = picture[v],
             NEW new, new = Applied(t, row)
      PROVE  \A v \in DOMAIN new \ badPicture : new[v].avatar = picture[v]
  <2>1. /\ \A u : u # row.uid => /\ u \in DOMAIN new <=> u \in DOMAIN t
                                 /\ u \in DOMAIN t => new[u] = t[u]
        /\ row.uid \in DOMAIN new =>
             row.uid \in DOMAIN t /\ new[row.uid].avatar = t[row.uid].avatar
    BY <1>1, AppliedFacts, LogFacts DEF Dating
  <2> QED BY <1>1, <2>1
<1>2. \A v \in DOMAIN profileRows' \ badPicture : profileRows'[v].avatar = picture[v]
  BY <1>1 DEF ProfilesInv, ProfileTypes, PicturesDated
<1>3. \A v \in DOMAIN profiles' \ badPicture : profiles'[v].avatar = picture[v]
  BY <1>1 DEF ProfilesInv, ProfileTypes, PicturesDated, PictureIsDated
<1> QED BY <1>2, <1>3 DEF ProfilesInv, PicturesDated, PictureIsDated

\* A user's new name.
LEMMA RenameInv ==
    ASSUME ProfilesInv, NEW u \in Uid, NEW n \in Name, Rename(u, n) PROVE ProfilesInv'
<1> DEFINE row == Log("name", u, n, 0)
<1>1. lastUid \in Nat /\ lastUid \in 0 .. MaxUid /\ u <= lastUid
  BY LogFacts, TableHolds DEF Rename, ProfilesInv, ProfileTypes
<1>2. row \in ProfileChange /\ IsChange(row) /\ row.uid = u /\ row.what = "name" /\ row.name = n
  BY DEF Log, ProfileChange, IsChange, Naming, Dating
<1>3. /\ NameFree(n) /\ NameUnused(u, n)
      /\ Commit(Renamed(profileRows, u, n), row, Renamed(profiles, u, n))
      /\ UNCHANGED <<lastUid, picture, follows, userList, version, badPicture>>
  BY DEF Rename, clientVars
<1> HIDE DEF row
<1>4. Commit(Applied(profileRows, row), row, Applied(profiles, row))
  <2>1. \A t : Applied(t, row) = Renamed(t, u, n)
    BY <1>2 DEF Applied
  <2> QED BY <1>3, <2>1
<1>5. /\ profileRows' = Applied(profileRows, row)
      /\ profiles' \in {profiles, Applied(profiles, row)}
  BY <1>4 DEF Commit
<1>6. row.uid <= lastUid /\ row.uid <= lastUid' /\ lastUid <= lastUid' /\ lastUid' \in 0 .. MaxUid
  BY <1>1, <1>2, <1>3
<1>7. NamesDiffer'
  BY <1>2, <1>3, <1>5, <1>6, NamesStayApart
<1>8. PicturesDated'
  BY <1>2, <1>3, <1>5, <1>6, DatesStay
<1>9. picture' \in [Uid -> Nat]
  BY <1>3 DEF ProfilesInv, ProfileTypes
<1> QED BY <1>2, <1>3, <1>4, <1>6, <1>7, <1>8, <1>9, FromCommit

\* A user is deleted.
LEMMA DeleteProfileInv ==
    ASSUME ProfilesInv, NEW u \in Uid, DeleteProfile(u) PROVE ProfilesInv'
<1> DEFINE row == Log("delete", u, NoName, 0)
<1>1. lastUid \in Nat /\ lastUid \in 0 .. MaxUid /\ u <= lastUid
  BY LogFacts, TableHolds DEF DeleteProfile, ProfilesInv, ProfileTypes
<1>2. /\ row \in ProfileChange /\ IsChange(row) /\ row.uid = u
      /\ row.what = "delete" /\ row.what \notin Naming
  BY DEF Log, ProfileChange, IsChange, Naming, Dating
<1>3. /\ Commit(Drop(profileRows, u), row, Drop(profiles, u))
      /\ UNCHANGED <<lastUid, picture, follows, userList, version, badPicture>>
  BY DEF DeleteProfile, clientVars
<1> HIDE DEF row
<1>4. Commit(Applied(profileRows, row), row, Applied(profiles, row))
  <2>1. \A t : Applied(t, row) = Drop(t, u)
    BY <1>2 DEF Applied
  <2> QED BY <1>3, <2>1
<1>5. /\ profileRows' = Applied(profileRows, row)
      /\ profiles' \in {profiles, Applied(profiles, row)}
  BY <1>4 DEF Commit
<1>6. row.uid <= lastUid /\ row.uid <= lastUid' /\ lastUid <= lastUid' /\ lastUid' \in 0 .. MaxUid
  BY <1>1, <1>2, <1>3
<1>7. NamesDiffer'
  BY <1>2, <1>3, <1>5, <1>6, NamesStayApart
<1>8. PicturesDated'
  BY <1>2, <1>3, <1>5, <1>6, DatesStay
<1>9. picture' \in [Uid -> Nat]
  BY <1>3 DEF ProfilesInv, ProfileTypes
<1> QED BY <1>2, <1>3, <1>4, <1>6, <1>7, <1>8, <1>9, FromCommit

\* The picture is replaced, and its time in the tables, or nothing but it.
LEMMA UploadAvatarInv ==
    ASSUME ProfilesInv, NEW u \in Uid, UploadAvatar(u) PROVE ProfilesInv'
<1> DEFINE dated == picture[u] + 1
           row == Log("avatar", u, NoName, dated)
<1>1. /\ lastUid \in Nat /\ lastUid \in 0 .. MaxUid /\ u <= lastUid /\ dated \in Nat
      /\ picture' = [picture EXCEPT ![u] = dated] /\ picture' \in [Uid -> Nat]
      /\ picture'[u] = dated
      /\ \A v \in Uid \ {u} : picture'[v] = picture[v]
      /\ UNCHANGED <<lastUid, follows, userList, version>>
  BY LogFacts, TableHolds DEF UploadAvatar, ProfilesInv, ProfileTypes, clientVars
<1>2. /\ row \in ProfileChange /\ IsChange(row) /\ row.uid = u
      /\ row.what = "avatar" /\ row.avatar = dated
      /\ row.what \notin Naming
  BY <1>1 DEF Log, ProfileChange, IsChange, Naming, Dating
<1>3. DOMAIN profileRows \subseteq Uid /\ DOMAIN profiles \subseteq Uid
  <2>1. 1 .. lastUid \subseteq Uid
    BY <1>1, ProfilesAssumption DEF Uid
  <2> QED BY <1>1, <2>1, TableHolds DEF ProfilesInv, ProfileTypes
<1>4. badPicture \ {u} \subseteq badPicture'
      => \A v \in Uid : v > lastUid' => picture'[v] = 0 \/ v \in badPicture'
  <2>1. \A v \in Uid : v > lastUid => v # u
    BY <1>1 DEF Uid
  <2> QED BY <1>1, <2>1 DEF ProfilesInv, PicturesDated
<1> HIDE DEF row, dated
<1>5. CASE /\ Commit(Dated(profileRows, u, dated), row, Dated(profiles, u, dated))
           /\ badPicture' = IF profiles' = profiles THEN badPicture \cup {u} ELSE badPicture \ {u}
  <2>1. Commit(Applied(profileRows, row), row, Applied(profiles, row))
    <3>1. \A t : Applied(t, row) = Dated(t, u, dated)
      BY <1>2 DEF Applied
    <3> QED BY <1>5, <3>1
  <2>2. /\ profileRows' = Applied(profileRows, row)
        /\ profiles' \in {profiles, Applied(profiles, row)}
    BY <2>1 DEF Commit
  <2>3. row.uid <= lastUid /\ row.uid <= lastUid' /\ lastUid <= lastUid' /\ lastUid' \in 0 .. MaxUid
    BY <1>1, <1>2
  <2>4. NamesDiffer'
    BY <1>2, <2>2, <2>3, NamesStayApart
  <2>5. ASSUME NEW t \in UserTable(lastUid), DOMAIN t \subseteq Uid,
               \A v \in DOMAIN t \ badPicture : t[v].avatar = picture[v],
               NEW new, new = Applied(t, row)
        PROVE  \A v \in DOMAIN new \ badPicture' : new[v].avatar = picture'[v]
    <3>1. /\ \A v : v # u => /\ v \in DOMAIN new <=> v \in DOMAIN t
                             /\ v \in DOMAIN t => new[v] = t[v]
          /\ u \in DOMAIN new => new[u].avatar = dated
      BY <1>1, <1>2, <2>3, <2>5, AppliedFacts DEF Dating
    <3>2. badPicture \subseteq badPicture' \cup {u}
      BY <1>5
    <3> QED BY <1>1, <2>5, <3>1, <3>2
  <2>6. \A v \in DOMAIN profileRows' \ badPicture' : profileRows'[v].avatar = picture'[v]
    BY <1>3, <2>2, <2>5 DEF ProfilesInv, ProfileTypes, PicturesDated
  <2>7. \A v \in DOMAIN profiles' \ badPicture' : profiles'[v].avatar = picture'[v]
    <3>1. CASE profiles' = Applied(profiles, row)
      BY <1>3, <2>5, <3>1 DEF ProfilesInv, ProfileTypes, PicturesDated, PictureIsDated
    <3>2. CASE profiles' = profiles
      BY <1>1, <1>3, <1>5, <3>2 DEF ProfilesInv, PicturesDated, PictureIsDated
    <3> QED BY <2>2, <3>1, <3>2
  <2>8. PicturesDated'
    BY <1>4, <1>5, <2>6, <2>7 DEF PicturesDated, PictureIsDated
  <2>9. row.what = "create" => lastUid < row.uid
    BY <1>2
  <2> QED BY <1>1, <1>2, <2>1, <2>3, <2>4, <2>8, <2>9, FromCommit
<1>6. CASE /\ badPicture' = badPicture \cup {u}
           /\ UNCHANGED <<profileRows, profiles, userLog, news, untold>>
  <2>1. PicturesDated'
    BY <1>1, <1>3, <1>4, <1>6 DEF ProfilesInv, PicturesDated, PictureIsDated
  <2>2. (\A c \in Follower : ListFollowsLog(c))'
    BY <1>1, <1>6 DEF ProfilesInv, ListFollowsLog
  <2>3. ProfileTypes'
    BY <1>1, <1>6 DEF ProfilesInv, ProfileTypes
  <2> QED BY <1>1, <1>6, <2>1, <2>2, <2>3, LogStays DEF ProfilesInv
<1> QED BY <1>5, <1>6 DEF UploadAvatar, row, dated

-----------------------------------------------------------------------------
\* A step of one client.
LEMMA OneClient ==
    ASSUME ProfilesInv, NEW c \in Follower,
           NEW f \in BOOLEAN, NEW t \in UserTable(lastUid), NEW v \in 0 .. Len(userLog),
           NEW ids \in Seq(Nat),
           follows' = [follows EXCEPT ![c] = f], userList' = [userList EXCEPT ![c] = t],
           version' = [version EXCEPT ![c] = v], news' = [news EXCEPT ![c] = ids],
           UNCHANGED <<profileRows, profiles, lastUid, picture, userLog, untold, badPicture>>,
           \A u \in Uid \ untold : ShownAt(userLog, t, u, v),
           \A i \in 1 .. Len(ids) : ids[i] \in v + 1 .. Len(userLog),
           \A i, j \in 1 .. Len(ids) : i < j => ids[i] < ids[j],
           IF f THEN \A k \in v + 1 .. Len(userLog) :
                        userLog[k].uid \in untold \/ \E i \in 1 .. Len(ids) : ids[i] = k
                ELSE ids = <<>>
    PROVE  ProfilesInv'
<1>1. ProfileTypes'
  BY DEF ProfilesInv, ProfileTypes
<1>2. ASSUME NEW d \in Follower PROVE ListFollowsLog(d)'
  <2>1. CASE d = c
    <3>1. follows'[d] = f /\ userList'[d] = t /\ version'[d] = v /\ news'[d] = ids
      BY <2>1 DEF ProfilesInv, ProfileTypes
    <3> QED BY <3>1 DEF ListFollowsLog
  <2>2. CASE d # c
    <3>1. /\ follows'[d] = follows[d] /\ userList'[d] = userList[d]
          /\ version'[d] = version[d] /\ news'[d] = news[d]
      BY <2>2 DEF ProfilesInv, ProfileTypes
    <3> QED BY <3>1 DEF ProfilesInv, ListFollowsLog
  <2> QED BY <2>1, <2>2
<1>3. PicturesDated'
  BY DEF ProfilesInv, PicturesDated, PictureIsDated
<1> QED BY <1>1, <1>2, <1>3, LogStays DEF ProfilesInv

\* A client opens a stream: with the users of the cache, or the rest of the log.
LEMMA FollowInv == ASSUME ProfilesInv, NEW c \in Follower, Follow(c) PROVE ProfilesInv'
<1> DEFINE len == Len(userLog)
<1>0. /\ len \in Nat /\ version[c] \in 0 .. len /\ userList[c] \in UserTable(lastUid)
      /\ profiles \in UserTable(lastUid)
      /\ follows' = [follows EXCEPT ![c] = TRUE]
      /\ UNCHANGED <<profileRows, profiles, lastUid, picture, userLog, untold, badPicture>>
  BY LogFacts DEF Follow, ProfilesInv, ProfileTypes
<1>1. CASE /\ userList' = [userList EXCEPT ![c] = profiles]
           /\ version' = [version EXCEPT ![c] = len]
           /\ news' = [news EXCEPT ![c] = <<>>]
  <2>1. \A u \in Uid \ untold : ShownAt(userLog, profiles, u, len)
    BY DEF ProfilesInv, TablesFollowLog
  <2>2. /\ <<>> \in Seq(Nat) /\ Len(<<>>) = 0 /\ len \in 0 .. len
        /\ 1 .. 0 = {} /\ len + 1 .. len = {}
    BY <1>0
  <2> HIDE DEF len
  <2> QED BY <1>0, <1>1, <2>1, <2>2, OneClient DEF len
<1>2. CASE /\ news' = [news EXCEPT ![c] = FetchUserLog(c)]
           /\ UNCHANGED <<userList, version>>
  <2> DEFINE ids == FetchUserLog(c)
  <2>1. len - version[c] \in Nat
    BY <1>0
  <2>2. /\ ids \in Seq(Nat) /\ Len(ids) = len - version[c]
        /\ \A i \in 1 .. Len(ids) : ids[i] = version[c] + i
    <3>1. /\ ids = [i \in 1 .. len - version[c] |-> version[c] + i]
          /\ \A i \in 1 .. len - version[c] : version[c] + i \in Nat
      BY <1>0 DEF FetchUserLog
    <3> QED BY <2>1, <3>1
  <2> HIDE DEF ids
  <2>3. \A i \in 1 .. Len(ids) : ids[i] \in version[c] + 1 .. len
    BY <1>0, <2>1, <2>2
  <2>4. \A i, j \in 1 .. Len(ids) : i < j => ids[i] < ids[j]
    BY <1>0, <2>1, <2>2
  <2>5. ASSUME NEW k \in version[c] + 1 .. len PROVE \E i \in 1 .. Len(ids) : ids[i] = k
    <3>1. k - version[c] \in 1 .. Len(ids) /\ version[c] + (k - version[c]) = k
      BY <1>0, <2>1, <2>2
    <3> QED BY <2>2, <3>1
  <2>6. \A u \in Uid \ untold : ShownAt(userLog, userList[c], u, version[c])
    BY DEF ProfilesInv, ListFollowsLog
  <2>7. /\ userList' = [userList EXCEPT ![c] = userList[c]]
        /\ version' = [version EXCEPT ![c] = version[c]]
    BY <1>2 DEF ProfilesInv, ProfileTypes
  <2>8. news' = [news EXCEPT ![c] = ids]
    BY <1>2 DEF ids
  <2> QED BY <1>0, <2>2, <2>3, <2>4, <2>5, <2>6, <2>7, <2>8, OneClient
<1> QED BY <1>1, <1>2 DEF Follow

\* A client is told of the next row.
LEMMA LearnInv == ASSUME ProfilesInv, NEW c \in Follower, Learn(c) PROVE ProfilesInv'
<1> DEFINE len == Len(userLog)
           ids == news[c]
           h == Head(ids)
           rest == Tail(ids)
           t == Applied(userList[c], userLog[h])
           v == version[c]
<1>1. /\ len \in Nat /\ v \in 0 .. len /\ userList[c] \in UserTable(lastUid) /\ lastUid \in Nat
      /\ ids \in Seq(Nat) /\ ids # <<>>
      /\ userList' = [userList EXCEPT ![c] = t] /\ version' = [version EXCEPT ![c] = h]
      /\ news' = [news EXCEPT ![c] = rest] /\ follows' = follows
      /\ UNCHANGED <<profileRows, profiles, lastUid, picture, userLog, untold, badPicture>>
  BY LogFacts DEF Learn, ProfilesInv, ProfileTypes
<1>2. /\ Len(ids) \in Nat \ {0} /\ h = ids[1] /\ 1 \in 1 .. Len(ids)
      /\ rest \in Seq(Nat) /\ Len(rest) = Len(ids) - 1
      /\ \A i \in 1 .. Len(rest) : rest[i] = ids[i + 1] /\ i + 1 \in 1 .. Len(ids)
  BY <1>1
<1>3. /\ \A i \in 1 .. Len(ids) : ids[i] \in v + 1 .. len
      /\ \A i, j \in 1 .. Len(ids) : i < j => ids[i] < ids[j]
      /\ follows[c]
      /\ \A k \in v + 1 .. len : userLog[k].uid \in untold \/ \E i \in 1 .. Len(ids) : ids[i] = k
      /\ \A u \in Uid \ untold : ShownAt(userLog, userList[c], u, v)
  BY <1>1 DEF ProfilesInv, ListFollowsLog
<1>4. /\ h \in v + 1 .. len /\ h \in 1 .. len /\ h \in 0 .. len /\ h \in Nat \ {0}
      /\ h - 1 \in Nat /\ v <= h - 1
      /\ v \in Nat
  BY <1>1, <1>2, <1>3
<1>5. \A i \in 2 .. Len(ids) : h < ids[i]
  BY <1>2, <1>3
<1>6. /\ userLog[h] \in ProfileChange /\ IsChange(userLog[h]) /\ userLog[h].uid <= lastUid
      /\ \A i \in 1 .. len : userLog[h].what = "create" /\ userLog[i].uid = userLog[h].uid => h <= i
  BY <1>4, LogFacts DEF ProfilesInv, LogInOrder
<1>7. t \in UserTable(lastUid)
  BY <1>1, <1>6, AppliedFacts
<1> HIDE DEF ids, h, rest, t, v
<1>8. ASSUME NEW u \in Uid \ untold PROVE ShownAt(userLog, t, u, h)
  <2>1. ASSUME NEW k \in v + 1 .. h - 1 PROVE userLog[k].uid # u
    <3>1. k \in v + 1 .. len /\ k < h
      BY <1>1, <1>4
    <3>2. ~\E i \in 1 .. Len(ids) : ids[i] = k
      <4>1. \A i \in 1 .. Len(ids) : i = 1 \/ i \in 2 .. Len(ids)
        BY <1>2
      <4>2. ASSUME NEW i \in 1 .. Len(ids), ids[i] = k PROVE FALSE
        <5>1. k = h \/ h < k
          BY <1>2, <1>5, <4>1, <4>2
        <5> QED BY <1>1, <1>4, <3>1, <5>1
      <4> QED BY <4>2
    <3> QED BY <1>3, <3>1, <3>2
  <2>2. ShownAt(userLog, userList[c], u, h - 1)
    BY <1>3, <1>4, <2>1, ShownSkip
  <2>3. userLog[h].what = "create" => \A i \in 1 .. h - 1 : userLog[i].uid # userLog[h].uid
    BY <1>1, <1>4, <1>6
  <2> QED BY <1>1, <1>4, <1>6, <2>2, <2>3, ShownNext DEF t
<1>9. \A i \in 1 .. Len(rest) : rest[i] \in h + 1 .. len
  <2>1. SUFFICES ASSUME NEW i \in 1 .. Len(rest) PROVE rest[i] \in h + 1 .. len
    OBVIOUS
  <2>2. rest[i] = ids[i + 1] /\ i + 1 \in 2 .. Len(ids)
    BY <1>2
  <2>3. ids[i + 1] \in v + 1 .. len /\ h < ids[i + 1]
    BY <1>2, <1>3, <1>5, <2>2
  <2> QED BY <1>1, <1>4, <2>2, <2>3
<1>10. \A i, j \in 1 .. Len(rest) : i < j => rest[i] < rest[j]
  <2>1. SUFFICES ASSUME NEW i \in 1 .. Len(rest), NEW j \in 1 .. Len(rest), i < j
                 PROVE  rest[i] < rest[j]
    OBVIOUS
  <2>2. i + 1 \in 1 .. Len(ids) /\ j + 1 \in 1 .. Len(ids) /\ i + 1 < j + 1
    BY <1>2, <2>1
  <2> QED BY <1>2, <1>3, <2>2
<1>11. ASSUME NEW k \in h + 1 .. len
       PROVE  userLog[k].uid \in untold \/ \E i \in 1 .. Len(rest) : rest[i] = k
  <2>1. k \in v + 1 .. len /\ k # h
    BY <1>1, <1>4
  <2>2. ASSUME NEW i \in 1 .. Len(ids), ids[i] = k PROVE \E j \in 1 .. Len(rest) : rest[j] = k
    <3>1. i # 1
      BY <1>2, <2>1, <2>2
    <3>2. i - 1 \in 1 .. Len(rest) /\ (i - 1) + 1 = i
      BY <1>2, <3>1
    <3> QED BY <1>2, <2>2, <3>2
  <2> QED BY <1>3, <2>1, <2>2
<1>12. follows' = [follows EXCEPT ![c] = TRUE]
  BY <1>1, <1>3 DEF ProfilesInv, ProfileTypes
<1> QED BY <1>1, <1>2, <1>4, <1>7, <1>8, <1>9, <1>10, <1>11, <1>12, OneClient

\* A client leaves its stream.
LEMMA UnfollowInv == ASSUME ProfilesInv, NEW c \in Follower, Unfollow(c) PROVE ProfilesInv'
<1>1. /\ userList' = [userList EXCEPT ![c] = userList[c]]
      /\ version' = [version EXCEPT ![c] = version[c]]
  BY DEF Unfollow, ProfilesInv, ProfileTypes
<1>2. /\ version[c] \in 0 .. Len(userLog) /\ userList[c] \in UserTable(lastUid)
      /\ <<>> \in Seq(Nat) /\ Len(<<>>) = 0 /\ 1 .. 0 = {}
  BY LogFacts
<1>3. \A u \in Uid \ untold : ShownAt(userLog, userList[c], u, version[c])
  BY DEF ProfilesInv, ListFollowsLog
<1> QED BY <1>1, <1>2, <1>3, OneClient DEF Unfollow

\* The server starts again: the cache is what the table has.
LEMMA RestartProfilesInv == ASSUME ProfilesInv, RestartProfiles PROVE ProfilesInv'
<1>1. /\ profiles' = profileRows /\ follows' = [c \in Follower |-> FALSE]
      /\ news' = [c \in Follower |-> <<>>]
      /\ UNCHANGED <<profileRows, lastUid, picture, userLog, userList, version, untold, badPicture>>
  BY DEF RestartProfiles
<1>2. ProfileTypes'
  BY <1>1 DEF ProfilesInv, ProfileTypes
<1>3. LogInOrder'
  BY <1>1 DEF ProfilesInv, LogInOrder
<1>4. TablesFollowLog'
  BY <1>1 DEF ProfilesInv, TablesFollowLog
<1>5. ASSUME NEW c \in Follower PROVE ListFollowsLog(c)'
  <2>1. news'[c] = <<>> /\ ~follows'[c] /\ Len(<<>>) = 0 /\ 1 .. 0 = {}
    BY <1>1
  <2> QED BY <1>1, <2>1 DEF ProfilesInv, ListFollowsLog
<1>6. NamesDiffer'
  BY <1>1 DEF ProfilesInv, NamesDiffer
<1>7. PicturesDated'
  BY <1>1 DEF ProfilesInv, PicturesDated, PictureIsDated
<1> QED BY <1>2, <1>3, <1>4, <1>5, <1>6, <1>7 DEF ProfilesInv

\* Every step keeps the invariant.
LEMMA ProfilesNextInv == ASSUME ProfilesInv, [ProfilesNext]_profVars PROVE ProfilesInv'
<1>1. CASE UNCHANGED profVars
  <2>1. ProfileTypes'
    BY <1>1 DEF profVars, ProfilesInv, ProfileTypes
  <2>2. (\A c \in Follower : ListFollowsLog(c))'
    BY <1>1 DEF profVars, ProfilesInv, ListFollowsLog
  <2>3. PicturesDated'
    BY <1>1 DEF profVars, ProfilesInv, PicturesDated, PictureIsDated
  <2> QED BY <1>1, <2>1, <2>2, <2>3, LogStays DEF profVars, ProfilesInv
<1> QED BY <1>1, CreateProfileInv, RenameInv, UploadAvatarInv, DeleteProfileInv, FollowInv,
           LearnInv, UnfollowInv, RestartProfilesInv DEF ProfilesNext

\* For any accounts, names and clients: names differ, pictures are dated, and a
\* client that was sent all its events has the users as the cache has them,
\* whenever it was away and whatever transactions were dropped at their commit
\* (user_events, create_user, update_user, upload_avatar, delete_user).
THEOREM ProfilesStayTogether == ProfilesSpec => []ProfilesAgree
<1>1. ProfilesInit => ProfilesInv
  BY ProfilesInitInv
<1>2. ProfilesInv /\ [ProfilesNext]_profVars => ProfilesInv'
  BY ProfilesNextInv
<1>3. ProfilesInv => ProfilesAgree
  BY ProfilesInvAgree
<1> QED BY <1>1, <1>2, <1>3, PTL DEF ProfilesSpec

(***************************************************************************)
(* What is read of a conversation has no hole in it.                       *)
(***************************************************************************)
\* A set of messages with ids of their own.
IsStore(msgs) ==
    /\ IsFiniteSet(msgs)
    /\ \A m \in msgs : m.mid \in Nat
    /\ \A m, o \in msgs : m.mid = o.mid => m = o

Rank(msgs, m) == Cardinality(NewerThan(msgs, m))

\* Messages of the log from the cursor on, up to what was asked for.
Walked == {o \in log : cursor <= o.mid /\ o.mid < query.before}

InWindow(m) == m.mid < query.before /\ ~TooNew(m) /\ ~TooOld(m)

\* A message that is of the window and not found has a reason not to be.
Accounted(m) == Cardinality(NewerThan(matched, m)) >= query.limit \/ CutOff(m)

HistoryTypes ==
    /\ now \in Nat /\ nextMid \in Nat \ {0}
    /\ IsStore(log) /\ \A m \in log : m.mid \in 1 .. nextMid - 1 /\ m.at \in 0 .. now
    /\ posting \in [Writer -> [at : {Never} \cup 0 .. now, mid : 0 .. nextMid - 1]]
    /\ query \in Queries \cup {NoQuery}
    /\ cursor \in Nat /\ pages \in 0 .. MaxPages
    /\ atStart \subseteq log /\ matched \subseteq log
    /\ reader \in {"idle", "reading", "done"}
    /\ reader = "idle" => matched = {} /\ pages = 0

\* An id that a writer holds is not in the log, and nobody else has it.
PostsAreNew ==
    \A w \in Writer : posting[w].mid # 0 =>
        /\ posting[w].at # Never
        /\ \A m \in log : m.mid # posting[w].mid
        /\ \A v \in Writer : posting[v].mid = posting[w].mid => v = w

\* In the middle of the walk, all that is behind the cursor is accounted for,
\* and as long as something is before it, every page was a full one.
WalkIsWhole ==
    reader = "reading" =>
        /\ ~NoFilter(query) /\ pages < MaxPages /\ cursor <= query.before
        /\ \A m \in matched : cursor <= m.mid
        /\ matched = {} \/ Cardinality(matched) < query.limit
        /\ \A m \in atStart \ matched : InWindow(m) => m.mid < cursor \/ Accounted(m)
        /\ (\E m \in atStart : m.mid < cursor) => Cardinality(Walked) >= pages * PageLength

\* The inductive invariant.
HistoryInv == HistoryTypes /\ PostsAreNew /\ OnlyWhatWasAsked /\ WalkIsWhole /\ NothingMissed

-----------------------------------------------------------------------------

\* Who is newer than a message of a store is less than the store.
LEMMA RankFacts ==
    ASSUME NEW msgs, IsStore(msgs), NEW m \in msgs
    PROVE  /\ Cardinality(msgs) \in Nat
           /\ Rank(msgs, m) \in 0 .. Cardinality(msgs) - 1
           /\ IsFiniteSet(NewerThan(msgs, m))
<1>1. IsFiniteSet(msgs) /\ m.mid \in Nat
  BY DEF IsStore
<1>2. NewerThan(msgs, m) \subseteq msgs \ {m}
  BY <1>1 DEF NewerThan
<1>3. /\ IsFiniteSet(msgs \ {m}) /\ Cardinality(msgs) \in Nat /\ Cardinality(msgs \ {m}) \in Nat
      /\ Cardinality(msgs \ {m}) = Cardinality(msgs) - 1
  BY <1>1, FS_RemoveElement, FS_CardinalityType
<1>4. /\ IsFiniteSet(NewerThan(msgs, m))
      /\ Cardinality(NewerThan(msgs, m)) <= Cardinality(msgs \ {m})
      /\ Cardinality(NewerThan(msgs, m)) \in Nat
  BY <1>2, <1>3, FS_Subset, FS_CardinalityType
<1> QED BY <1>3, <1>4 DEF Rank

\* The newer message has the lower rank.
LEMMA RankOrder ==
    ASSUME NEW msgs, IsStore(msgs), NEW m \in msgs, NEW o \in msgs, m.mid < o.mid
    PROVE  Rank(msgs, o) < Rank(msgs, m)
<1>1. /\ IsFiniteSet(NewerThan(msgs, m)) /\ IsFiniteSet(NewerThan(msgs, o))
      /\ Rank(msgs, m) \in Nat /\ Rank(msgs, o) \in Nat
  BY RankFacts
<1>2. m.mid \in Nat /\ o.mid \in Nat /\ \A p \in msgs : p.mid \in Nat
  BY DEF IsStore
<1>3. NewerThan(msgs, o) \subseteq NewerThan(msgs, m)
  BY <1>2 DEF NewerThan
<1>4. o \in NewerThan(msgs, m) /\ o \notin NewerThan(msgs, o)
  BY <1>2 DEF NewerThan
<1>5. Cardinality(NewerThan(msgs, o)) <= Cardinality(NewerThan(msgs, m))
  BY <1>1, <1>3, FS_Subset
<1>6. Cardinality(NewerThan(msgs, o)) # Cardinality(NewerThan(msgs, m))
  BY <1>1, <1>3, <1>4, FS_Subset
<1> QED BY <1>1, <1>5, <1>6 DEF Rank

\* Every rank below the number of messages is that of one message.
LEMMA RanksAreTaken ==
    ASSUME NEW msgs, IsStore(msgs)
    PROVE  /\ [m \in msgs |-> Rank(msgs, m)] \in Bijection(msgs, 0 .. Cardinality(msgs) - 1)
           /\ \A k \in 0 .. Cardinality(msgs) - 1 : \E m \in msgs : Rank(msgs, m) = k
<1> DEFINE n == Cardinality(msgs)
           f == [m \in msgs |-> Rank(msgs, m)]
<1>1. IsFiniteSet(msgs) /\ n \in Nat
  BY FS_CardinalityType DEF IsStore
<1>2. f \in [msgs -> 0 .. n - 1]
  BY RankFacts
<1>3. ASSUME NEW m \in msgs, NEW o \in msgs, f[m] = f[o] PROVE m = o
  <2>1. m.mid \in Nat /\ o.mid \in Nat /\ Rank(msgs, m) \in Nat /\ Rank(msgs, o) \in Nat
    BY RankFacts DEF IsStore
  <2>2. ~(m.mid < o.mid) /\ ~(o.mid < m.mid)
    <3>1. Rank(msgs, m) = Rank(msgs, o)
      BY <1>3
    <3>2. CASE m.mid < o.mid
      BY <2>1, <3>1, <3>2, RankOrder
    <3>3. CASE o.mid < m.mid
      BY <2>1, <3>1, <3>3, RankOrder
    <3> QED BY <3>2, <3>3
  <2>3. m.mid = o.mid
    BY <2>1, <2>2
  <2> QED BY <2>3 DEF IsStore
<1>4. f \in Injection(msgs, 0 .. n - 1)
  BY <1>2, <1>3 DEF Injection, IsInjective
<1>5. IsFiniteSet(0 .. n - 1) /\ Cardinality(0 .. n - 1) = n
  BY <1>1, FS_Interval
<1> HIDE DEF f
<1>6. f \in Surjection(msgs, 0 .. n - 1)
  BY <1>4, <1>5, FS_Injection
<1>7. f \in Bijection(msgs, 0 .. n - 1)
  BY <1>4, <1>6 DEF Bijection
<1>8. ASSUME NEW k \in 0 .. n - 1 PROVE \E m \in msgs : Rank(msgs, m) = k
  BY <1>6 DEF Surjection, f
<1> QED BY <1>7, <1>8 DEF f

\* As many come as are wanted, or all there are; and those that do not come
\* are older than those that do.
LEMMA NewestFacts ==
    ASSUME NEW msgs, IsStore(msgs), NEW k \in Nat
    PROVE  /\ Newest(msgs, k) \subseteq msgs /\ IsFiniteSet(Newest(msgs, k))
           /\ Cardinality(Newest(msgs, k)) \in Nat /\ Cardinality(Newest(msgs, k)) <= k
           /\ k <= Cardinality(msgs) => Cardinality(Newest(msgs, k)) = k
           /\ Cardinality(msgs) <= k => Newest(msgs, k) = msgs
           /\ \A m \in msgs \ Newest(msgs, k) : \A o \in Newest(msgs, k) : m.mid < o.mid
           /\ \A m \in msgs \ Newest(msgs, k) : k <= Cardinality(NewerThan(msgs, m))
<1> DEFINE n == Cardinality(msgs)
           f == [m \in msgs |-> Rank(msgs, m)]
           top == Newest(msgs, k)
<1>1. n \in Nat /\ IsFiniteSet(msgs)
  BY FS_CardinalityType DEF IsStore
<1>2. top = {m \in msgs : Rank(msgs, m) < k}
  BY DEF Newest, Rank, NewerThan
<1>3. IsFiniteSet(top) /\ Cardinality(top) \in Nat /\ Cardinality(top) <= n
  BY <1>1, <1>2, FS_Subset, FS_CardinalityType
<1>4. f \in Bijection(msgs, 0 .. n - 1) /\ \A m \in msgs : f[m] = Rank(msgs, m)
  BY RanksAreTaken
<1> HIDE DEF f, top
<1>5. CASE n <= k
  <2>1. top = msgs
    BY <1>1, <1>2, <1>5, RankFacts
  <2>2. k <= n => k = n
    BY <1>1, <1>5
  <2> QED BY <1>1, <1>3, <1>5, <2>1, <2>2 DEF top
<1>6. CASE k < n
  <2>1. /\ IsFiniteSet(0 .. k - 1) /\ Cardinality(0 .. k - 1) = k
    BY FS_Interval
  <2> DEFINE g == [m \in top |-> f[m]]
  <2>2. g \in [top -> 0 .. k - 1]
    BY <1>2, <1>4, RankFacts
  <2>3. /\ \A m, o \in msgs : f[m] = f[o] => m = o
        /\ \A r \in 0 .. n - 1 : \E m \in msgs : f[m] = r
    BY <1>4 DEF Bijection, Injection, Surjection, IsInjective
  <2>4. \A m, o \in top : g[m] = g[o] => m = o
    BY <1>2, <2>3
  <2>5. ASSUME NEW r \in 0 .. k - 1 PROVE \E m \in top : g[m] = r
    <3>1. r \in 0 .. n - 1 /\ r < k
      BY <1>1, <1>6
    <3>2. PICK m \in msgs : f[m] = r
      BY <2>3, <3>1
    <3>3. m \in top
      BY <1>2, <1>4, <3>1, <3>2
    <3> QED BY <3>2, <3>3
  <2>6. g \in Bijection(top, 0 .. k - 1)
    BY <2>2, <2>4, <2>5 DEF Bijection, Injection, Surjection, IsInjective
  <2>7. ExistsBijection(top, 0 .. k - 1)
    BY <2>6 DEF ExistsBijection
  <2>8. Cardinality(top) = k
    BY <1>3, <2>1, <2>7, FS_Bijection
  <2>9. \A m \in msgs \ top : k <= Rank(msgs, m)
    BY <1>2, RankFacts
  <2>10. ASSUME NEW m \in msgs \ top, NEW o \in top PROVE m.mid < o.mid
    <3>1. Rank(msgs, o) < k /\ k <= Rank(msgs, m) /\ m.mid \in Nat /\ o.mid \in Nat /\ o \in msgs
      BY <1>2, <2>9 DEF IsStore
    <3>2. Rank(msgs, m) \in Nat /\ Rank(msgs, o) \in Nat
      BY <3>1, RankFacts
    <3>3. m # o
      BY <3>1, <3>2
    <3>4. m.mid # o.mid
      BY <3>1, <3>3 DEF IsStore
    <3>5. ~(o.mid < m.mid)
      BY <3>1, <3>2, RankOrder
    <3> QED BY <3>1, <3>4, <3>5
  <2> QED BY <1>1, <1>2, <1>3, <1>6, <2>8, <2>9, <2>10 DEF Rank, top
<1> QED BY <1>1, <1>5, <1>6

\* A store that is not empty has an oldest message.
LEMMA OldestExists ==
    ASSUME NEW msgs, IsStore(msgs), msgs # {}
    PROVE  \E m \in msgs : \A o \in msgs : m.mid <= o.mid
<1> DEFINE n == Cardinality(msgs)
<1>1. n \in Nat /\ IsFiniteSet(msgs) /\ n # 0
  BY FS_CardinalityType, FS_EmptySet DEF IsStore
<1>2. n - 1 \in 0 .. n - 1
  BY <1>1
<1>3. PICK m \in msgs : Rank(msgs, m) = n - 1
  BY <1>2, RanksAreTaken
<1>4. ASSUME NEW o \in msgs, o.mid < m.mid PROVE FALSE
  <2>1. Rank(msgs, m) < Rank(msgs, o) /\ Rank(msgs, o) \in 0 .. n - 1
    BY <1>4, RankOrder, RankFacts
  <2> QED BY <1>1, <1>3, <2>1
<1>5. \A o \in msgs : o.mid \in Nat
  BY DEF IsStore
<1> QED BY <1>3, <1>4, <1>5

\* A part of a store is a store.
LEMMA StorePart == ASSUME NEW msgs, IsStore(msgs), NEW some \in SUBSET msgs PROVE IsStore(some)
BY FS_Subset DEF IsStore

-----------------------------------------------------------------------------
\* Initially nothing is written and nobody reads.
LEMMA HistoryInitInv == ASSUME HistoryInit PROVE HistoryInv
<1>1. IsStore({})
  BY FS_EmptySet DEF IsStore
<1>2. HistoryTypes
  BY <1>1, HistoryAssumption
  DEF HistoryInit, HistoryTypes, NoPost, NoQuery, Queries, NoCursor, Never
<1>3. PostsAreNew
  BY DEF HistoryInit, PostsAreNew, NoPost
<1>4. OnlyWhatWasAsked
  BY FS_EmptySet DEF HistoryInit, OnlyWhatWasAsked, NoQuery
<1>5. WalkIsWhole /\ NothingMissed
  BY DEF HistoryInit, WalkIsWhole, NothingMissed
<1> QED BY <1>2, <1>3, <1>4, <1>5 DEF HistoryInv

\* What was asked for.
LEMMA QueryFacts ==
    ASSUME NEW ask \in Queries \cup {NoQuery}
    PROVE  ask.before \in Nat /\ ask.limit \in Nat /\ ask.before_ts \in Int /\ ask.after_ts \in Int
BY HistoryAssumption DEF Queries, NoQuery, NoCursor, Never

\* The length of a page.
LEMMA PageFacts ==
    ASSUME HistoryInv
    PROVE  /\ query.limit \in Nat /\ query.before \in Nat
           /\ PageLength \in Nat \ {0} /\ query.limit <= PageLength
           /\ MaxPages \in Nat \ {0}
<1>1. query.limit \in Nat /\ query.before \in Nat
  BY QueryFacts DEF HistoryInv, HistoryTypes
<1>2. PageSize \in Nat \ {0} /\ MaxPages \in Nat \ {0}
  BY HistoryAssumption
<1> QED BY <1>1, <1>2 DEF PageLength

\* The invariant is as strong as the property.
LEMMA HistoryInvComplete == ASSUME HistoryInv PROVE HistoryComplete
<1>1. HistoryTypeOK
  BY DEF HistoryInv, HistoryTypes, IsStore, HistoryTypeOK
<1> QED BY <1>1 DEF HistoryInv, HistoryComplete

-----------------------------------------------------------------------------
\* While the log grows, whatever ended the walk before a message, or is behind
\* the cursor, stays.
LEMMA LogGrows ==
    ASSUME HistoryInv, IsStore(log'), log \subseteq log',
           UNCHANGED <<query, cursor, pages, matched, reader, atStart>>
    PROVE  /\ OnlyWhatWasAsked' /\ WalkIsWhole' /\ NothingMissed'
<1>1. IsFiniteSet(log) /\ IsFiniteSet(log')
  BY DEF IsStore, HistoryInv, HistoryTypes
<1>2. \A m : TooNew(m)' = TooNew(m) /\ TooOld(m)' = TooOld(m) /\ InWindow(m)' = InWindow(m)
  BY DEF TooNew, TooOld, InWindow
<1>3. PageLength' = PageLength /\ PageLength \in Nat /\ MaxPages \in Nat
  BY PageFacts DEF PageLength
<1>4. ASSUME NEW m, CutOff(m) PROVE CutOff(m)'
  <2> DEFINE old == {o \in log : o.mid > m.mid /\ o.mid < query.before}
             new == {o \in log' : o.mid > m.mid /\ o.mid < query.before}
  <2>1. old \subseteq new /\ IsFiniteSet(new) /\ IsFiniteSet(old)
    BY <1>1, FS_Subset
  <2>2. Cardinality(old) <= Cardinality(new) /\ Cardinality(old) \in Nat /\ Cardinality(new) \in Nat
    BY <2>1, FS_Subset, FS_CardinalityType
  <2>3. CASE Cardinality(old) >= MaxPages * PageLength
    <3>1. MaxPages * PageLength \in Nat
      BY <1>3
    <3>2. Cardinality(new) >= MaxPages * PageLength
      BY <2>2, <2>3, <3>1
    <3> QED BY <1>3, <3>2 DEF CutOff
  <2>4. CASE \E o \in old : TooOld(o)
    <3>1. \E o \in new : TooOld(o)'
      BY <1>2, <2>1, <2>4
    <3> QED BY <3>1 DEF CutOff
  <2> QED BY <1>4, <2>3, <2>4 DEF CutOff
<1>5. /\ Cardinality(Walked) <= Cardinality(Walked')
      /\ Cardinality(Walked) \in Nat /\ Cardinality(Walked') \in Nat
  <2>1. Walked \subseteq Walked' /\ IsFiniteSet(Walked') /\ IsFiniteSet(Walked)
    BY <1>1, FS_Subset DEF Walked
  <2> QED BY <2>1, FS_Subset, FS_CardinalityType
<1>6. OnlyWhatWasAsked'
  BY <1>2 DEF HistoryInv, OnlyWhatWasAsked
<1>7. WalkIsWhole'
  <2>1. SUFFICES ASSUME reader = "reading" PROVE WalkIsWhole'
    BY DEF WalkIsWhole
  <2>2. (\E m \in atStart : m.mid < cursor) => Cardinality(Walked') >= pages * PageLength
    <3>1. pages * PageLength \in Nat
      BY <1>3 DEF HistoryInv, HistoryTypes
    <3> QED BY <1>5, <2>1, <3>1 DEF HistoryInv, WalkIsWhole
  <2>3. \A m : Accounted(m) => Accounted(m)'
    BY <1>4 DEF Accounted, NewerThan
  <2> QED BY <1>2, <1>3, <2>1, <2>2, <2>3 DEF HistoryInv, WalkIsWhole, NoFilter
<1>8. NothingMissed'
  BY <1>2, <1>4 DEF HistoryInv, NothingMissed, NewerThan, NoFilter
<1> QED BY <1>6, <1>7, <1>8

\* Time passes.
LEMMA TickInv == ASSUME HistoryInv, TickHistory PROVE HistoryInv'
<1>1. now \in Nat /\ now' = now + 1 /\ UNCHANGED <<nextMid, log, posting, readVars>>
  BY DEF TickHistory, HistoryInv, HistoryTypes
<1>2. 0 .. now \subseteq 0 .. now'
  BY <1>1
<1>3. HistoryTypes'
  <2>1. posting' \in [Writer -> [at : {Never} \cup 0 .. now', mid : 0 .. nextMid' - 1]]
    BY <1>1, <1>2 DEF HistoryInv, HistoryTypes
  <2>2. \A m \in log' : m.at \in 0 .. now'
    BY <1>1, <1>2 DEF HistoryInv, HistoryTypes
  <2> QED BY <1>1, <2>1, <2>2
          DEF HistoryInv, HistoryTypes, readVars, NoQuery, NoCursor, Queries, IsStore
<1>4. PostsAreNew'
  BY <1>1 DEF HistoryInv, PostsAreNew
<1>5. IsStore(log')
  BY <1>1 DEF HistoryInv, HistoryTypes, IsStore
<1> QED BY <1>1, <1>3, <1>4, <1>5, LogGrows DEF HistoryInv, readVars

\* A message takes its time.
LEMMA TakeTimeInv == ASSUME HistoryInv, NEW w \in Writer, TakeTime(w) PROVE HistoryInv'
<1>a. posting \in [Writer -> [at : {Never} \cup 0 .. now, mid : 0 .. nextMid - 1]] /\ now \in Nat
  BY DEF HistoryInv, HistoryTypes
<1>b. posting[w] = [at |-> Never, mid |-> 0] /\ posting[w] = NoPost
  BY DEF TakeTime, NoPost
<1>c. posting' = [posting EXCEPT ![w] = [at |-> now, mid |-> 0]]
  <2>1. posting' = [posting EXCEPT ![w] = [posting[w] EXCEPT !.at = now]]
    BY DEF TakeTime
  <2>2. [posting[w] EXCEPT !.at = now] = [at |-> now, mid |-> 0]
    BY <1>b
  <2> QED BY <2>1, <2>2
<1>d. now \in 0 .. now /\ 0 \in 0 .. nextMid - 1
  BY <1>a DEF HistoryInv, HistoryTypes
<1>1. /\ posting[w] = NoPost /\ posting' = [posting EXCEPT ![w] = [at |-> now, mid |-> 0]]
      /\ UNCHANGED <<now, nextMid, log, readVars>>
      /\ now \in 0 .. now /\ 0 \in 0 .. nextMid - 1
  BY <1>b, <1>c, <1>d DEF TakeTime
<1>2. HistoryTypes'
  <2>1. posting' \in [Writer -> [at : {Never} \cup 0 .. now, mid : 0 .. nextMid - 1]]
    BY <1>1 DEF HistoryInv, HistoryTypes
  <2> QED BY <1>1, <2>1 DEF HistoryInv, HistoryTypes, readVars, IsStore, NoQuery, NoCursor, Queries
<1>3. PostsAreNew'
  <2>1. /\ posting'[w].mid = 0
        /\ \A v \in Writer \ {w} : posting'[v] = posting[v]
    BY <1>1 DEF HistoryInv, HistoryTypes
  <2> QED BY <1>1, <2>1 DEF HistoryInv, PostsAreNew
<1>4. IsStore(log')
  BY <1>1 DEF HistoryInv, HistoryTypes, IsStore
<1> QED BY <1>1, <1>2, <1>3, <1>4, LogGrows DEF HistoryInv, readVars

\* It takes its id.
LEMMA TakeMidInv == ASSUME HistoryInv, NEW w \in Writer, TakeMid(w) PROVE HistoryInv'
<1>a. /\ posting \in [Writer -> [at : {Never} \cup 0 .. now, mid : 0 .. nextMid - 1]]
      /\ nextMid \in Nat \ {0}
  BY DEF HistoryInv, HistoryTypes
<1>b. PICK d \in {Never} \cup 0 .. now, i \in 0 .. nextMid - 1 : posting[w] = [at |-> d, mid |-> i]
  BY <1>a
<1>c. posting' = [posting EXCEPT ![w] = [at |-> posting[w].at, mid |-> nextMid]]
  <2>1. posting' = [posting EXCEPT ![w] = [posting[w] EXCEPT !.mid = nextMid]]
    BY DEF TakeMid
  <2>2. [posting[w] EXCEPT !.mid = nextMid] = [at |-> posting[w].at, mid |-> nextMid]
    BY <1>b
  <2> QED BY <2>1, <2>2
<1>1. /\ posting[w].at # Never /\ nextMid' = nextMid + 1 /\ nextMid \in Nat \ {0}
      /\ posting[w] \in [at : {Never} \cup 0 .. now, mid : 0 .. nextMid - 1]
      /\ posting' = [posting EXCEPT ![w] = [at |-> posting[w].at, mid |-> nextMid]]
      /\ UNCHANGED <<now, log, readVars>>
  BY <1>a, <1>c DEF TakeMid
<1>2. /\ 1 .. nextMid - 1 \subseteq 1 .. nextMid' - 1
      /\ 0 .. nextMid - 1 \subseteq 0 .. nextMid' - 1
      /\ nextMid \in 0 .. nextMid' - 1 /\ nextMid' \in Nat \ {0}
  BY <1>1
<1>3. /\ posting'[w].mid = nextMid /\ posting'[w].at = posting[w].at
      /\ posting'[w] \in [at : {Never} \cup 0 .. now, mid : 0 .. nextMid' - 1]
      /\ \A v \in Writer \ {w} : posting'[v] = posting[v]
  BY <1>1, <1>2 DEF HistoryInv, HistoryTypes
<1>4. HistoryTypes'
  <2>1. posting' \in [Writer -> [at : {Never} \cup 0 .. now, mid : 0 .. nextMid' - 1]]
    BY <1>1, <1>2, <1>3 DEF HistoryInv, HistoryTypes
  <2>2. \A m \in log : m.mid \in 1 .. nextMid' - 1
    BY <1>2 DEF HistoryInv, HistoryTypes
  <2> QED BY <1>1, <1>2, <2>1, <2>2
          DEF HistoryInv, HistoryTypes, readVars, IsStore, NoQuery, NoCursor, Queries
<1>5. PostsAreNew'
  <2>1. \A m \in log : m.mid # nextMid
    BY <1>1 DEF HistoryInv, HistoryTypes
  <2>2. \A v \in Writer : posting[v].mid # nextMid
    BY <1>1 DEF HistoryInv, HistoryTypes
  <2> QED BY <1>1, <1>3, <2>1, <2>2 DEF HistoryInv, PostsAreNew
<1>6. IsStore(log')
  BY <1>1 DEF HistoryInv, HistoryTypes, IsStore
<1> QED BY <1>1, <1>4, <1>5, <1>6, LogGrows DEF HistoryInv, readVars

\* It is written.
LEMMA PostInv == ASSUME HistoryInv, NEW w \in Writer, Post(w) PROVE HistoryInv'
<1> DEFINE m == [mid |-> posting[w].mid, at |-> posting[w].at]
<1>1. /\ m.mid # 0 /\ log' = log \cup {m}
      /\ posting' = [posting EXCEPT ![w] = NoPost]
      /\ UNCHANGED <<now, nextMid, readVars>>
  BY DEF Post
<1>2. /\ posting[w] \in [at : {Never} \cup 0 .. now, mid : 0 .. nextMid - 1]
      /\ nextMid \in Nat \ {0} /\ now \in Nat
  BY DEF HistoryInv, HistoryTypes
<1>3. /\ m.mid \in 1 .. nextMid - 1 /\ m.at \in 0 .. now
      /\ \A o \in log : o.mid # m.mid
      /\ \A v \in Writer : posting[v].mid = m.mid => v = w
  BY <1>1, <1>2 DEF HistoryInv, PostsAreNew
<1>4. /\ posting'[w] = NoPost /\ \A v \in Writer \ {w} : posting'[v] = posting[v]
      /\ NoPost \in [at : {Never} \cup 0 .. now, mid : 0 .. nextMid - 1] /\ NoPost.mid = 0
  BY <1>1, <1>2 DEF HistoryInv, HistoryTypes, NoPost
<1> HIDE DEF m
<1>5. IsStore(log')
  <2>1. IsFiniteSet(log')
    BY <1>1, FS_AddElement DEF HistoryInv, HistoryTypes, IsStore
  <2> QED BY <1>1, <1>3, <2>1 DEF HistoryInv, HistoryTypes, IsStore
<1>6. HistoryTypes'
  <2>1. posting' \in [Writer -> [at : {Never} \cup 0 .. now, mid : 0 .. nextMid - 1]]
    BY <1>1, <1>4 DEF HistoryInv, HistoryTypes
  <2>2. \A o \in log' : o.mid \in 1 .. nextMid - 1 /\ o.at \in 0 .. now
    BY <1>1, <1>3 DEF HistoryInv, HistoryTypes
  <2> QED BY <1>1, <1>5, <2>1, <2>2
          DEF HistoryInv, HistoryTypes, readVars, NoQuery, NoCursor, Queries, IsStore
<1>7. PostsAreNew'
  <2>1. SUFFICES ASSUME NEW v \in Writer, posting'[v].mid # 0
                 PROVE  /\ posting'[v].at # Never
                        /\ \A o \in log' : o.mid # posting'[v].mid
                        /\ \A x \in Writer : posting'[x].mid = posting'[v].mid => x = v
    BY DEF PostsAreNew
  <2>2. v # w /\ posting'[v] = posting[v]
    BY <1>4, <2>1
  <2>3. posting[v].mid # m.mid
    BY <1>3, <2>2
  <2> QED BY <1>1, <1>4, <2>1, <2>2, <2>3 DEF HistoryInv, PostsAreNew
<1> QED BY <1>1, <1>5, <1>6, <1>7, LogGrows DEF HistoryInv, readVars

-----------------------------------------------------------------------------
\* What it is to have asked: a page of the newest, or a walk that begins.
LEMMA AskHistoryInv == ASSUME HistoryInv, NEW ask \in Queries, AskHistory(ask) PROVE HistoryInv'
<1>1. /\ reader = "idle" /\ query' = ask /\ cursor' = ask.before /\ atStart' = log
      /\ UNCHANGED <<now, nextMid, log, posting, pages>>
      /\ matched = {} /\ pages = 0
  BY DEF AskHistory, HistoryInv, HistoryTypes
<1>2. ask.before \in Nat /\ ask.limit \in Nat /\ ask.before_ts \in Int /\ ask.after_ts \in Int
  BY QueryFacts
<1>3. IsStore(log) /\ IsStore({m \in log : m.mid < ask.before})
  <2>1. IsStore(log)
    BY DEF HistoryInv, HistoryTypes
  <2>2. {m \in log : m.mid < ask.before} \subseteq log
    OBVIOUS
  <2> QED BY <2>1, <2>2, StorePart
<1>4. PostsAreNew'
  BY <1>1 DEF HistoryInv, PostsAreNew
<1>5. MaxPages \in Nat \ {0}
  BY PageFacts
<1>6. CASE NoFilter(ask)
  <2> DEFINE all == {m \in log : m.mid < ask.before}
  <2>1. matched' = Newest(all, ask.limit) /\ reader' = "done"
    BY <1>6 DEF AskHistory, Page
  <2>2. /\ matched' \subseteq all /\ IsFiniteSet(matched')
        /\ Cardinality(matched') \in Nat /\ Cardinality(matched') <= ask.limit
        /\ ask.limit <= Cardinality(all) => Cardinality(matched') = ask.limit
        /\ Cardinality(all) <= ask.limit => matched' = all
        /\ \A m \in all \ matched' : \A o \in matched' : m.mid < o.mid
    BY <1>2, <1>3, <2>1, NewestFacts
  <2>3. \A m : ~TooNew(m)' /\ ~TooOld(m)'
    BY <1>1, <1>6 DEF TooNew, TooOld, NoFilter
  <2>4. OnlyWhatWasAsked'
    <3>1. query'.limit = ask.limit /\ query'.before = ask.before
      BY <1>1
    <3>2. Cardinality(matched') <= IF query'.limit = 0 THEN 1 ELSE query'.limit
      BY <1>2, <2>2, <3>1
    <3> QED BY <2>2, <2>3, <3>1, <3>2 DEF OnlyWhatWasAsked
  <2>5. ASSUME NEW m \in log \ matched', m.mid < ask.before
        PROVE  Cardinality(NewerThan(matched', m)) >= ask.limit
    <3>1. m \in all \ matched'
      BY <2>5
    <3>2. ~(Cardinality(all) <= ask.limit)
      BY <2>2, <3>1
    <3>3. Cardinality(all) \in Nat
      BY <1>3, FS_CardinalityType DEF IsStore
    <3>4. Cardinality(matched') = ask.limit
      BY <1>2, <2>2, <3>2, <3>3
    <3>5. \A o \in matched' : o.mid > m.mid
      BY <1>3, <2>2, <3>1 DEF IsStore
    <3>6. NewerThan(matched', m) = matched'
      BY <3>5 DEF NewerThan
    <3> QED BY <1>2, <3>4, <3>6
  <2>6. NothingMissed'
    BY <1>1, <2>5 DEF NothingMissed, NewerThan
  <2>7. WalkIsWhole'
    BY <2>1 DEF WalkIsWhole
  <2>8. HistoryTypes'
    <3>1. query' \in Queries \cup {NoQuery} /\ cursor' \in Nat
      BY <1>1, <1>2
    <3>2. atStart' \subseteq log' /\ matched' \subseteq log' /\ IsStore(log')
      BY <1>1, <1>3, <2>2
    <3>3. reader' \in {"idle", "reading", "done"} /\ reader' # "idle"
      BY <2>1
    <3> HIDE DEF all
    <3> QED BY <1>1, <3>1, <3>2, <3>3
            DEF HistoryInv, HistoryTypes, IsStore, Queries, NoQuery, NoCursor
  <2> QED BY <1>4, <2>4, <2>6, <2>7, <2>8 DEF HistoryInv
<1>7. CASE ~NoFilter(ask)
  <2>1. matched' = {} /\ reader' = "reading"
    BY <1>7 DEF AskHistory
  <2>2. OnlyWhatWasAsked'
    BY <1>1, <1>2, <2>1, FS_EmptySet DEF OnlyWhatWasAsked
  <2>3. NothingMissed'
    BY <2>1 DEF NothingMissed
  <2>4. Cardinality(Walked') >= pages' * PageLength'
    <3>1. Walked' \subseteq log'
      BY DEF Walked
    <3>2. Cardinality(Walked') \in Nat
      BY <1>1, <1>3, <3>1, FS_Subset, FS_CardinalityType DEF IsStore
    <3>3. PageLength' \in Nat
      BY <1>1, <1>2, HistoryAssumption DEF PageLength
    <3> QED BY <1>1, <3>2, <3>3
  <2>5. WalkIsWhole'
    <3>1. ~NoFilter(query') /\ ~NoFilter(query)'
      BY <1>1, <1>7 DEF NoFilter
    <3>2. cursor' <= query'.before /\ pages' < MaxPages
      BY <1>1, <1>2, <1>5
    <3>3. \A m \in atStart' \ matched' : InWindow(m)' => m.mid < cursor'
      BY <1>1 DEF InWindow
    <3> QED BY <2>1, <2>4, <3>1, <3>2, <3>3 DEF WalkIsWhole
  <2>6. HistoryTypes'
    BY <1>1, <1>2, <1>3, <2>1
    DEF HistoryInv, HistoryTypes, IsStore, Queries, NoQuery, NoCursor
  <2> QED BY <1>4, <2>2, <2>3, <2>5, <2>6 DEF HistoryInv
<1> QED BY <1>6, <1>7

-----------------------------------------------------------------------------
\* A page of the walk: a full one, unless nothing older is left.
LEMMA BatchFacts ==
    ASSUME HistoryInv, reader = "reading",
           NEW batch, batch = Page(cursor, PageLength)
    PROVE  /\ batch \subseteq log /\ IsStore(batch) /\ Cardinality(batch) \in Nat
           /\ \A m \in batch : m.mid \in Nat /\ m.mid < cursor /\ m.mid < query.before
           /\ \A m \in log \ batch : m.mid < cursor =>
                  /\ Cardinality(batch) = PageLength /\ batch # {}
                  /\ \A o \in batch : m.mid < o.mid
<1> DEFINE older == {m \in log : m.mid < cursor}
<1>1. IsStore(log) /\ older \subseteq log /\ cursor \in Nat
  BY DEF HistoryInv, HistoryTypes
<1>2. IsStore(older)
  BY <1>1, StorePart
<1>3. PageLength \in Nat \ {0} /\ query.before \in Nat
  BY PageFacts
<1>4. batch = Newest(older, PageLength)
  BY DEF Page
<1>5. /\ batch \subseteq older /\ IsFiniteSet(batch) /\ Cardinality(batch) \in Nat
      /\ PageLength <= Cardinality(older) => Cardinality(batch) = PageLength
      /\ Cardinality(older) <= PageLength => batch = older
      /\ \A m \in older \ batch : \A o \in batch : m.mid < o.mid
  <2>1. PageLength \in Nat
    BY <1>3
  <2> HIDE DEF older
  <2> QED BY <1>2, <1>4, <2>1, NewestFacts
<1>6. IsStore(batch) /\ batch \subseteq log
  BY <1>1, <1>5, StorePart
<1>7. Cardinality(older) \in Nat
  BY <1>2, FS_CardinalityType DEF IsStore
<1>8. cursor <= query.before
  BY DEF HistoryInv, WalkIsWhole
<1>9. ASSUME NEW m \in batch PROVE m.mid \in Nat /\ m.mid < cursor /\ m.mid < query.before
  <2>1. m.mid \in Nat /\ m.mid < cursor
    BY <1>5, <1>6 DEF IsStore
  <2> QED BY <1>1, <1>3, <1>8, <2>1
<1>10. ASSUME NEW m \in log \ batch, m.mid < cursor
       PROVE  /\ Cardinality(batch) = PageLength /\ batch # {}
              /\ \A o \in batch : m.mid < o.mid
  <2>1. m \in older \ batch
    BY <1>10
  <2>2. ~(Cardinality(older) <= PageLength)
    BY <1>5, <2>1
  <2>3. Cardinality(batch) = PageLength
    BY <1>3, <1>5, <1>7, <2>2
  <2>4. batch # {}
    BY <1>3, <2>3, FS_EmptySet
  <2> QED BY <1>5, <2>1, <2>3, <2>4
<1> QED BY <1>5, <1>6, <1>9, <1>10

\* What the walk takes of a page: as many as are still asked for, or all of the
\* window; and those it leaves are older.
LEMMA FoundFacts ==
    ASSUME HistoryInv, reader = "reading",
           NEW batch, batch = Page(cursor, PageLength)
    PROVE  /\ Found(batch) \subseteq batch /\ matched \cap Found(batch) = {}
           /\ \A m \in Found(batch) : ~TooNew(m) /\ ~TooOld(m)
           /\ IsFiniteSet(matched \cup Found(batch))
           /\ Cardinality(matched \cup Found(batch)) \in Nat
           /\ Cardinality(matched \cup Found(batch)) <= IF query.limit = 0 THEN 1 ELSE query.limit
           /\ \A m \in batch \ Found(batch) :
                 /\ ~TooNew(m) /\ ~TooOld(m) /\ ~\E o \in NewerThan(batch, m) : TooOld(o)
                 => /\ Cardinality(matched \cup Found(batch)) >= query.limit
                    /\ \A o \in Found(batch) : m.mid < o.mid
<1> DEFINE window == {m \in batch : /\ ~TooNew(m) /\ ~TooOld(m)
                                    /\ ~\E o \in NewerThan(batch, m) : TooOld(o)}
           room == query.limit - Cardinality(matched)
           k == IF room < 1 THEN 1 ELSE room
           new == Newest(window, k)
           cap == IF query.limit = 0 THEN 1 ELSE query.limit
<1>1. Found(batch) = new
  BY DEF Found
<1>2. query.limit \in Nat
  BY PageFacts
<1>3. /\ batch \subseteq log /\ IsStore(batch)
      /\ \A m \in batch : m.mid \in Nat /\ m.mid < cursor
  BY BatchFacts
<1>4. IsFiniteSet(matched) /\ Cardinality(matched) \in Nat /\ matched \subseteq log
  BY FS_Subset, FS_CardinalityType DEF HistoryInv, HistoryTypes, IsStore
<1>5. (matched = {} \/ Cardinality(matched) < query.limit) /\ \A m \in matched : cursor <= m.mid
  BY DEF HistoryInv, WalkIsWhole
<1>6. k \in Nat /\ Cardinality(matched) + k = cap /\ cap \in Nat /\ query.limit <= cap
  <2>1. matched = {} => Cardinality(matched) = 0
    BY FS_EmptySet
  <2>2. CASE query.limit = 0
    BY <1>2, <1>4, <1>5, <2>1, <2>2
  <2>3. CASE query.limit # 0
    <3>1. Cardinality(matched) < query.limit
      BY <1>2, <1>5, <2>1, <2>3
    <3> QED BY <1>2, <1>4, <2>3, <3>1
  <2> QED BY <2>2, <2>3
<1>7. IsStore(window)
  <2>1. window \subseteq batch
    OBVIOUS
  <2> QED BY <1>3, <2>1, StorePart
<1>8. window \subseteq batch /\ \A m \in window : ~TooNew(m) /\ ~TooOld(m)
  OBVIOUS
<1>9. \A m \in batch :
          (~TooNew(m) /\ ~TooOld(m) /\ ~\E o \in NewerThan(batch, m) : TooOld(o)) => m \in window
  OBVIOUS
<1> HIDE DEF window, k, cap, room
<1>10. /\ new \subseteq window /\ IsFiniteSet(new) /\ Cardinality(new) \in Nat
       /\ Cardinality(new) <= k
       /\ k <= Cardinality(window) => Cardinality(new) = k
       /\ Cardinality(window) <= k => new = window
       /\ \A m \in window \ new : \A o \in new : m.mid < o.mid
  BY <1>6, <1>7, NewestFacts
<1>11. Cardinality(window) \in Nat
  BY <1>7, FS_CardinalityType DEF IsStore
<1> HIDE DEF new
<1>12. matched \cap new = {}
  <2>1. ASSUME NEW m \in matched \cap new PROVE FALSE
    <3>1. m \in batch /\ m \in matched
      BY <1>8, <1>10
    <3>2. m.mid \in Nat /\ m.mid < cursor /\ cursor <= m.mid /\ cursor \in Nat
      BY <1>3, <1>5, <3>1 DEF HistoryInv, HistoryTypes
    <3> QED BY <3>2
  <2> QED BY <2>1
<1>13. /\ IsFiniteSet(matched \cup new)
       /\ Cardinality(matched \cup new) = Cardinality(matched) + Cardinality(new)
  <2>1. /\ IsFiniteSet(matched \cup new)
        /\ Cardinality(matched \cup new) =
             Cardinality(matched) + Cardinality(new) - Cardinality(matched \cap new)
    BY <1>4, <1>10, FS_Union
  <2>2. Cardinality(matched \cap new) = 0
    BY <1>12, FS_EmptySet
  <2> QED BY <1>4, <1>10, <2>1, <2>2
<1>14. Cardinality(matched \cup new) \in Nat /\ Cardinality(matched \cup new) <= cap
  BY <1>4, <1>6, <1>10, <1>13
<1>15. ASSUME NEW m \in batch \ new,
              ~TooNew(m) /\ ~TooOld(m) /\ ~\E o \in NewerThan(batch, m) : TooOld(o)
       PROVE  /\ Cardinality(matched \cup new) >= query.limit
              /\ \A o \in new : m.mid < o.mid
  <2>1. m \in window \ new
    BY <1>9, <1>15
  <2>2. Cardinality(new) = k
    BY <1>6, <1>10, <1>11, <2>1
  <2>3. Cardinality(matched \cup new) >= query.limit
    BY <1>2, <1>6, <1>13, <2>2
  <2> QED BY <1>10, <2>1, <2>3
<1> QED BY <1>1, <1>8, <1>10, <1>12, <1>13, <1>14, <1>15 DEF cap

\* All that the walk went over, and the page, lie before the message that is
\* reached next.
LEMMA WalkCount ==
    ASSUME HistoryInv, reader = "reading",
           NEW batch, batch = Page(cursor, PageLength),
           NEW m \in atStart \ batch, m.mid < cursor,
           NEW over, over \subseteq log,
           \A o \in log : cursor <= o.mid /\ o.mid < query.before => o \in over,
           batch \subseteq over
    PROVE  Cardinality(over) >= (pages + 1) * PageLength
<1>1. m \in log /\ IsFiniteSet(log) /\ IsFiniteSet(over)
  BY FS_Subset DEF HistoryInv, HistoryTypes, IsStore
<1>2. PageLength \in Nat /\ pages \in Nat /\ cursor \in Nat
  BY PageFacts DEF HistoryInv, HistoryTypes
<1>3. Cardinality(batch) = PageLength /\ \A o \in batch : o.mid \in Nat /\ o.mid < cursor
  BY <1>1, BatchFacts
<1>4. Cardinality(Walked) >= pages * PageLength
  BY DEF HistoryInv, WalkIsWhole
<1>5. Walked \subseteq over /\ \A o \in Walked : cursor <= o.mid
  BY DEF Walked
<1>6. Walked \cap batch = {}
  <2>1. ASSUME NEW o \in Walked \cap batch PROVE FALSE
    <3>1. cursor <= o.mid /\ o.mid < cursor /\ o.mid \in Nat
      BY <1>3, <1>5
    <3> QED BY <1>2, <3>1
  <2> QED BY <2>1
<1>7. /\ IsFiniteSet(Walked) /\ IsFiniteSet(batch) /\ Cardinality(Walked) \in Nat
      /\ Walked \cup batch \subseteq over
  BY <1>1, <1>5, FS_Subset, FS_CardinalityType
<1>8. Cardinality(Walked \cup batch) = Cardinality(Walked) + PageLength
  <2>1. Cardinality(Walked \cap batch) = 0
    BY <1>6, FS_EmptySet
  <2>2. Cardinality(Walked \cup batch)
          = Cardinality(Walked) + Cardinality(batch) - Cardinality(Walked \cap batch)
    BY <1>7, FS_Union
  <2> QED BY <1>2, <1>3, <1>7, <2>1, <2>2
<1>9. Cardinality(Walked \cup batch) <= Cardinality(over) /\ Cardinality(over) \in Nat
  BY <1>1, <1>7, FS_Subset, FS_CardinalityType
<1>10. (pages + 1) * PageLength = pages * PageLength + PageLength /\ pages * PageLength \in Nat
  BY <1>2
<1> QED BY <1>2, <1>4, <1>7, <1>8, <1>9, <1>10

\* One page more.
LEMMA ReadPageInv == ASSUME HistoryInv, ReadPage PROVE HistoryInv'
<1> DEFINE batch == Page(cursor, PageLength)
           all == matched \cup Found(batch)
<1>1. /\ reader = "reading" /\ matched' = all /\ pages' = pages + 1
      /\ UNCHANGED <<now, nextMid, log, posting, query, atStart>>
      /\ reader' \in {"done", "reading"}
      /\ cursor' = IF batch = {} THEN cursor ELSE NextCursor(batch)
      /\ reader' = "done" => \/ batch = {} \/ Cardinality(all) >= query.limit
                             \/ \E m \in batch : TooOld(m)
                             \/ pages + 1 = MaxPages
      /\ reader' = "reading" => /\ batch # {} /\ ~(Cardinality(all) >= query.limit)
                                /\ pages + 1 # MaxPages
  BY DEF ReadPage
<1>2. /\ batch \subseteq log /\ IsStore(batch) /\ Cardinality(batch) \in Nat
      /\ \A m \in batch : m.mid \in Nat /\ m.mid < cursor /\ m.mid < query.before
      /\ \A m \in log \ batch : m.mid < cursor =>
             /\ Cardinality(batch) = PageLength /\ batch # {}
             /\ \A o \in batch : m.mid < o.mid
  BY <1>1, BatchFacts
<1>3. /\ Found(batch) \subseteq batch /\ matched \cap Found(batch) = {}
      /\ \A m \in Found(batch) : ~TooNew(m) /\ ~TooOld(m)
      /\ IsFiniteSet(all) /\ Cardinality(all) \in Nat
      /\ Cardinality(all) <= IF query.limit = 0 THEN 1 ELSE query.limit
      /\ \A m \in batch \ Found(batch) :
            /\ ~TooNew(m) /\ ~TooOld(m) /\ ~\E o \in NewerThan(batch, m) : TooOld(o)
            => /\ Cardinality(all) >= query.limit
               /\ \A o \in Found(batch) : m.mid < o.mid
  BY <1>1, FoundFacts
<1>4. /\ cursor \in Nat /\ query.before \in Nat /\ cursor <= query.before /\ query.limit \in Nat
      /\ ~NoFilter(query) /\ pages \in Nat /\ MaxPages \in Nat /\ pages < MaxPages
      /\ matched \subseteq log /\ atStart \subseteq log
      /\ \A m \in matched : cursor <= m.mid
      /\ \A m \in log : m.mid \in Nat
  BY <1>1, PageFacts DEF HistoryInv, HistoryTypes, WalkIsWhole, IsStore
<1>5. IsStore(log)
  BY DEF HistoryInv, HistoryTypes
<1> HIDE DEF batch
<1>6. ASSUME batch # {}
      PROVE  /\ \E m \in batch : cursor' = m.mid
             /\ \A m \in batch : cursor' <= m.mid
  <2>1. \E m \in batch : \A o \in batch : m.mid <= o.mid
    BY <1>2, <1>6, OldestExists
  <2> DEFINE least == CHOOSE m \in batch : \A o \in batch : m.mid <= o.mid
  <2>2. least \in batch /\ \A o \in batch : least.mid <= o.mid
    BY <2>1
  <2>3. cursor' = least.mid
    BY <1>1, <1>6 DEF NextCursor
  <2> QED BY <2>2, <2>3
<1>7. \A m : /\ TooNew(m)' = TooNew(m) /\ TooOld(m)' = TooOld(m) /\ InWindow(m)' = InWindow(m)
             /\ CutOff(m)' = CutOff(m)
  BY <1>1 DEF TooNew, TooOld, InWindow, CutOff, PageLength
\* Of the window, what was there is found, or older than the page, or it has
\* its reason.
<1>8. ASSUME NEW m \in atStart \ all, InWindow(m)
      PROVE  \/ m \in log \ batch /\ m.mid < cursor
             \/ Accounted(m)'
  <2>1. m \in log /\ m.mid \in Nat /\ m \notin matched /\ m \notin Found(batch)
        /\ ~TooNew(m) /\ ~TooOld(m)
    BY <1>4, <1>8 DEF InWindow
  <2>2. CASE ~(m.mid < cursor)
    <3>1. Accounted(m)
      BY <1>1, <1>8, <2>1, <2>2 DEF HistoryInv, WalkIsWhole
    <3>2. CASE CutOff(m)
      BY <1>7, <3>2 DEF Accounted
    <3>3. CASE Cardinality(NewerThan(matched, m)) >= query.limit
      <4>1. /\ NewerThan(matched, m) \subseteq NewerThan(all, m) /\ NewerThan(all, m) \subseteq all
        BY DEF NewerThan
      <4>2. /\ Cardinality(NewerThan(matched, m)) <= Cardinality(NewerThan(all, m))
            /\ Cardinality(NewerThan(matched, m)) \in Nat
            /\ Cardinality(NewerThan(all, m)) \in Nat
        BY <1>3, <4>1, FS_Subset, FS_CardinalityType
      <4>3. Cardinality(NewerThan(all, m)) >= query.limit
        BY <1>4, <3>3, <4>2
      <4>4. NewerThan(matched, m)' = NewerThan(all, m)
        BY <1>1 DEF NewerThan
      <4> QED BY <1>1, <4>3, <4>4 DEF Accounted
    <3> QED BY <3>1, <3>2, <3>3 DEF Accounted
  <2>3. CASE m.mid < cursor /\ m \in batch
    <3>1. CASE \E o \in NewerThan(batch, m) : TooOld(o)
      <4>1. PICK o \in batch : o.mid > m.mid /\ TooOld(o)
        BY <3>1 DEF NewerThan
      <4>2. o \in log /\ o.mid < query.before
        BY <1>2, <4>1
      <4>3. CutOff(m)
        BY <4>1, <4>2 DEF CutOff
      <4> QED BY <1>7, <4>3 DEF Accounted
    <3>2. CASE ~\E o \in NewerThan(batch, m) : TooOld(o)
      <4>1. Cardinality(all) >= query.limit /\ \A o \in Found(batch) : m.mid < o.mid
        BY <1>3, <2>1, <2>3, <3>2
      <4>2. \A o \in matched : m.mid < o.mid
        BY <1>4, <2>1, <2>3
      <4>3. \A o \in all : o.mid > m.mid
        BY <1>2, <1>3, <1>4, <2>1, <4>1, <4>2
      <4>4. NewerThan(matched, m)' = all
        BY <1>1, <4>3 DEF NewerThan
      <4> QED BY <1>1, <4>1, <4>4 DEF Accounted
    <3> QED BY <3>1, <3>2
  <2> QED BY <2>1, <2>2, <2>3
<1>9. OnlyWhatWasAsked'
  <2>1. ASSUME NEW m \in all PROVE m.mid < query.before /\ ~TooNew(m) /\ ~TooOld(m)
    BY <1>2, <1>3 DEF HistoryInv, OnlyWhatWasAsked
  <2> HIDE DEF all
  <2> QED BY <1>1, <1>3, <1>7, <2>1 DEF OnlyWhatWasAsked
<1>10. WalkIsWhole'
  <2>1. SUFFICES ASSUME reader' = "reading" PROVE WalkIsWhole'
    BY DEF WalkIsWhole
  <2>2. PICK x \in batch : cursor' = x.mid
    BY <1>1, <1>6, <2>1
  <2>3. cursor' \in Nat /\ cursor' < cursor /\ \A m \in batch : cursor' <= m.mid
    BY <1>1, <1>2, <1>6, <2>1, <2>2
  <2>4. /\ pages' < MaxPages /\ cursor' <= query'.before
        /\ Cardinality(matched') < query'.limit
    BY <1>1, <1>3, <1>4, <2>1, <2>3
  <2>5. \A m \in matched' : cursor' <= m.mid
    <3>1. \A m \in matched : cursor' <= m.mid
      BY <1>4, <2>3
    <3> QED BY <1>1, <1>3, <2>3, <3>1
  <2>6. \A m \in atStart' \ matched' : InWindow(m)' => m.mid < cursor' \/ Accounted(m)'
    <3>1. ASSUME NEW m \in atStart \ all, InWindow(m) PROVE m.mid < cursor' \/ Accounted(m)'
      BY <1>2, <1>8, <2>2, <3>1
    <3> QED BY <1>1, <1>7, <3>1
  <2>7. ASSUME NEW m \in atStart, m.mid < cursor'
        PROVE  Cardinality(Walked') >= pages' * PageLength'
    <3>1. m.mid < cursor /\ m \notin batch
      BY <1>2, <1>4, <2>3, <2>7
    <3>2. PageLength' = PageLength
      BY <1>1 DEF PageLength
    <3> DEFINE over == {o \in log : cursor' <= o.mid /\ o.mid < query.before}
    <3>3. Walked' = over
      BY <1>1 DEF Walked
    <3>4. \A o \in log : cursor <= o.mid /\ o.mid < query.before => o \in over
      BY <1>4, <2>3
    <3>5. batch \subseteq over /\ over \subseteq log
      BY <1>2, <2>3
    <3> HIDE DEF over
    <3>6. Cardinality(over) >= (pages + 1) * PageLength
      BY <1>1, <3>1, <3>4, <3>5, WalkCount DEF batch
    <3> QED BY <1>1, <3>2, <3>3, <3>6
  <2>8. ~NoFilter(query)'
    BY <1>1, <1>4 DEF NoFilter
  <2> QED BY <1>1, <2>4, <2>5, <2>6, <2>7, <2>8 DEF WalkIsWhole
<1>11. NothingMissed'
  <2>1. SUFFICES ASSUME reader' = "done", NEW m \in atStart \ all, InWindow(m)
                 PROVE  Cardinality(NewerThan(all, m)) >= query.limit \/ CutOff(m)
    BY <1>1, <1>4, <1>7 DEF NothingMissed, InWindow, NoFilter, NewerThan
  <2>2. CASE Accounted(m)'
    <3>1. NewerThan(matched, m)' = NewerThan(all, m)
      BY <1>1 DEF NewerThan
    <3> QED BY <1>1, <1>7, <2>2, <3>1 DEF Accounted
  <2>3. CASE m \in log \ batch /\ m.mid < cursor
    <3>1. batch # {} /\ \A o \in batch : m.mid < o.mid
      BY <1>2, <2>3
    <3>2. m.mid \in Nat
      BY <1>4, <2>3
    <3>3. CASE Cardinality(all) >= query.limit
      <4>1. \A o \in all : o.mid > m.mid
        BY <1>2, <1>3, <1>4, <2>3, <3>1, <3>2
      <4>2. NewerThan(all, m) = all
        BY <4>1 DEF NewerThan
      <4> QED BY <3>3, <4>2
    <3>4. CASE \E o \in batch : TooOld(o)
      <4>1. PICK o \in batch : TooOld(o)
        BY <3>4
      <4>2. o \in log /\ o.mid > m.mid /\ o.mid < query.before
        BY <1>2, <3>1, <3>2, <4>1
      <4> QED BY <4>1, <4>2 DEF CutOff
    <3>5. CASE pages + 1 = MaxPages
      <4> DEFINE over == {o \in log : o.mid > m.mid /\ o.mid < query.before}
      <4>1. over \subseteq log /\ batch \subseteq over
        BY <1>2, <3>1, <3>2
      <4>2. \A o \in log : cursor <= o.mid /\ o.mid < query.before => o \in over
        BY <1>4, <2>3, <3>2
      <4> HIDE DEF over
      <4>3. Cardinality(over) >= (pages + 1) * PageLength
        BY <1>1, <2>1, <2>3, <4>1, <4>2, WalkCount DEF batch
      <4> QED BY <3>5, <4>3 DEF CutOff, over
    <3> QED BY <1>1, <2>1, <3>1, <3>3, <3>4, <3>5
  <2> QED BY <1>8, <2>1, <2>2, <2>3
<1>12. HistoryTypes'
  <2>1. cursor' \in Nat
    BY <1>1, <1>2, <1>4, <1>6
  <2>2. pages' \in 0 .. MaxPages
    BY <1>1, <1>4
  <2>3. matched' \subseteq log'
    BY <1>1, <1>2, <1>3, <1>4
  <2>4. query' \in Queries \cup {NoQuery}
    BY <1>1 DEF HistoryInv, HistoryTypes
  <2>5. IsStore(log')
    BY <1>1, <1>5
  <2> HIDE DEF all
  <2> QED BY <1>1, <2>1, <2>2, <2>3, <2>4, <2>5
          DEF HistoryInv, HistoryTypes, Queries, NoQuery, NoCursor
<1>13. PostsAreNew'
  BY <1>1 DEF HistoryInv, PostsAreNew
<1> QED BY <1>9, <1>10, <1>11, <1>12, <1>13 DEF HistoryInv

-----------------------------------------------------------------------------
\* Every step keeps the invariant.
LEMMA HistoryNextInv == ASSUME HistoryInv, [HistoryNext]_historyVars PROVE HistoryInv'
<1>1. CASE HistoryNext
  BY <1>1, TickInv, TakeTimeInv, TakeMidInv, PostInv, AskHistoryInv, ReadPageInv DEF HistoryNext
<1>2. CASE UNCHANGED historyVars
  <2>1. UNCHANGED <<now, nextMid, log, posting, query, cursor, pages, matched, reader, atStart>>
    BY <1>2 DEF historyVars
  <2>2. HistoryTypes' /\ PostsAreNew'
    BY <2>1 DEF HistoryInv, HistoryTypes, PostsAreNew, IsStore, Queries, NoQuery, NoCursor
  <2>3. IsStore(log')
    BY <2>1 DEF HistoryInv, HistoryTypes
  <2> QED BY <2>1, <2>2, <2>3, LogGrows DEF HistoryInv
<1> QED BY <1>1, <1>2

\* Of a conversation that is read backwards, by page or between two moments,
\* comes what was asked for and was there; if something of the window does not
\* come, as many newer messages did as were asked for, or the walk was cut off
\* as the code does it (fetch_history_by_time): for any number of writers,
\* whose messages come in meanwhile in any order of times, ids and writes, and
\* for every page size, number of pages, window and limit.
THEOREM HistoryHasNoHoles == HistorySpec => []HistoryComplete
<1>1. HistoryInit => HistoryInv
  BY HistoryInitInv
<1>2. HistoryInv /\ [HistoryNext]_historyVars => HistoryInv'
  BY HistoryNextInv
<1>3. HistoryInv => HistoryComplete
  BY HistoryInvComplete
<1> QED BY <1>1, <1>2, <1>3, PTL DEF HistorySpec

=============================================================================
