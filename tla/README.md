# A verification of vocechat-server

vocechat-server is a chat server in one process: HTTP handlers of poem on tokio,
SQLite (through sqlx) for users, groups, devices and keys, a sled database
(`crates/msgdb`) for message bodies, a cache of users and groups in memory, and
server-sent event streams to the clients.  This directory holds TLA+ modules of the
parts whose behaviour depends on time and order, TLC configurations that check them
on small instances, and proofs, checked by TLAPS, of what matters most.

Paths below are relative to the repository; `src/state.rs` of the server is
`src/src/state.rs` in `PROJECT.json`.

## 1. Inventory

| component | state | operations | properties that make it correct |
|---|---|---|---|
| message store, `crates/msgdb` | one sled tree: bodies, indexes, markers, the key of the id sequence; the lease of ids in memory | `generate_id`, `send_to_dm`, `send_to_group`, `send_to_dm_with_pending_marker`, markers, open, drop | an id is never handed out twice, a stored message never changes, a message and its marker appear together |
| deferred direct messages, `src/e2ee_v2.rs`, `src/api/e2e.rs` | markers in sled, `e2e_pending_message`, `e2e_pending_envelope`, `e2e_device_identity` in SQLite | `send_message`, `reconcile_pending_dm_markers`, `get_pending`, `post_pending_envelope`, `put_identity` | no deferred message is lost between the two stores; every marker is replayed; envelopes belong to live rows, to the target and to the identity they were wrapped for; senders are told when an envelope is missing |
| MLS sequence reservation, `src/e2ee_v2.rs` | `e2e_v2_mls_commit`, `_welcome`, `_application` | `reserve_mls_sequence` from `POST /group/:gid/send` | one record per slot, no gaps, what is stored was reserved |
| MLS delivery service, `src/mls_delivery.rs` | `mls_device`, `mls_key_package`, `mls_route` | credentials, key packages, routes, the initialization lease | a key package is given once, all learn one route, one device sets the group up |
| event bus and streams, `src/api/user.rs`, `src/state.rs` | the tokio broadcast channel, `CacheDevice.sender`, the loops | `events`, `events_loop`, `send_message`, `forward_chat_messages_to_webhook` | no gap and no duplicate between history and bus, online states that are announced agree with the cache |
| locks of the shared state, everywhere | `State.cache`, `State.key_config`, `G_LICENSE` | every handler | nobody waits in a circle, every wait ends |
| users and groups, `src/state.rs`, `src/create_user.rs`, `src/api/user.rs`, `src/api/group.rs`, `src/api/admin_user.rs` | rows in SQLite and their copies in `State.cache` | create, update, delete, join, leave, owners, mute, read index | the cache agrees with the rows, a group keeps an owner, members exist |
| sign-in and tokens, `src/api/token.rs`, `src/create_user.rs`, `crates/magic-link` | rows of accounts, identities, `refresh_token`, `device`; codes and users in the cache | login, register, bind, renew, logout, codes and links, change and upgrade of passwords, deletion | one account per identity and address, a session ends with its logout, one link per address |
| bots and their end-to-end encryption, `src/bot_e2ee.rs`, `src/api/bot.rs` | the sealed vault, its public mirror, `e2e_identity`, `e2e_prekey`, channels, pending secrets | initialize, rotate, rebuild, enable a channel, send, catch up, open inbound envelopes | vault and published keys belong together, a used secret is gone, an envelope can be opened by whom it is for |
| one-time prekeys, backups and settings of DMs, `src/api/e2e.rs` | `e2e_prekey`, `e2e_key_backup`, `e2e_dm_setting` | put, get bundle, claim, put setting | a prekey that was claimed is not claimed again; plain text only where both allow it |
| merged, pinned and favourite messages | merged keys in sled, `CacheGroup.pinned_messages`, `pinned_message` | edit, reaction, delete, pin, unpin, archive | a pinned copy follows the merged one and survives a restart |
| uploads, `src/api/resource.rs` | files in the temporary and the final directory | prepare, chunks, moves, thumbnail, clean-up | an answered upload is whole and is what the answer says |
| settings, profiles, API keys of bots, `src/api/user.rs`, `src/api/admin_user.rs` | rows of `mute`, `burn_after_reading`, `read_index`, `user`, `user_log`, `bot_key`; `CacheUser` | mute, burn, read, rename, avatar, create and delete keys, tasks that clean and write back | rows, cache and the clients' copies agree; a revoked key stays revoked |
| configuration, `src/state.rs`, `src/api/admin_*.rs` | `config` rows, instances in the cache | set, merge, load | what is in use is what is stored |
| archives and favourites, `src/api/archive.rs`, `src/api/favorite.rs` | files per day, a file and a row per favourite | create, delete, the task that removes days | a favourite that was answered stays as it was made |
| sending and history, `src/api/message.rs` | the cache's settings and tokens of phones, the store | send to a user, notify, fetch by time and by page | plain text only if it was allowed, only phones that are signed in are told, no hole in what is read back |
| administration, license, link previews, audio calls, action log, start-up | configuration rows, one license | read and write back | (configuration above) |
| ratchet and MLS libraries, `crates/voce-e2ee-core` | sessions of clients and bots | encrypt, decrypt, skip | no key seals two messages, a message that was not read stays readable |

How they interact.  A handler of `send_message` takes the read side of `State.cache`,
checks permissions there, writes to sled in a blocking task, projects the marker into
SQLite, broadcasts on the bus, and drops its guard.  Handlers that change users, groups
or devices take the write side and keep it across their SQLite transaction, so SQLite
and cache change together for everyone who looks through the cache.  Handlers of
`src/api/e2e.rs` and `src/mls_delivery.rs` use SQLite alone and interleave with
everything.  A stream reads the store and then the bus.

What is hard.  Two stores without a common transaction, and sled loses its tail in a
crash; awaits between every two statements; a client that hangs up drops the future of
its handler at an await, while the blocking task it started runs on; locks that are
kept across awaits and taken in different orders; a bounded bus whose slow receivers
are cut off; a lease that runs out while its holder is at work.

Which of these have a module is in sections 2 and 9; the hazards that each property is
for are listed in `PROJECT.json`.

## 2. Modules and plan

The order is that of importance: what loses or overwrites messages first, then what
orders them, then what delivers them, then what they all wait on, then the state that
decides who gets them, then what surrounds them.

| module | models | builds on | run |
|---|---|---|---|
| `MessageLog` | abstract: a log of messages, each under an id of its own; a crash loses what was not persisted | | `msgdb` (refined) |
| `MsgDb` | the message store, id lease, markers, flush, crash | implements `MessageLog`; proofs in `DeferredDmProofs` | `msgdb` |
| `DeferredDm` | deferred DMs over the two stores | `EXTENDS MsgDb`, so every step of the store is there; proofs in `DeferredDmProofs` | `dm_store`, `dm_live`, `dm_poison` |
| `MlsSequence` | slots of MLS records | `MessageLog` as its message store; proofs in `MlsProofs` | `mls` |
| `MlsDelivery` | key packages, routes, the initialization lease | proofs in `MlsProofs` | `mls` |
| `EventStream` | sends, the bus, the streams, the online state | proofs in `EventStreamProofs` | `streams` |
| `Locks`, `LockOrder` | fair locks; the sequences of guards that handlers take | `MC_Locks` joins them; proofs in `LocksProofs` | `lock_order` |
| `Directory` | users and groups in SQLite, in the cache and at the clients | proofs in `DirectoryProofs` | `directory` |
| `Pinned` | merged and pinned messages, the task that updates them | proofs in `LocksProofs` | `pinned` |
| `MagicCodes` | the two maps of codes | | `sign_in` |
| `SignIn` | accounts, identities, passwords, sessions | `EXTENDS MagicCodes`; proofs in `SignInProofs` | `sign_in` |
| `PreKeys` | published identities and one-time prekeys | | `bot_keys` |
| `BotE2ee` | the vault of a bot, its mirrors, its channel | `EXTENDS PreKeys` | `bot_keys` |
| `BotDm` | direct messages from and to a bot | `EXTENDS BotE2ee`; proofs in `BotDmProofs` | `bot_keys` |
| `Settings`, `Profiles`, `ApiKeys`, `ServerConfig`, `Uploads`, `Archives` | what the server keeps for single users | joined by `UserData`; proofs in `UserDataProofs` | `user_data` |
| `Ratchet`, `Sending`, `History` | a direct message before the store, on its way in, and read back | joined by `UserData`; proofs about `Sending` and `History` in `UserDataProofs`, about `Ratchet` in `MlsProofs` | `user_data` |
`MC_*` modules give the constants their values.

Left to do, in this order: messages of bots to groups; guests and the expiry of tokens; key
backups.  Of what the runs check, every safety property and every action property is stated
by a theorem (section 5).

## 3. How the modules correspond to the code

**MsgDb.**  `db` is the sled tree; `disk` is the prefix of its log that has reached the
disk.  `next`, `leased` are the fields of `Sequence`.  `generate_id` and the batch of
`send_to_*` are two steps, since the mutex is only held in the first; `taken` is the id
in between.  A message's body and index keys and its marker are one batch, hence one
step.  `Close` is `Drop for MsgDb`, which gives the unused lease back; `Crash` is any
other end.

**DeferredDm.**  One request is one handler under way: `op` which one, `pc` where it is
between two awaits, `todo` the markers it has listed and not handled.  `Scan`, `Project`
and `DropMarker` are the three awaits of `reconcile_pending_dm_markers`, which
`send_message`, `get_pending`, `post_pending_envelope` and the start of the server run.
`RequestCut` is an error of SQLite or a client that hangs up; `HangUp` is the hang-up
during the blocking write, which still happens.  The rows are functions and sets with
the foreign keys of the migrations: what cascades in SQLite is removed in the same step.
Handlers that hold the write side of `State.cache` do not run while a send is under way.

**MlsSequence.**  `reserved` is the union of the three tables.  `Reserve` is
`reserve_mls_sequence`, one transaction.  It reads the greatest generation and epoch and then
inserts, and is one step all the same: if another transaction has written since it began
to read, its insert fails (a stale snapshot cannot be written over), so what it read is what
it writes beside.  `SendEnds` is every
way in which `send` ends after it without a stored record.  Only one group: no statement
on these tables touches two.

**MlsDelivery.**  A step is a statement, or a transaction that starts with its write.  A
transaction that reads first can write only if no one else has written since (`fresh`).
`claim` and `answer` record what requests were told.  The two MLS modules share no table,
so a behaviour of `MC_Mls` is about one of them.

**EventStream.**  `queue` is what a receiver of the tokio broadcast channel has not read, at
most `Capacity` (128 in the code); a receiver that falls behind is `lagged`.  A stream is at
"loop" or "cleanup" of `events_loop`.  `events` itself is several steps: it puts the sender
in place and announces the user ("opening", `BeginSubscribe`), lists what is stored, and
only then starts the loop; an error or a hang-up in between leaves a sender without a loop
("failed"), and `silent` notes a user whose last sender was of that kind.  The steps that
hold the read side of the cache lock are under way when `Reading`; the others need that it
is free.  A client's last mid is the last that it received on an earlier stream of the
device.

**Locks, LockOrder.**  `Locks` is tokio's `RwLock` and `Mutex`: `queue` is their list of
waiters, first in, first out, a reader waits behind a writer that waits.  `LockOrder`
writes each handler as the sequence of guards it takes and drops, with the scope that
Rust gives them: a `let` guard until the end of its block, a temporary until the end of
its statement.

**Directory.**  `rows` are `user`, `group`, `group_user`; `cache` the same in `State.cache`;
`view` what each client with a stream lists.  A handler is one step, since it keeps the
write lock from its first check to its events; `AfterCommit` lets it stop at its commit, and
`cut` notes it until a restart.  `register` takes the lock twice (`CreateUser`,
`JoinInvited`, `EndRegister`); a device of the new user may connect in between, and
`unheard` has the groups that such a client is not told of.  Tokens are not checked against
the cache (`api_checker`), so users that are deleted go on making requests.

**Pinned.**  `merged` are the `FMSG` keys, `pinned` the copies in `CacheGroup`, `pinRows`
the table.  `Store`, `Merge`, `Tell` are the steps of `send_message`; `Receive` and `Apply`
those of `process_msg_updated`, which reads before it has the lock.  `disk` is what of the
messages has reached the disk (`Flush`): `Restart` goes back to it, and the rows stay.  `lost`
are the rows whose message it did not find, which `load_groups_cache` passes over.
`dropped`, `shared` and `torn` name what the properties leave out (section 8).

**MagicCodes, SignIn.**  `codes` and `mailCode` are `MagicCodes`; a code is drawn from a
small set, so it may meet one in use.  `rows` and `cache` are the account rows and
`CacheUser`; an identity is a row of one of the tables of third parties.  A login with an
identity is `StartSignIn` (what the third party answers), the lookup of its row, the
search for an account with the same address where there is one, `CreateUser`, and `DoLogin`,
with other requests in between; a password is verified without the lock and written
afterwards, row first.  `renew` reads the refresh token and replaces it in two statements, of
which the second names only the device: `token` is the login from which the token of a row
came by renewals, and `overtaken` are the logins that were renewed while their device logged
in again.

**PreKeys, BotE2ee, BotDm.**  A key is the generation it was made in.  `identity` and
`prekey` are what clients fetch; `bot` is the row of the vault with its public mirror.
A handler's copy of the vault is in `arg`; it is written back without a comparison, which
is what `rotate`, `rebuild` and an inbound envelope race on.  `BotDm` adds the sends:
`Candidate`, the claim of a one-time prekey with its retries, the message, the envelopes,
the content key that is kept until a device comes (`secret`).  A behaviour uses the
handlers of one of `Plans` together.

**Settings.**  One module for `mute`, `burn_after_reading` and `read_index`: an entry is a
number in each, and `kind` says of which a behaviour is.  `listed` is the cache, `shown`
what the other devices of the user have been told, `pending` their events.  The requests of
`update_read_index` are lists, which may name a target again; each item is compared with the
cache alone, and of those that are newer the last is written.

**Profiles.**  `profileRows`, `profiles` are table and cache, `userLog` is `user_log`,
`userList`, `version` what a client has, and `news` the rows of the log that are on its stream,
in the order of their ids; `Fold` is a name without its case.  `picture` is the file of an
avatar, which is written beside the transactions: by an upload before its own, by
`create_user` inside it, with errors ignored.  `badPicture` are the users with a file or a
time that was left without the other.

**ApiKeys, ServerConfig.**  Rows and cache again; in `ServerConfig` the row is written with
no lock and the instance under one, and `put_common` reads, merges and writes.

**Uploads.**  Contents belong to inodes, as a request that has a file open goes on writing
to it after it was moved or removed.  `Quiet`, `late`, `cutMove` name what the properties
leave out.

**Archives.**  `upload`, `preview` are a message's file and its thumbnail in the directory of
its day; `archiveFiles`, `favFiles` the archives, `favRows` the rows, `promised` what was
answered.

**Ratchet.**  `session` is the record that `ratchet.rs` gets and gives back; a key agreement
is the pair of its keys, a chain key its root and its place.  `wire` is what lies on the
server: every message can be opened early, late, again or garbled.

**Sending.**  The checks of a plain message read the generation and then the row of the
pair, both before the cache is locked.  `writing` are blocking tasks: they outlive their
request, and then hold no lock.  `pushing` are the tasks that tell the phones.

**History.**  `log` are the messages that are visible, each with its id and its time; those
in `posting` have a time, then an id, and are not yet written.  A walk is `query`, `pages`,
`matched`.

`UserData` joins nine of these modules.  They share no variable, so a behaviour is about
one of them and the others rest; the run checks each with its own interleavings.

## 4. Runs

Most properties are conjunctions of named parts, each part with its own comment.

| run | configuration | properties (parts) and what they show |
|---|---|---|
| `msgdb` | two writers, leases of 2 ids, ids below 7 | `DbInv`, `MessageImmutable`, `ImplementsLog`: ids stay fresh and messages unchanged over renewals, restarts and crashes |
| `dm_store` | one message, two requests, two users with a device each, one crash, a user that is deleted | `EnvelopesFit` (types, `CompletedHasEnvelope`, `EnvelopeForTarget`), `AckedSenderNotified` |
| `dm_live` | two requests, two ids for messages and edits, one crash, one error or hang-up, a user that is deleted, a start that replays what was left | `PendingNeverLost`, `QuerySeesStored`; `EveryMarkerReplayed`, with retries by whoever comes next |
| `mls` | two requests, two commits, two epochs, two generations, crashes; or two requests, two devices, a clock of 5 with leases of 2 | `SlotStoredOnce`, `StoredAsReserved`, `NoSlotSkipped`; `RouteAndPackages` (`PackageGivenOnce`, `RouteAgreed`), `LeaseKept` (`LeaseExclusive`, `SetUpByHolder`) |
| `streams` | two senders, two streams, two devices, a bus of 1 event, one hang-up | `StreamExact` (`NoGapAtSubscribe`, `NoMessageTwice`), `PresenceAnnounced` (`OfflineIsAnnounced`, `OnlineIsAnnounced`) |
| `lock_order` | three requests at a time, of the handlers that take `cache` first | `WaitsAreOrdered` (`NoCircularWait`), `EveryWaitEnds` |
| `directory` | an admin, a user, a guest, one group, handlers cut short at any commit, restarts | `RowsAndCacheAgree` (`RowsLoad`, `RestartKeepsDirectory`), `ClientKnowsItsGroups`, `RemovedAreTold` |
| `pinned` | two requests, one message, two groups, two edits, one hang-up, crashes that lose what was not flushed | `PinnedShowsMerged`, `PinsSurviveRestart`, `PinnedCatchesUp` |
| `sign_in` | two requests, two identities, an address, a password, one device, three accounts, four calls | `AccountsKept` (`OneAccountPerIdentity`, `SignInOpensOwnAccount`, `MailFindsOne`), `SessionsKept` (`RefreshEndsWithLogout`, `DevicesAgree`, `CacheNotAhead`), `OneLinkPerMail` |
| `bot_keys` | two requests, a bot and a person's device, batches of two one-time prekeys, three generations, five calls, one error | `BotKeysAgree` (`MirrorsAgree`, `OfferedIsCurrent`, `VaultMirrored`, `UsedSecretGone`, `CredentialCurrent`), `EnvelopesReadable` (`KeyClaimedOnce`, `FailedWrapBurnsNothing`, `EnvelopeNotOlder`, `AnsweredIsReadable`), `KeysChangeVersion` |
| `user_data` | see below | `SettingsAgree`, `ProfilesAgree`, `KeysAgree`, `ConfigAgrees`, `UploadsWhole`, `ArchivesKept`, `MessagesStayReadable`, `SendsFollowSettings`, `PlainWasAllowed`, `HistoryComplete` |
| `dm_poison` | | a claim that the code does not keep (section 7) |

The parts of `user_data`: `SettingsAgree` is `SettingsStored`, `AnsweredReadKept`,
`ReadIndexNamesLive`, `DevicesFollow`; `ProfilesAgree` is `ListsFollow`, `NamesDiffer`,
`PictureIsDated`; `KeysAgree` is `RevokedIsRefused`, `KeysAreStored`; `ConfigAgrees` is
`ConfigInUseIsStored`; `UploadsWhole` is `AnswerDescribesFile`, `StoredIsWhole`,
`AnsweredIsComplete`, `LeftoversAreFound`; `ArchivesKept` is `FavoritesKept`,
`DeletedFavoriteGone`, `NothingGoesEarly`; `MessagesStayReadable` is `KeysAreFresh`,
`OpenedOnce`, `StillReadable`, `SkippedAreUnread`; `SendsFollowSettings` is
`StoredAsSettingsSay`, `ToldIsStored`; `HistoryComplete` is `OnlyWhatWasAsked`,
`NothingMissed`.

The largest runs are `mls` (1.7 million distinct states), `user_data` (1.1 million),
`sign_in` and `directory` (0.7 million each); with two workers each takes up to three minutes.

**Bounds, and why they are enough.**  `MaxSeq` stops the store when there is no further
lease: within 7 there are three leases of two, so one is renewed, one given back and one
lost.  `MaxCrashes` and `MaxErrors` are 1: a second crash finds nothing that the first
one could not leave, since `disk` moves freely.  `dm_live` has a crash and an error together,
and a second lease, so that the start after a crash finds the marker of a message that was
flushed and a request stores the next; it has no devices.  `dm_store` has the devices, and one
id, as envelopes of different messages meet nowhere; it has no errors.  The theorems about
both have no such bounds.  `MaxVersion`
2 gives a device an identity and its successor.  `MaxEpoch` 2 has an epoch with one
before and one after it is closed; `MaxGeneration` 1 the first and the next.  `MaxTime` 5
with a `LeaseTime` of 2 holds two leases, one after the other, and the second in which one
ends.  `MaxMid` 2 and `Capacity` 1: one event more than fits.  `MaxHangUps` 1: a hang-up
and what follows.  `MaxGid` 1 in `Directory`: handlers name one group and groups meet only
in the users, whose deletion goes through all groups alike.  `MaxGid` 2 in `Pinned`, where
the task goes through the groups.  `MaxEdits` 2 with one message: two edits cross each other,
the pin and the task, and after a crash the id is given to another message (the theorem has
any number of them).  Two requests are the least that
race; the tables have keys over pairs, so a third adds no new conflict.  In `lock_order`
there are three, as a circle may need a writer that stands between two readers, and in
`ServerConfig` three, as two that cross may be followed by one that does not.

`SignIn`: `MaxUid` 3 is an account that is there, one that is made and one made after a
deletion; `MaxCalls` 4 is enough for two requests that race, a deletion or a restart, and a
login that meets what they left.  `BotDm`: `MaxMade` 3 generations are the bot's keys, those
of a rotation and the person's next ones; `MaxRetries` 2 stands for `MAX_CLAIM_RETRIES`.
`Settings`: two messages, two moments, two changes in one request.  `Profiles`: two
accounts, three names of which two differ by their case only, three rows of the log: a
change that a client sees, and two that it may miss.  `Uploads`: two chunks, each may be
sent twice, two inodes: the file and the one made anew.  `Archives`: days 0 and 1 with files
that expire after day 0.  `Ratchet`: four messages of each party with `MaxSkip` 1
(`MAX_SKIP` is 100): one key is put aside, one more is too many, and there is room for two
turns.  `Sending`: two requests, one message that is stored, two changes of settings, a
phone and two tokens.  `History`: pages of 1, two pages, limits to 2, three messages, two of
them under way at a time: a page that ends in each of the ways.

`CHECK_DEADLOCK FALSE` is in the runs in which the program may rest for good: everybody
logged off and all ids used (`streams`), the clock at its bound (`mls`), all calls made
(`bot_keys`), a part at its bounds (`user_data`), and locks (`lock_order`), where a state
without a step is what `NoCircularWait` forbids.

**Fairness.**  `dm_live`: tasks run until they end (tokio polls them), the process is
started again after it ended (the deployment restarts it), and some client keeps asking
for its pending messages (clients poll on connecting); the last is strong, as the server
is not always up.  `lock_order`: handlers do what they do under a lock and drop it; a free
lock wakes its first waiter; nobody is forced to hang up.  `pinned`: requests and the task
run; `Apply` is strong, since the write lock is handed out in the order of the queue and
readers that come and go cannot keep it out.  A hang-up, an error or a crash is never
forced.

**Assumptions about code outside the repository.**  SQLite in WAL mode: transactions are
serializable, and one that has read an old snapshot fails at its first write.  sled: a
batch is atomic; a crash leaves a prefix of the writes; dropping the tree flushes it.
tokio: fair locks; a dropped handler future drops its guards, a blocking task runs to its
end; a broadcast receiver that lags gets `Lagged`.  Linux: a rename is atomic, a file that
is open stays.  Key agreement and key derivation have no collisions, and what is sealed
opens under its key only.  Third parties may answer anything about an identity.

## 5. What is proved

A theorem holds for all values of the constants that the named assumptions of its module
allow; TLC evaluates these on every run.  Nearly all rest on an inductive invariant, and one
lemma per action shows that it is kept.

For every number of writers, every set of bodies, every bandwidth (`DeferredDmProofs`):
`StoreInvariant`, `StoreTypeCorrect`, `IdsAreFresh`, `MessagesAreImmutable`, and
`StoreImplementsLog`, the refinement.  Assumed: the bandwidth is a positive natural
number.  `MaxSeq` is a constant too, so the theorems are about any bound.

`TakenIdIsFresh` is not inductive: a renewed lease starts at the persisted key, so that key
must be beyond all that was stored (`KeyCoversStore`); after a crash the flushed key is
used, so that must hold of `disk` too, and `disk` must be part of `db` (`DiskIsPrefix`);
while the store is open the range in memory must end at the key, above everything stored
and taken (`RangeIsLeased`); and when it is closed nobody may hold an id
(`NothingTakenWhenClosed`).  `DbInv` is their conjunction.  One lemma per action shows that
it is kept, `NextInv` joins them.  That a step of the store is a step of the log, or none,
is shown under `DbInv`: `Append` needs the freshness.

For every number of requests, devices, commits, epochs and generations
(`MlsProofs`): `SlotInvariant`, `SlotTypeCorrect`, `SlotsAreStoredOnce`,
`RecordsAreReserved`, `SlotsAreContiguous`.  Assumed: `NoCommit` is no commit id, the
bounds are natural numbers, replies carry records of the known form.  `SlotStoredOnce`
needs that a record under way is booked, held by one request and stored neither in the log
nor in what a crash brings back (`UnderWayIsBooked`), that rows have unique keys
(`RowsUnique`) and that stored records were booked (`TreeFollowsRows`).  `FitsIsFresh` and
`FitsLeavesNoGap` are the two facts about the checks of `reserve_mls_sequence`.

For every number of requests, devices and packages and any length of the lease (the same
module): `PackagesAndRouteKept` (`RouteAndPackages`) and `LeaseIsKept` (`LeaseKept`).
`consume_key_package` reads a free package and marks it in a second statement of the same
transaction.  `FoundIsFree` says that what it read is free for as long as its snapshot can
still be written over (`fresh`), which is why two of them cannot get one package;
`GivenIsConsumed` that what was given is marked, or gone with its device.  `AnsweredIsRoute`: a
token that was answered is the one stored, as nothing replaces a route while its group is
there.  `ClaimIsLease`: who was told of a lease that is not over is the initializer, and was
told of no more time than what is stored; the clock only moves on.

For every number of requests, users, devices, crashes, errors and refusals
(the same module as the store's): `DmInvariant`, and `NoDeferredDmIsLost`, which states
`PendingNeverLost`; `QueriesSeeWhatIsStored` (`QuerySeesStored`), `AckedSendersAreTold`
(`AckedSenderNotified`) and `EnvelopesAlwaysFit` (`EnvelopesFit`).  Assumed: what
`DeferredDm` assumes of the payloads.  `PendingNeverLost` is not inductive.  A request
removes a marker two awaits after it listed it, and it must know then that the row is there:
`RequestOK` says so of the marker it is at, and that the markers it has listed are those of
stored messages.  Another request may have removed the
marker in between, a user may have been deleted with the rows, the other store may have
crashed: `RowsStay` is what all these steps have in common, that a row goes with its
users only, and `KeepsInv` is the argument that a step with it keeps the invariant.  The
part about the durable markers needs `DiskIsPrefix` of `DbInv`: what a crash brings back
is part of what was there, so that its markers had their rows.

The answers need `AnswerInv` besides: a request that listed the markers has, for each
message it must find, its marker on its list or its row in the table (`AnswerOK`); what
`put_identity` read before it tells the senders stays so (`NotifyOK`), since messages do not
change and an envelope goes only with its row (`EnvelopesStay`); and a send that was answered
has its row (`AckedOK`).  Only a crash takes messages back, and it ends every request; of the
sends that were answered, the property then speaks of those that were flushed.
The envelopes need `EnvelopeInv`, which adds what a request to append one carries: a row is
complete exactly when it has an envelope, and both are written in one transaction.

For every number of clients, identities, addresses, passwords, devices, accounts and calls
(`SignInProofs`): `AccountsAreTold` (`AccountsKept`), `SessionsAreStored`
(`SessionsKept`, with the types) and `NoAddressHasTwoLinks` (`OneLinkPerMail`).  Assumed: the
form of identities, that the empty address of guests is none, and that accounts are bounded.
`SignInInv` says more than the three: an identity that an account was made for still
belongs to it (`AccountsInv`), which is why two accounts cannot share one; the rows of
addresses are unique on their own, since a start takes them for the cache; and `Sound`
says of a request what it may rely on after it has let go of the lock: the account it is
about to open is still the one of the identity or is gone, and the password it is about to
publish is in the row or the row is gone.  `SoundStays` shows that no step of anybody else
takes this away, from three facts about accounts (`AccountsStay`): no uid is used again,
an account keeps its identities, passwords are only added to `had`.  `TokensInv` is about
renewals: the token of a row, and the one that a renewal has read and will write, is of the
last login of its device, or of one that is noted as overtaken, because a login meanwhile
notes all renewals of its device that are under way.

For any users, guests, administrators and number of groups (`DirectoryProofs`):
`DirectoryIsOne` (`RowsAndCacheAgree`), `GroupsAreListed` (`ClientKnowsItsGroups`),
`RemovalsAreTold` (`RemovedAreTold`).  Assumed: a guest is no administrator.  That rows and
cache agree is not inductive.  The private groups of a deleted owner stay in the rows only
(section 7), and a restart must be able to load them: `DirsAgree` lets the rows have such
groups and no others, and needs that no uid is used twice (`known`), since a new user with
the uid of that owner would make them live again, and that the rows of a public group name
no members, since `change_type` adds to what they name.  The clients are compared with the
cache alone (`ClientsInv`), so theirs holds with handlers that are cut short too.  What
`register` does not tell the client of its own user stays in `unheard` as long as that client
is connected.
`OneGroupKeeps` is the argument for the handlers that change one group.

For any number of senders, streams and devices, any capacity of the bus and any number of
messages (`EventStreamProofs`): `StreamsAreExact` (`StreamExact`) and `PresenceIsTold`
(`PresenceAnnounced`).  Assumed: there is a device.  `events` subscribes under the write
side of the cache lock and a sender keeps the read side from before its id until its
broadcast.  So while a stream subscribes no message that will be broadcast is between its id
and the bus: what is listed then has all that was broadcast, and what comes over the bus
later has a greater id.  `SendersInv` is about the ids, and `StreamOK` follows the argument
through the life of a stream (`QueueIsNewer`, `SendingIsNewer`, `EachOnce`, `NoGap`).
`SlotsInv` says that a device with a sender has a stream that has not cleaned up yet: it is
in its loop, which will find out that the user is offline, or its request has not started
one.  While a request is between the two it has the lock, and no send is under way
(`OpeningInv`).  What the index lists is sorted; `OrderedListing` shows, by counting, that
every finite set of ids has such a listing.

For any number of requests and locks and any programs of handlers (`LocksProofs`):
`OrderedWaitsEnd` (`WaitsAreOrdered`).  Hypothesis: the locks have ranks, numbers up to some
bound, and each program keeps to them (`KeepsOrder`: while it holds a lock it takes only
later ones, and it drops what it took).  That is what TLC evaluates of the handlers of
`LockOrder` that take the cache first, as `HandlersKeepOrder` of `MC_Locks`, and what a
guard that is kept too long in one of them would make false; the other handlers do not keep
to it (section 7).  `LocksInv` carries `KeepsOrder` from the program to what a request has
left to do: what it holds it drops before it takes an earlier lock (`HeldUntil`), a request
is in the queue of the lock it asks for and only once, wherever others leave it.
`NoCircle`: of the requests in a circle take those at the last of the locks, and of these
the first of its queue; it waits for a holder, who must wait for a later lock, or for one
before it in the queue.

For any names, number of keys and of administrators (`UserDataProofs`): `ApiKeysAgree`
(`KeysAgree`) and `StoredConfigInUse` (`ConfigAgrees`).  `KeysInv` adds that ids beyond
`lastKey` are new to both tables, so that a key that is made is neither revoked nor torn.
`ConfigInv` adds `OnlyOneSets`: while no two sets cross, the row is the one written by the
request that is about to put it in use.

For any number of requests, archives and days (the same module): `FavoritesAreKept`
(`ArchivesKept`).  Between its steps a request has an archive in hand, whose id nobody else
has (`MadeAlone`) and whose file is written before its row (`FileBeforeRow`) and whose row
goes before its file (`RowGoesFirst`).  `HandIsWhole`: it has the bytes of every file that was
there when it read them, though the task that cleans up may run in between; it has no
thumbnail without the file, as thumbnails are removed first (`ThumbnailFirst`).

For any devices, targets, owners, clock and number of changes (the same module):
`DevicesSeeSettings` (`SettingsAgree`).  The property speaks of devices that have no event
left; the invariant must speak of the others: `WillShow` says that the last event about a
target, among those a device has not had, brings what the cache has, or that the device shows
it if there is no such event.  Two entries are the same when both are mutes that are over
(`Same`), as rows, cache and devices forget them at different moments.  `ItemFacts` is about
lists of read indices: an item that is said last of its target is beyond the cache, and then
it is the one that is written, or the cache has as much.

For any number of requests, messages, phones and tokens (the same module):
`PlainTextWasAllowed` (`PlainWasAllowed`) and `MessagesSentAsSet` (`SendsFollowSettings`).
`PlainAdmitted` says of a request which of the two checks it has passed, `HeldAsRead` that
what it read under the lock is so until its message is stored, and `WritesFor` that of the
tasks that write, which outlive their requests, one at most writes for a request that waits.

For any requests, groups, messages, edits and users (`LocksProofs`):
`PinnedCopiesCatchUp` (`PinnedShowsMerged`) and `PinsAreDurable` (`PinsSurviveRestart`).  The
task reads the merged copy before it has the lock, so what it writes may be old.
`TaskIsFresh` says when it is not: if no writer has the message in hand, none was cut, and
the channel does not bring it again (`Elsewhere`), then what the task has read is still the
merged copy.  `PinsOnce` makes rows and cached copies the same pins after a restart,
but for the rows that it passes over: by `RowsStay` these stay until the next start or the end
of their user, and nobody can pin or unpin their message in that group meanwhile.

For any devices, requests, plans, generations, retries and errors (`BotDmProofs`):
`BotKeysStayTogether` (`BotKeysAgree`), `EnvelopesStayReadable` (`EnvelopesReadable`),
`NewKeysGetNewVersions` (`KeysChangeVersion`), and `BotInvariant`, the inductive invariant of
the three.  `RequestsOK` says what each request has in hand after its last await: a
generation that nobody else has made (`Apart`), a row of the bot whose keys are written
(`Settled`), a one-time prekey that is taken and in no envelope yet (`Taken`), or one of the
bot that is on offer no more (`Spent`).  `TablesOK` has the names of the rows: a key id of
the bot is never offered twice, so a secret that was used cannot be asked for again.
`CountOK` counts the messages that are stored or will be, which keeps their ids apart.
`Grows` is what a step looks like to the requests that do not take it.

For any number of requests, chunks and inodes (`UserDataProofs`): `UploadsAreWhole`
(`UploadsWhole`).  As long as the file is the only one (`OneFile`: none was made anew) and
nobody writes to it after it was measured, whoever measured it knows its size and hash
(`MeasuredRight`), and a request that has written its chunk finds all before it in the file,
whoever wrote them (`ChunksAreIn`); a chunk that is sent again only adds to it.  What was
moved is in its place (`MovedIsInPlace`), and a description without a file is about to be
moved or removed (`LeftoverIsHandled`).

For any users, names and number of clients (the same module): `ProfilesStayTogether`
(`ProfilesAgree`).  Table, cache and clients are each compared with the log: `ShownAt` says
that a table shows of a user what the last rows about them, up to a version, say.  The log
and the tables grow in one step, so both follow it to its end, except the cache for the users
of whom a change was never told.  `ListFollowsLog`: a client shows what the log says up to
its version, and what is after that is on its stream, in order.  `PicturesDated` needs that
there is no file yet for uids that were not given out, or that a creation that was rolled
back has left it.

For any number of writers, page size, number of pages, window and limit (the same module):
`HistoryHasNoHoles` (`HistoryComplete`).  `WalkIsWhole` is about the middle of a walk: each
message behind the cursor was found or has a reason not to be, and as long as there is
anything before the cursor every page was a full one.  A page is the messages of the next
ranks; `RanksAreTaken` shows by counting that each rank has its message, so a full page has
`PageLength` of them.  `PostsAreNew`: ids that writers hold are not in the log, so what is
written during the walk is not part of what it began with.

For any `MaxSkip`, number of messages and turns (`MlsProofs`): `MessagesReadOnce`
(`MessagesStayReadable`).  The keys of the two parties alternate, and the place of a key in
that sequence determines the root key of its session (`RootAt`): `InTurn` says that a
session is its own key, three counters and the keys put aside, and `RootFacts` that no two
places have one root, which is why no key seals two messages.  `ChainsAreWhole`: of each
key's chain the messages below its counter were sent, and the header of the next chain says
how many there are (`BeforeWhole`).  `ReadOrAside`: what a receiver has gone over
(`Passed`) it has read, or its key lies aside, and nothing else lies there.  So a message
that was not read lies aside, or is ahead in the chain that is read, or begins the next one
(`WhereItIs`), and `StagedOutcome` says for each what `decrypt` does with it.

Only model-checked are the three liveness properties, `EveryMarkerReplayed`,
`EveryWaitEnds` and `PinnedCatchesUp`: fairness and ENABLED are out of reach of the proof
system.  The deviations of section 7 are counterexamples of TLC.

## 6. Mutants

Every property of a passing run is broken by at least one mutant of a mapped definition,
and every part of a combined one by a mutant of its own: a guard that is left out, a step in
another order, a table or a cache that is not updated, a comparison that is off by one.
They stand in front of what they change, marked "Mutant:".

## 7. Deviations

Where the code does something else than a document, a comment or a test says.  `dm_poison` is
a run.  Each of the others is a property of its module that TLC finds violated under the
specification of the module, with the constants that are named; where there is a
configuration, its name is given.

| property | module, constants | what is said | what the code does |
|---|---|---|---|
| `EveryMarkerReplayed` | `DeferredDm`, `DmPoison.cfg` | "Replay every durable marker" (`src/e2ee_v2.rs:283`) | The loop returns at the first marker that cannot be projected.  The marker of an edit to a deleted account never can (foreign key); those after it wait for ever, every request that replays fails, and so does the next start. |
| `RowDescribesMessage` | `DeferredDm`, `DmMidReuse.cfg` | "An existing mid must describe the same sender and target" (`src/e2ee_v2.rs:239`) | A crash takes back a message whose row SQLite keeps; its id is given to a message of another pair. |
| `EnvelopeTiedToVersion` | `DeferredDm`, `DmStaleVersion.cfg` | an envelope "stays tied to the exact identity version it was wrapped for" (migration `20260721130000`) | The version that is stored is the one read when the request arrives. |
| `StoredSenderNotified` | `DeferredDm`, `DmUnnotified.cfg` | "Notify senders with a deferred DM that lacks an envelope for this device" (`src/api/e2e.rs:224`) | A message that is stored and not yet projected is not found. |
| `UpgradeGetsLock` | `Locks`, `LockSecret.cfg` | the upgrade of an old password is said to be free of deadlock (`src/api/token.rs:647`) | `login` keeps `key_config` while it waits for the cache, `do_login` keeps the cache while it waits for `key_config`, and a writer of `key_config` in the queue closes the circle.  `check_license` keeps the license mutex while it takes the cache, `create_user` takes them the other way. |
| `ConflictCanCatchUp` | `MlsSequence`, as in `Mls.cfg` | "the client fetches and processes missing records, then retries" (`docs/superpowers/specs/2026-07-21-e2ee-reliability-and-bot-design.md:136`) | A booked epoch may have no stored commit to fetch. |
| `StoredIsBroadcast` | `EventStream`, one device and stream, `Capacity` 2, `MaxMid` 2, `MaxHangUps` 1 | stored, then broadcast (`design.md:106`) | A sender that hangs up in between leaves a message that nobody is told of. |
| `WebhookConsumes` | `EventStream`, one stream, `Capacity` 2, `MaxMid` 3 | the same sentence, "consumed by the webhook task" | The task ends at its first `Lagged` and is not started again. |
| `AfterMidMissesNothing` | `EventStream`, two streams, `Capacity` 2, `MaxMid` 2 | `after_mid` brings what was sent after | Ids are taken before the write, so a later id can be delivered first. |
| `OfflineAlwaysAnnounced` | `EventStream`, as in `Streams.cfg` | the loop announces at its end that no device is connected (`src/api/user.rs:2105`) | `events` announces the user online before two calls that may fail and the start of the loop (`src/api/user.rs:1122`): then there is no loop, and the user stays online for the others after its last device has gone. |
| `ClientKnowsAllItsGroups` | `Directory`, `MaxGid` 1 | whoever is put in a group is told, as by `add_members` | `register` adds its user to the invited group under a second lock and tells only the others (`src/api/user.rs:474`); a device that logged in and connected in between does not list the group. |
| `LostPinsStayLost` | `Pinned`, as in `Pinned.cfg` | a pin is of the message that was pinned | A crash loses the message and not the row; `load_groups_cache` passes the row over (`src/state.rs:645`), and when another message has the id, the next start shows that one as pinned. |
| `DeletedStaysGone` | `Directory`, `MaxGid` 1 | a test expects the private groups of a deleted owner to be gone (`src/api/admin_user.rs:937`) | Their rows stay, and a restart brings them back. |
| `OwnerIsMember` | `Directory`, `MaxGid` 1 | the checks of `update`, `leave` and `remove_members` keep the owner a member | `change_type` makes its caller the owner, member or not. |
| `EndedStaysEnded` | `SignIn`, as in `SignIn.cfg` | "Logout" (`src/api/token.rs:1310`) | The update of `renew` names the device only (`src/api/token.rs:1294`): if the session was logged out and its device logged in again since its token was read, the earlier session has the token that can be renewed, and the later one has none. |
| `MagicLinkOnce` | `SignIn` | "login magic link only can be used once." (`src/api/user.rs:637`) | `remain_times -= -1` (`src/state.rs`): a link lets in until it expires. |
| `UpgradeKeepsSecret` | `SignIn`, two passwords | "the caller should persist this Argon2id hash in place of `stored`" (`src/password_hash.rs:115`) | It is written by uid only, also over a password that was changed meanwhile. |
| `NeverOpensAgain` | `BotDm` | "so the same envelope can never be unwrapped via it again" (`src/bot_e2ee.rs:1505`) | The vault is written back whole: one that was read before brings the secret back. |
| `AlwaysMirrored` | `BotDm` | "Public counterparts mirrored" (migration `20260721140000`) | A stale write of the vault leaves the mirror of the newer one. |
| `NeverPlain` | `BotDm` | "must never silently fall back" (`src/bot_e2ee.rs:1210`) | An error while the status is read, or a status read before `initialize`, makes the send go on in plain text. |
| `NoneLeftWaiting` | `BotDm` | devices that publish later are caught up with (`catch_up_pending_sends`) | A device that publishes between the fetch of the devices and the message is caught up with only if no envelope was stored yet. |
| `MutedIsSilent` | `Settings` | what a mute is for | `is_user_muted` has its comparison the other way round: a mute with an end silences only when it is over. |
| `AllItemsKept` | `Settings` | the answer to `update_read_index` | Each item is compared with the cache before the request (`src/api/user.rs:1547`), so a request with 10 and then 5 for one target is answered with success and stores 5. |
| `NoAvatarOfOthers` | `Profiles` | a user without an avatar shows none | `create_user` writes the avatar inside its transaction (`src/create_user.rs:235`): a later insert that fails leaves the file to the next account, which gets the uid.  An avatar that cannot be saved leaves a time without a file. |
| `AllLearnEverything` | `Profiles` | clients follow `user_log` | A change dropped at its commit is behind the id that clients are given with the snapshot. |
| `ConfigAlwaysStored`, `PatchesKept` | `ServerConfig` | the answer to a set | Two administrators who cross leave an instance that is not stored; one of two merges is lost. |
| `AnswerAlwaysDescribes` | `Uploads` | size and hash in the answer | A second request for the last chunk makes an empty file and moves it over the whole one. |
| `FavoritesLimited` | `Archives` | "Too many favorite archives" (`src/api/favorite.rs:56`) | The query of the count leaves its parameter unbound. |
| `AllOfTheWindow` | `History` | "return up to [limit] newest messages inside the inclusive window" | The walk ends at the first message that is too old, but times need not follow ids. |

Seen while modelling, and not stated as a property, as no document says otherwise:

- A stream that was replaced clears the sender of its successor when it ends, which closes
  that one as well (`src/api/user.rs:2108`).
- `change_type` from public to private sends its `owner` as the gid (`src/api/group.rs:606`),
  and tells nobody that they are out; from private to public it does not tell guests.
- The deletion of a guest that owns a group sends no `KickFromGroup`.
- A handler cut at its commit leaves the cache behind; trying again fails at the unique index
  until the next restart.  Members that a cut `change_type` leaves in a public group reappear
  when it becomes private.
- A `Delete` reaction never removes a merged copy (`remove_merged_msg` has no caller), so a
  deleted message stays pinned.
- An edit that comes between the batch and the merged copy of its message is lost in the
  merged copy.  If the task reads in that moment, it may later unpin the message.
- `process_msg_updated` stops at the first group; a message pinned in two is updated in one.
  A sender that hangs up after its edit is stored and before the channel leaves the pinned
  copy as it was until a restart.
- Pins of a deleted user leave the table and not the cache.
- A message booked in one MLS epoch can be stored after the commit of the next one.
- The holder of the initialization lease may renew it as often as it likes and never set the
  group up.
- A client that is more than `MAX_NEWEST_MESSAGES` behind gets the newest ones, with no sign
  of the gap (`src/api/user.rs:1908`); `EventStream` assumes that none is.
- GitHub without a public address finds the first account without one; binding Google lowers
  the case of the address and the login does not; `register` does not lower it either.
- `delete_device` leaves the row of `refresh_token`; `renew` does not look whether the account
  is frozen; two renewals at a time leave one of the clients with a dead token.
- `register` does not check the code of the invitation it was given; the nonce of a MetaMask
  login is never used up.
- A bot's message is not completed for devices that are registered after one device had an
  envelope.
- `get_bundle` may hand one one-time prekey to two callers; `put_prekeys` fails as a whole for
  a `key_id` that was used before.
- `delete_user` leaves mutes and burn settings of the deleted user in the other users' caches;
  `update_user` logs nothing for a change of gender or language alone.
- The login methods are enabled again at each start, whatever was set.
- A chunk that is sent again is appended again; a description is left behind when the client
  hangs up between the two moves; an expired file is archived as an empty one.
- After more than `MAX_SKIP` messages in a row were lost a session reads no later message of
  that chain, and skipped keys are never trimmed.  `ReplayWindow` of `envelope.rs` forgets
  everything when it is full; nothing calls it.
- A direct message is pushed to a frozen user (one to a group is not); one from an archive to a
  uid that does not exist is stored; a push token stays in the row of the user who was signed
  in on the phone before.
- `limit` 0 returns one message in the path by time.

## 8. What the properties leave out

`PinnedIsMerged` and `PinnedCatchesUp` leave out messages whose writer hung up before the
channel, and those pinned in two groups; `RestartKeepsDirectory` histories in which a handler
was cut; `PinsSurviveRestart` pins whose handler was cut, until the next start, and those whose
message a crash took; `ClientKnowsItsGroups` guests, and the groups in which `register` put a
user that was connected already; `OfflineIsAnnounced` users whose last sender was of a request
that failed; `RefreshEndsWithLogout` sessions that were renewed while their device logged in
again; `AnsweredReadKept` takes of a target that a request names again what it says last;
`PictureIsDated` leaves out users whose upload stopped half way, whose first avatar was not
saved, or whose uid a creation that was rolled back had used; `VaultMirrored` and
`KeysChangeVersion` vaults that a stale write replaced; `ListsFollow` users of whom a change
was never told; `ConfigInUseIsStored` sets that crossed or were cut; `KeysAreStored` keys whose
handler was cut; `StoredIsWhole` and `AnswerDescribesFile` files that were cleared and made
anew; `StillReadable` messages that more than `MAX_SKIP` missing ones precede;
`StoredAsSettingsSay` messages whose sender hung up; `NothingMissed` windows in which a newer
message has an older time.  In each case the code does what the list above says.
`EveryMarkerReplayed` is about markers whose users exist, and `dm_live` has no edit to a deleted
account: with it the property fails (`dm_poison`).  `lock_order` runs the handlers that take the
cache first: with the others it fails (`LockSecret.cfg`).

## 9. What is not modelled

- Key backups (`put_backup`, `get_backup`, `delete_backup`): one statement each, on a row of
  the caller's own.
- Guests, the signature and the fields of tokens, the exchanges with OIDC, Google, GitHub and
  MetaMask: what they answer is an input of `SignIn`.
- Webhooks of bots write nothing on the server; messages of bots to groups take the way of
  `send_message`.
- Names, avatars and descriptions of groups, the status of contacts: read and written under one
  lock.
- The MLS library: clients use it, the server does not open what it stores.
- License check, link previews, audio calls, the action log, metrics, the initialization page,
  the start: no state over time, or calls to other services.  What the start does to the state
  of a component is an action of that component's module.
- Formats: markup, the text of notifications, image scaling, the names of files.
