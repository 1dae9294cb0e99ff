-------------------------------- MODULE Sending --------------------------------
(***************************************************************************)
(* A direct message on its way into the store: what decides whether it may *)
(* be plain text, when it burns, and whose phones are told.  The setting of *)
(* encryption is a row either user may change, read before the cache is    *)
(* locked; burning, muting and the phones' tokens are in the cache, which  *)
(* the sender holds for reading until the message is broadcast.  Phones    *)
(* are told by a task of its own.  A hang-up leaves the blocking write     *)
(* behind, which goes on without the lock.                                 *)
(***************************************************************************)
EXTENDS Naturals, FiniteSets

CONSTANTS
    SendRequest,    \* requests of the sender
    Phone,          \* devices of the receiver
    PushToken,      \* tokens of the push service
    MaxMessages,    \* bound of the model: messages stored
    MaxSwitches     \* bound of the model: changes of settings

ASSUME SendingAssumption == MaxMessages \in Nat /\ MaxSwitches \in Nat

VARIABLES
    generation,     \* e2e_protocol_ver, of LoginConfig
    encryptDm,      \* the row of e2e_dm_setting; a missing one means yes
    burn,           \* burn_after_reading of the sender for the receiver, 0: none
    muting,         \* the receiver has muted the sender, for good
    tokenRow,       \* device.device_token of the receiver
    tokens,         \* device_token of the cache: the devices that are signed in
    invalid,        \* invalid_device_tokens
    fileThere,      \* the file the sender has uploaded
    sending,        \* per request: where it is
    mail,           \* per request: its message
    writing,        \* messages of blocking tasks, with the request, if it waits
    inStore,        \* stored messages
    pushing,        \* tasks of send_notify
    pushed,         \* what the push service was sent
    switches

settingVars == <<generation, encryptDm, burn, muting, switches>>
tokenVars == <<tokenRow, tokens>>
sendVars == <<settingVars, tokenVars, invalid, fileThere, sending, mail, writing, inStore, pushing,
              pushed>>

NoToken == "no token"
NoMail == [kind |-> "none", expires |-> 0, tell |-> {}, gen1 |-> FALSE, off |-> FALSE,
           mid |-> 0]

SendingInit ==
    /\ generation = 1 /\ encryptDm = TRUE /\ burn = 0 /\ muting = FALSE /\ switches = 0
    /\ tokenRow = [d \in Phone |-> NoToken] /\ tokens = [d \in Phone |-> NoToken]
    /\ invalid = {} /\ fileThere = TRUE
    /\ sending = [r \in SendRequest |-> "idle"] /\ mail = [r \in SendRequest |-> NoMail]
    /\ writing = {} /\ inStore = {} /\ pushing = {} /\ pushed = {}

Holding == {r \in SendRequest : sending[r] \in {"locked", "writing", "stored"}}
Free == Holding = {}

-----------------------------------------------------------------------------
\* What was so at some moment of a request is so for the request.
Noted(kind, r) ==
    [mail[r] EXCEPT !.kind = kind, !.gen1 = @ \/ generation = 1, !.off = @ \/ ~encryptDm]

GoTo(r, step) == sending' = [sending EXCEPT ![r] = step]

\* send: into_chat_message_content looks at the file of a message that names one.
BeginSend(r, what) ==
    /\ sending[r] = "idle"
    /\ what = "file" => fileThere
    /\ Cardinality(inStore) + Cardinality(writing) < MaxMessages
    /\ GoTo(r, "begun")
    /\ mail' = [mail EXCEPT ![r] = Noted(what, r)]
    /\ UNCHANGED <<settingVars, tokenVars, invalid, fileThere, writing, inStore, pushing, pushed>>

\* enforce_e2e_required: the generation; one message in plain text is refused
\* for good in the second.
CheckGeneration(r) ==
    /\ sending[r] = "begun"
    /\ IF mail[r].kind = "encrypted" THEN GoTo(r, "admitted") /\ UNCHANGED mail
       ELSE IF generation = 1 THEN GoTo(r, "first generation") /\ UNCHANGED mail
       ELSE GoTo(r, "idle") /\ mail' = [mail EXCEPT ![r] = NoMail]
    /\ UNCHANGED <<settingVars, tokenVars, invalid, fileThere, writing, inStore, pushing, pushed>>

\* Mutant: the setting is not read again.
CheckDmNot(r) ==
    /\ sending[r] = "first generation"
    /\ GoTo(r, "admitted")
    /\ UNCHANGED <<settingVars, tokenVars, invalid, fileThere, mail, writing, inStore, pushing, pushed>>

\* enforce_e2e_required: the row.
CheckDm(r) ==
    /\ sending[r] = "first generation"
    /\ IF encryptDm THEN GoTo(r, "idle") /\ mail' = [mail EXCEPT ![r] = NoMail]
       ELSE GoTo(r, "admitted") /\ UNCHANGED mail
    /\ UNCHANGED <<settingVars, tokenVars, invalid, fileThere, writing, inStore, pushing, pushed>>

\* An archive has no text to tell phones.
Told(kind) == kind # "archive"

\* Mutant: the message does not burn.
LockCacheKeeping(r) ==
    /\ sending[r] = "admitted"
    /\ GoTo(r, "locked")
    /\ mail' = [mail EXCEPT ![r].tell = IF Told(mail[r].kind) /\ ~muting
                                        THEN {tokens[d] : d \in DOMAIN tokens} \ {NoToken} ELSE {}]
    /\ UNCHANGED <<settingVars, tokenVars, invalid, fileThere, writing, inStore, pushing, pushed>>

\* send_message with the cache locked: when the message burns, and whom to tell.
LockCache(r) ==
    /\ sending[r] = "admitted"
    /\ GoTo(r, "locked")
    /\ mail' = [mail EXCEPT ![r].expires = burn,
                            ![r].tell = IF Told(mail[r].kind) /\ ~muting
                                        THEN {tokens[d] : d \in DOMAIN tokens} \ {NoToken} ELSE {}]
    /\ UNCHANGED <<settingVars, tokenVars, invalid, fileThere, writing, inStore, pushing, pushed>>

StartWrite(r) ==
    /\ sending[r] = "locked"
    /\ GoTo(r, "writing")
    /\ writing' = writing \cup {[by |-> r, waits |-> TRUE, mail |-> mail[r]]}
    /\ UNCHANGED <<settingVars, tokenVars, invalid, fileThere, mail, inStore, pushing, pushed>>

\* internal_send_message, of the blocking task.
Store(w) ==
    /\ w \in writing
    /\ writing' = writing \ {w}
    /\ LET mid == Cardinality(inStore) + 1
       IN  /\ inStore' = inStore \cup {[mid |-> mid, mail |-> w.mail, orphan |-> ~w.waits,
                                        burnThen |-> burn,
                                        phonesThen |-> {tokens[d] : d \in DOMAIN tokens}]}
           /\ IF w.waits
              THEN GoTo(w.by, "stored") /\ mail' = [mail EXCEPT ![w.by].mid = mid]
              ELSE UNCHANGED <<sending, mail>>
    /\ UNCHANGED <<settingVars, tokenVars, invalid, fileThere, pushing, pushed>>

\* send_notify starts its task; then the broadcast, the answer, and the lock is
\* given back.
NotifyAndAnswer(r) ==
    /\ sending[r] = "stored"
    /\ GoTo(r, "idle")
    /\ mail' = [mail EXCEPT ![r] = NoMail]
    /\ pushing' = IF mail[r].tell = {} THEN pushing
                  ELSE pushing \cup {[mid |-> mail[r].mid, left |-> mail[r].tell, next |-> NoToken]}
    /\ UNCHANGED <<settingVars, tokenVars, invalid, fileThere, writing, inStore, pushed>>

\* The sender hangs up: the lock goes, a write that has begun goes on.
HangUpSend(r) ==
    /\ sending[r] # "idle"
    /\ GoTo(r, "idle")
    /\ mail' = [mail EXCEPT ![r] = NoMail]
    /\ writing' = {IF w.by = r THEN [w EXCEPT !.waits = FALSE] ELSE w : w \in writing}
    /\ UNCHANGED <<settingVars, tokenVars, invalid, fileThere, inStore, pushing, pushed>>

-----------------------------------------------------------------------------
Becomes(task, next) == pushing' = (pushing \ {task}) \cup next

\* send_notify: a token that was refused before is left out.
TakeToken(task, t) ==
    /\ task.next = NoToken /\ t \in task.left
    /\ Becomes(task, {[task EXCEPT !.left = @ \ {t}, !.next = IF t \in invalid THEN NoToken ELSE t]})
    /\ UNCHANGED <<settingVars, tokenVars, invalid, fileThere, sending, mail, writing, inStore, pushed>>

\* The push service takes the message or says that there is no such token.
Push(task, good) ==
    /\ task.next # NoToken
    /\ pushed' = pushed \cup {[mid |-> task.mid, token |-> task.next]}
    /\ invalid' = IF good THEN invalid ELSE invalid \cup {task.next}
    /\ Becomes(task, {[task EXCEPT !.next = NoToken]})
    /\ UNCHANGED <<settingVars, tokenVars, fileThere, sending, mail, writing, inStore>>

\* All tokens are done, or 60 seconds have passed.
EndPush(task) ==
    /\ task.next = NoToken
    /\ Becomes(task, {})
    /\ UNCHANGED <<settingVars, tokenVars, invalid, fileThere, sending, mail, writing, inStore, pushed>>

-----------------------------------------------------------------------------
\* A request under way has seen the setting as it becomes.
Switched ==
    /\ switches < MaxSwitches /\ switches' = switches + 1
    /\ mail' = [r \in SendRequest |->
                  IF sending[r] = "idle" THEN mail[r]
                  ELSE [mail[r] EXCEPT !.gen1 = @ \/ generation' = 1, !.off = @ \/ ~encryptDm']]
    /\ UNCHANGED <<tokenVars, invalid, fileThere, sending, writing, inStore, pushing, pushed>>

\* put_dm_setting: a row, with no lock.
PutDmSetting(on) == encryptDm' = on /\ UNCHANGED <<generation, burn, muting>> /\ Switched

\* set_dynamic_config of LoginConfig waits for the cache's write lock.
SetGeneration(n) == Free /\ generation' = n /\ UNCHANGED <<encryptDm, burn, muting>> /\ Switched

\* update_burn_after_reading and mute hold the cache for writing.
SetBurn(n) == Free /\ burn' = n /\ UNCHANGED <<generation, encryptDm, muting>> /\ Switched
MuteSender == Free /\ muting' = ~muting /\ UNCHANGED <<generation, encryptDm, burn>> /\ Switched

\* update_device_token: the row, and then the cache; a cut after the row leaves
\* the cache as it was.
UpdateDeviceToken(d, t, cut) ==
    /\ Free /\ d \in DOMAIN tokens /\ tokens[d] # t
    /\ switches < MaxSwitches /\ switches' = switches + 1
    /\ tokenRow' = [tokenRow EXCEPT ![d] = t]
    /\ tokens' = IF cut THEN tokens ELSE [tokens EXCEPT ![d] = t]
    /\ UNCHANGED <<generation, encryptDm, burn, muting, invalid, fileThere, sending, mail, writing,
                   inStore, pushing, pushed>>

\* logout or delete_device.
DropDevice(d) ==
    /\ Free /\ d \in DOMAIN tokens
    /\ tokens' = [e \in DOMAIN tokens \ {d} |-> tokens[e]]
    /\ tokenRow' = [e \in DOMAIN tokenRow \ {d} |-> tokenRow[e]]
    /\ UNCHANGED <<settingVars, invalid, fileThere, sending, mail, writing, inStore, pushing, pushed>>

\* clean_files.
ExpireFile ==
    /\ fileThere /\ fileThere' = FALSE
    /\ UNCHANGED <<settingVars, tokenVars, invalid, sending, mail, writing, inStore, pushing, pushed>>

\* load_users_cache: the tokens of the rows, and none is known to be invalid.
RestartSending ==
    /\ tokens' = tokenRow /\ invalid' = {}
    /\ sending' = [r \in SendRequest |-> "idle"] /\ mail' = [r \in SendRequest |-> NoMail]
    /\ writing' = {} /\ pushing' = {}
    /\ UNCHANGED <<settingVars, tokenRow, fileThere, inStore, pushed>>

SendingNext ==
    \/ \E r \in SendRequest :
        \/ \E what \in {"text", "file", "archive", "encrypted"} : BeginSend(r, what)
        \/ CheckGeneration(r) \/ CheckDm(r) \/ LockCache(r) \/ StartWrite(r)
        \/ NotifyAndAnswer(r) \/ HangUpSend(r)
    \/ \E w \in writing : Store(w)
    \/ \E task \in pushing :
        \/ \E t \in PushToken : TakeToken(task, t)
        \/ \E good \in BOOLEAN : Push(task, good)
        \/ EndPush(task)
    \/ \E on \in BOOLEAN : PutDmSetting(on)
    \/ \E n \in {1, 2} : SetGeneration(n)
    \/ \E n \in {0, 1} : SetBurn(n)
    \/ MuteSender
    \/ \E d \in Phone, t \in PushToken \cup {NoToken}, cut \in BOOLEAN : UpdateDeviceToken(d, t, cut)
    \/ \E d \in Phone : DropDevice(d)
    \/ ExpireFile \/ RestartSending

SendingSpec == SendingInit /\ [][SendingNext]_sendVars

-----------------------------------------------------------------------------
\* A request has a message as long as it runs, a task waits for tokens of the
\* receiver, and the cache knows the devices that have a row.
SendingTypeOK ==
    /\ \A r \in SendRequest : (sending[r] = "idle") <=> (mail[r] = NoMail)
    /\ \A w \in writing : w.waits => sending[w.by] = "writing"
    /\ DOMAIN tokens = DOMAIN tokenRow

\* Plain text is stored only if, while it was sent, the first generation was in
\* use and the two users had encryption off, each at some moment.
PlainWasAllowed ==
    \A m \in inStore : m.mail.kind # "encrypted" => m.mail.gen1 /\ m.mail.off

\* A message whose sender waits for the answer burns as the sender's setting
\* says when it is stored; and only phones signed in at that moment are told.
StoredAsSettingsSay ==
    \A m \in inStore : ~m.orphan => m.mail.expires = m.burnThen /\ m.mail.tell \subseteq m.phonesThen

\* What a phone is told of is stored, and its sender did not hang up before that.
ToldIsStored ==
    \A p \in pushed : \E m \in inStore : m.mid = p.mid /\ ~m.orphan /\ p.token \in m.mail.tell

\* A direct message is stored as the settings say, and only then are phones
\* told (send_message, send_notify).
SendsFollowSettings == SendingTypeOK /\ StoredAsSettingsSay /\ ToldIsStored
===============================================================================
