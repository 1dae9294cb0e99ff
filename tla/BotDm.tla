-------------------------------- MODULE BotDm --------------------------------
(***************************************************************************)
(* Direct messages from and to a bot, over the vault of BotE2ee: the       *)
(* outbound messages the server encrypts for the bot, the envelopes it     *)
(* makes for the devices of the recipient, then or when they publish their *)
(* keys, and the inbound envelopes it opens for the bot.                   *)
(***************************************************************************)
EXTENDS BotE2ee

\* deferred_wrap_key: an envelope is for one set of keys, and a one-time
\* prekey that does not decode makes none.
CanWrap(p) == p.good

\* deferred_unwrap_key: the envelope opens with the keys it was made for.
Opens(e, vault) ==
    /\ e.ik = vault.ik /\ e.spk = vault.spk
    /\ e.otp = NoOtp \/ (e.otp.key \in vault.otps /\ e.otp.pub = vault.spk)

\* append_pending_envelope_internal, and the same insert of
\* post_pending_envelope: the first envelope of a device and version stays.
SameEnvelope(e, f) == e.mid = f.mid /\ e.dev = f.dev /\ e.ver = f.ver
IsStored(e) == \E f \in envelope : SameEnvelope(e, f)
Append(e) == envelope' = IF IsStored(e) THEN envelope ELSE envelope \cup {e}

-----------------------------------------------------------------------------
\* send_to_user of the bot: is it initialized? ...
BeginSend(r) ==
    /\ Enter(r, "send", "status", [was |-> Initialized])
    /\ UNCHANGED <<keyVars, botVars, dmVars, ghostVars>>

Status(r) ==
    /\ GoTo(r, "status", IF Initialized THEN "store" ELSE "plain", arg[r])
    /\ UNCHANGED <<keyVars, botVars, dmVars, ghostVars>>

\* A query that fails counts as not initialized.
StatusFails(r) ==
    /\ errors < MaxErrors
    /\ errors' = errors + 1
    /\ pc[r] = "status"
    /\ pc' = [pc EXCEPT ![r] = "plain"]
    /\ UNCHANGED <<arg, calls, plan, keyVars, botVars, dmVars, ghostVars>>

NewMid == Cardinality(DOMAIN sent) + 1

StoreSent(plain, was) ==
    sent' = [m \in DOMAIN sent \cup {NewMid} |->
               IF m = NewMid THEN [plain |-> plain, was |-> was] ELSE sent[m]]

\* ... if not, the message goes out as it is,
SendPlain(r) ==
    /\ Leave(r, "plain")
    /\ StoreSent(TRUE, arg[r].was)
    /\ answered' = answered \cup {NewMid}
    /\ UNCHANGED <<keyVars, botVars, envelope, secret, ghostVars>>

\* Mutant: the message is not stored as a pending one.
StoreUnsent(r) ==
    /\ GoTo(r, "store", "devices", [mid |-> NewMid])
    /\ UNCHANGED <<keyVars, botVars, dmVars, ghostVars>>

\* else as ciphertext and as a pending message (DeferredDm has the steps of
\* that),
StoreEncrypted(r) ==
    /\ GoTo(r, "store", "devices", [mid |-> NewMid])
    /\ StoreSent(FALSE, arg[r].was)
    /\ UNCHANGED <<keyVars, botVars, envelope, secret, answered, ghostVars>>

\* then the devices of the recipient are read.  A job is an envelope to make:
\* for a message and a device, under a version, with the keys as just read.
Usable(d) == d \in Person /\ identity[d].ver > 0 /\ ~identity[d].retired

Job(m, d, v) == [mid |-> m, dev |-> d, ver |-> v, at |-> identity[d].ver,
                 ik |-> identity[d].ik, spk |-> identity[d].spk]

Jobs(op, m, todo) == [op |-> op, mid |-> m, jobs |-> todo, job |-> NoArg,
                      otp |-> NoOtp, tries |-> 0, added |-> FALSE]

FetchDevices(r) ==
    /\ GoTo(r, "devices", "next",
            Jobs("send", arg[r].mid,
                 {Job(arg[r].mid, d, identity[d].ver) : d \in {x \in Device : Usable(x)}}))
    /\ UNCHANGED <<keyVars, botVars, dmVars, ghostVars>>

-----------------------------------------------------------------------------
\* wrap_content_key_for_device: look at the next one-time prekey and wrap; a
\* key that does not wrap ends the attempt and nothing is consumed ...
DropJob(a) == [a EXCEPT !.jobs = @ \ {a.job}, !.tries = 0]

Candidate(a, d, p) ==
    IF a.tries = MaxRetries \/ Fresh(d) = {} THEN p = NoOtp ELSE IsNext(p, d)

\* Mutant: the prekey is consumed before it is known to wrap.
WrapConsuming(r, j, p) ==
    LET a == [arg[r] EXCEPT !.job = j, !.otp = p] IN
    /\ pc[r] = "next"
    /\ j \in arg[r].jobs /\ (arg[r].tries > 0 => j = arg[r].job)
    /\ Candidate(arg[r], j.dev, p)
    /\ prekey' = [prekey EXCEPT ![j.dev] = Consumed(@, p)]
    /\ GoTo(r, "next", IF CanWrap(p) THEN "append" ELSE "next", IF CanWrap(p) THEN a ELSE DropJob(a))
    /\ UNCHANGED <<identity, made, botVars, dmVars, ghostVars>>

Wrap(r, j, p) ==
    LET a == [arg[r] EXCEPT !.job = j, !.otp = p] IN
    /\ pc[r] = "next"
    /\ j \in arg[r].jobs /\ (arg[r].tries > 0 => j = arg[r].job)
    /\ Candidate(arg[r], j.dev, p)
    /\ IF ~CanWrap(p) THEN GoTo(r, "next", "next", DropJob(a))
       ELSE GoTo(r, "next", IF p = NoOtp THEN "append" ELSE "claim", a)
    /\ UNCHANGED <<keyVars, botVars, dmVars, ghostVars>>

\* Mutant: the update is not told from one that found nothing to change.
ClaimUnguarded(r) ==
    /\ GoTo(r, "claim", "append", arg[r])
    /\ prekey' = [prekey EXCEPT ![arg[r].job.dev] = Consumed(@, arg[r].otp)]
    /\ UNCHANGED <<identity, made, botVars, dmVars, ghostVars>>

\* ... then claim the key; who comes too late wraps again.
Claim(r) ==
    LET a == arg[r] IN
    /\ pc[r] = "claim"
    /\ IF \E p \in Fresh(a.job.dev) : SameRow(p, a.otp)
       THEN /\ prekey' = [prekey EXCEPT ![a.job.dev] = Consumed(@, a.otp)]
            /\ GoTo(r, "claim", "append", a)
       ELSE /\ UNCHANGED prekey
            /\ GoTo(r, "claim", "next", [a EXCEPT !.tries = @ + 1])
    /\ UNCHANGED <<identity, made, botVars, dmVars, ghostVars>>

EnvelopeOf(a) == [mid |-> a.job.mid, dev |-> a.job.dev, ver |-> a.job.ver, at |-> a.job.at,
                  ik |-> a.job.ik, spk |-> a.job.spk, otp |-> a.otp]

AppendEnvelope(r) ==
    LET e == EnvelopeOf(arg[r]) IN
    /\ GoTo(r, "append", "next", [DropJob(arg[r]) EXCEPT !.added = @ \/ ~IsStored(e)])
    /\ Append(e)
    /\ UNCHANGED <<keyVars, botVars, sent, secret, answered, ghostVars>>

\* Mutant: the content key is never kept.
KeepsNoSecret(r) ==
    /\ pc[r] = "next" /\ arg[r].op = "send" /\ arg[r].jobs = {}
    /\ Leave(r, "next")
    /\ answered' = answered \cup {arg[r].mid}
    /\ UNCHANGED <<keyVars, botVars, sent, envelope, secret, ghostVars>>

\* The end of a send: without an envelope the content key is kept.
FinishSend(r) ==
    /\ pc[r] = "next" /\ arg[r].op = "send" /\ arg[r].jobs = {}
    /\ Leave(r, "next")
    /\ secret' = IF arg[r].added THEN secret ELSE secret \cup {arg[r].mid}
    /\ answered' = answered \cup {arg[r].mid}
    /\ UNCHANGED <<keyVars, botVars, sent, envelope, ghostVars>>

-----------------------------------------------------------------------------
\* put_identity of a person's device, with new keys or the same again; the
\* transaction also tells whether a message of the bot waits for the device.
Pending == {m \in DOMAIN sent : ~sent[m].plain}

Waiting(ms, d, v) ==
    {m \in ms : \A e \in envelope : ~(e.mid = m /\ e.dev = d /\ e.ver = v)}

PutIdentity(r, d, fresh) ==
    LET g == IF fresh THEN made + 1 ELSE identity[d].spk
        row == Published(identity[d], g)
        waits == Waiting(Pending, d, row.ver) # {}
    IN /\ d \in Person
       /\ IF fresh THEN NewGeneration ELSE identity[d].ver > 0 /\ UNCHANGED made
       /\ identity' = [identity EXCEPT ![d] = row]
       /\ IF waits THEN Enter(r, "publish", "catch up", [dev |-> d, ver |-> row.ver])
                   ELSE Enter(r, "publish", "idle", NoArg)
       /\ UNCHANGED <<prekey, botVars, dmVars, ghostVars>>

\* catch_up_pending_sends: the messages whose content key was kept, ...
CatchUp(r) ==
    LET mids == Waiting(secret, arg[r].dev, arg[r].ver) IN
    /\ pc[r] = "catch up"
    /\ IF mids = {} THEN Leave(r, "catch up")
       ELSE GoTo(r, "catch up", "device", [dev |-> arg[r].dev, ver |-> arg[r].ver, mids |-> mids])
    /\ UNCHANGED <<keyVars, botVars, dmVars, ghostVars>>

\* Mutant: the envelopes are filed under the version that comes next.
FetchDeviceAhead(r) ==
    LET a == arg[r] IN
    /\ pc[r] = "device"
    /\ IF Usable(a.dev)
       THEN GoTo(r, "device", "next", Jobs("publish", 0, {Job(m, a.dev, a.ver + 1) : m \in a.mids}))
       ELSE Leave(r, "device")
    /\ UNCHANGED <<keyVars, botVars, dmVars, ghostVars>>

\* ... the device, read again, and an envelope of each under the version of
\* the publication.
FetchDevice(r) ==
    LET a == arg[r] IN
    /\ pc[r] = "device"
    /\ IF Usable(a.dev)
       THEN GoTo(r, "device", "next", Jobs("publish", 0, {Job(m, a.dev, a.ver) : m \in a.mids}))
       ELSE Leave(r, "device")
    /\ UNCHANGED <<keyVars, botVars, dmVars, ghostVars>>

FinishCatchUp(r) ==
    /\ pc[r] = "next" /\ arg[r].op = "publish" /\ arg[r].jobs = {}
    /\ Leave(r, "next")
    /\ UNCHANGED <<keyVars, botVars, dmVars, ghostVars>>

UploadPrekeys(d, wellformed) ==
    /\ "prekeys" \in plan /\ d \in Person
    /\ PutPrekeys(d, wellformed)
    /\ UNCHANGED <<botVars, dmVars, ghostVars, pc, arg, boundVars>>

EndSession(d) ==
    /\ "publish" \in plan /\ d \in Person
    /\ Retire(d)
    /\ UNCHANGED <<botVars, dmVars, ghostVars, pc, arg, boundVars>>

-----------------------------------------------------------------------------
\* get_bundle: the identity, the next one-time prekey and its update are
\* three statements, and the update does not ask whether it is still free.
BeginBundle(r, d) ==
    /\ identity[d].ver > 0
    /\ Enter(r, "bundle", "bundle", [dev |-> d, ik |-> identity[d].ik, spk |-> identity[d].spk])
    /\ UNCHANGED <<keyVars, botVars, dmVars, ghostVars>>

BundlePrekey(r, p) ==
    LET a == [dev |-> arg[r].dev, ik |-> arg[r].ik, spk |-> arg[r].spk, otp |-> p] IN
    /\ pc[r] = "bundle"
    /\ IF Fresh(a.dev) = {} THEN p = NoOtp ELSE IsNext(p, a.dev)
    /\ GoTo(r, "bundle", IF p = NoOtp THEN "bundled" ELSE "consume", a)
    /\ UNCHANGED <<keyVars, botVars, dmVars, ghostVars>>

ConsumePrekey(r) ==
    LET a == arg[r] IN
    /\ GoTo(r, "consume", "bundled", a)
    /\ prekey' = [prekey EXCEPT ![a.dev] = Consumed(@, a.otp)]
    /\ given' = given \cup {[dev |-> a.dev, row |-> a.otp.row, key |-> a.otp.key]}
    /\ UNCHANGED <<identity, made, botVars, dmVars, opened, stale>>

\* What the client does with the bundle of another person is its own affair.
FinishBundle(r) ==
    /\ pc[r] = "bundled" /\ arg[r].dev # bd
    /\ Leave(r, "bundled")
    /\ UNCHANGED <<keyVars, botVars, dmVars, ghostVars>>

\* With the bundle of the bot it wraps the key of a message and posts the
\* envelope (post_pending_envelope), filed under the version of that moment.
PostEnvelope(r, m) ==
    LET a == arg[r]
        e == [mid |-> m, dev |-> bd, ver |-> identity[bd].ver, at |-> identity[bd].ver,
              ik |-> a.ik, spk |-> a.spk, otp |-> a.otp]
    IN /\ pc[r] = "bundled" /\ a.dev = bd
       /\ IF IsStored(e) THEN Leave(r, "bundled") ELSE GoTo(r, "bundled", "inbound", [mid |-> m])
       /\ Append(e)
       /\ UNCHANGED <<keyVars, botVars, sent, secret, answered, ghostVars>>

\* handle_inbound_bot_envelope: the newest envelope of the message, ...
ReadEnvelope(r, e) ==
    /\ pc[r] = "inbound"
    /\ e \in envelope /\ e.mid = arg[r].mid /\ e.dev = bd
    /\ \A f \in envelope : (f.mid = e.mid /\ f.dev = bd) => f.ver <= e.ver
    /\ GoTo(r, "inbound", "vault", [env |-> e])
    /\ UNCHANGED <<keyVars, botVars, dmVars, ghostVars>>

\* ... the vault; the envelope is opened with it, ...
LoadVault(r) ==
    LET e == arg[r].env IN
    /\ pc[r] = "vault"
    /\ IF Opens(e, bot.vault) /\ e.otp # NoOtp
       THEN GoTo(r, "vault", "persist", [env |-> e, vault |-> bot.vault])
       ELSE Leave(r, "vault")
    /\ UNCHANGED <<keyVars, botVars, dmVars, ghostVars>>

\* Mutant: the vault is written back as it was.
PersistUnchanged(r) ==
    LET a == arg[r] IN
    /\ Leave(r, "persist")
    /\ bot' = [bot EXCEPT !.vault = a.vault]
    /\ opened' = opened \cup {[key |-> a.env.otp.key, pub |-> a.env.otp.pub]}
    /\ stale' = (stale \/ bot.vault # a.vault)
    /\ UNCHANGED <<keyVars, channel, mls, dmVars, given>>

\* ... and the vault is written back without the one-time secret it took; the
\* text then goes to the webhook of the bot.
Persist(r) ==
    LET a == arg[r] IN
    /\ Leave(r, "persist")
    /\ bot' = [bot EXCEPT !.vault = [a.vault EXCEPT !.otps = @ \ {a.env.otp.key}]]
    /\ opened' = opened \cup {[key |-> a.env.otp.key, pub |-> a.env.otp.pub]}
    /\ stale' = (stale \/ bot.vault # a.vault)
    /\ UNCHANGED <<keyVars, channel, mls, dmVars, given>>

-----------------------------------------------------------------------------
AdminStep(r) ==
    \/ BeginInitialize(r) \/ CommitInitialize(r)
    \/ BeginRotate(r) \/ LoadForRotate(r) \/ CommitRotate(r)
    \/ BeginRebuild(r) \/ CommitRebuild(r)
    \/ BeginEnable(r) \/ EnableChannel(r) \/ ReadMarks(r)
    \/ PutCredential(r) \/ MarkCredential(r) \/ PublishPackage(r) \/ MarkPackage(r)
    \/ FinishEnable(r) \/ DisableChannel(r)

SendStep(r) ==
    \/ BeginSend(r) \/ Status(r) \/ StatusFails(r) \/ SendPlain(r)
    \/ StoreEncrypted(r) \/ FetchDevices(r)
    \/ pc[r] = "next" /\ \E j \in arg[r].jobs : \E p \in prekey[j.dev] \cup {NoOtp} : Wrap(r, j, p)
    \/ Claim(r) \/ AppendEnvelope(r) \/ FinishSend(r)
    \/ CatchUp(r) \/ FetchDevice(r) \/ FinishCatchUp(r)

ClientStep(r) ==
    \/ \E d \in Person, fresh \in BOOLEAN : PutIdentity(r, d, fresh)
    \/ \E d \in Device : BeginBundle(r, d)
    \/ pc[r] = "bundle" /\ \E p \in prekey[arg[r].dev] \cup {NoOtp} : BundlePrekey(r, p)
    \/ ConsumePrekey(r) \/ FinishBundle(r)
    \/ \E m \in Inbound : PostEnvelope(r, m)
    \/ \E e \in envelope : ReadEnvelope(r, e)
    \/ LoadVault(r) \/ Persist(r)

Next ==
    \/ \E r \in Request : AdminStep(r) \/ SendStep(r) \/ ClientStep(r) \/ Cut(r)
    \/ \E d \in Person, wellformed \in BOOLEAN : UploadPrekeys(d, wellformed)
    \/ \E d \in Person : EndSession(d)

Spec == Init /\ [][Next]_vars

-----------------------------------------------------------------------------
\* Types of the variables of the vault and of the messages.
TypeOK ==
    /\ KeysTypeOK
    /\ bot \in [ver : Nat, ik : Generation, spk : Generation,
                vault : [ik : Generation, spk : Generation, otps : SUBSET OtpIds]]
    /\ channel \in [on : BOOLEAN, cred : BOOLEAN, package : BOOLEAN]
    /\ mls \in [cred : Generation, packages : Nat]
    /\ DOMAIN sent \subseteq Mids
    /\ secret \cup answered \subseteq DOMAIN sent
    /\ \A e \in envelope : e.mid \in Inbound \cup Pending /\ e.dev \in Device

\* The two public copies of a bot's keys, the one people's clients fetch and
\* the one beside the vault, agree, whatever initialize, rotate and rebuild
\* run at the same time.
MirrorsAgree ==
    identity[bd].ver = bot.ver /\ identity[bd].ik = bot.ik /\ identity[bd].spk = bot.spk

\* A one-time prekey of the bot that get_bundle may still hand out belongs to
\* the signed prekey it is handed out with: rotate and rebuild leave none of
\* the batch before, also while keys are being claimed.
OfferedIsCurrent == \A p \in Fresh(bd) : p.pub = identity[bd].spk

\* rotate, rebuild, initialize and the opening of inbound envelopes keep the
\* vault the secret half of what is published, and every key on offer has its
\* secret, unless one of them has overwritten what another did meanwhile.
VaultMirrored ==
    ~stale => /\ bot.vault.ik = identity[bd].ik
              /\ bot.vault.spk = identity[bd].spk
              /\ \A p \in Fresh(bd) : p.key \in bot.vault.otps

\* handle_inbound_bot_envelope: a one-time secret that has opened an envelope
\* is gone from the vault for good, under the same proviso.
UsedSecretGone ==
    ~stale => \A o \in opened : o.key \in bot.vault.otps => o.pub # bot.vault.spk

\* set_channel_enabled and rebuild: a channel marked as having the credential
\* has the one of the identity key of today, under the same proviso.
CredentialCurrent == ~stale /\ channel.cred => mls.cred = bot.ik

\* try_consume_one_time_prekey: two envelopes the bot sends a device never
\* share a one-time prekey, whoever claims, uploads or fetches meanwhile.
KeyClaimedOnce ==
    \A e, f \in {x \in envelope : x.dev \in Person /\ x.otp # NoOtp} :
        e.dev = f.dev /\ SameRow(e.otp, f.otp) => e = f

\* wrap_content_key_for_device: a one-time prekey that does not wrap is never
\* consumed by a send; only get_bundle can have taken it.
FailedWrapBurnsNothing ==
    \A d \in Person : \A p \in prekey[d] :
        p.used /\ ~p.good => [dev |-> d, row |-> p.row, key |-> p.key] \in given

\* send_bot_dm and catch_up_pending_sends: an envelope filed under a version
\* of a device is never made for older keys than that version's.
EnvelopeNotOlder == \A e \in envelope : e.dev \in Person => e.ver <= e.at

\* send_bot_dm: a message answered with success can be read by somebody, or
\* its content key is kept for the device that comes.
AnsweredIsReadable ==
    \A m \in answered : sent[m].plain \/ m \in secret \/ \E e \in envelope : e.mid = m

\* A bot's vault, its mirrors, its keys on offer and its credential belong
\* together (initialize, rotate, rebuild, handle_inbound_bot_envelope).
BotKeysAgree ==
    /\ TypeOK
    /\ MirrorsAgree
    /\ OfferedIsCurrent
    /\ VaultMirrored
    /\ UsedSecretGone
    /\ CredentialCurrent

\* What a bot has sent can be opened by whom it was made for (send_bot_dm,
\* catch_up_pending_sends, try_consume_one_time_prekey).
EnvelopesReadable ==
    KeyClaimedOnce /\ FailedWrapBurnsNothing /\ EnvelopeNotOlder /\ AnsweredIsReadable

\* e2e_identity.key_version: new published keys of a device come with a higher
\* version, and a version is never taken back (the bot's under the proviso).
KeysChangeVersion ==
    [][\A d \in Device : (identity'[d].ik # identity[d].ik \/ identity'[d].spk # identity[d].spk)
                          /\ ~(d = bd /\ stale') => identity'[d].ver > identity[d].ver]_vars

\* What the comments say and the code does not do.  The comment at
\* src/bot_e2ee.rs:1505: the envelope can never be unwrapped again.
NeverOpensAgain == \A o \in opened : o.key \in bot.vault.otps => o.pub # bot.vault.spk

\* The migration: the public counterparts are mirrored.
AlwaysMirrored == bot.vault.spk = identity[bd].spk /\ bot.vault.ik = identity[bd].ik

\* The comment at src/bot_e2ee.rs:1209: an initialized bot never silently
\* falls back to something other than the encrypted path.
NeverPlain == \A m \in DOMAIN sent : sent[m].was => ~sent[m].plain

\* catch_up_pending_sends: when nothing runs, no device that can be written to
\* waits for a message whose content key is kept.
NoneLeftWaiting ==
    (\A r \in Request : pc[r] = "idle") /\ errors = 0 =>
        \A d \in Person : Usable(d) => Waiting(secret, d, identity[d].ver) = {}
=============================================================================
