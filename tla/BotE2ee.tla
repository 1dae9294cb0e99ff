------------------------------- MODULE BotE2ee -------------------------------
(***************************************************************************)
(* The key vault of a bot.  A bot has no client, so the server keeps its   *)
(* private keys, one sealed blob per bot, publishes their public halves    *)
(* as those of a device, encrypts what the bot sends and decrypts what it  *)
(* is sent.                                                                *)
(*                                                                         *)
(* The handlers read the vault, work on the copy and write it back without *)
(* comparing it with what they read, and outbound messages take one-time   *)
(* prekeys that people's clients and other requests take as well.  A step  *)
(* is one statement outside a transaction, or one transaction.             *)
(***************************************************************************)
EXTENDS PreKeys

CONSTANTS
    Request,        \* requests that may run at a time
    bd,             \* the device of the bot
    Inbound,        \* deferred DMs sent to the bot, already stored
    MaxCalls,       \* bound of the model: requests begun
    MaxErrors,      \* bound of the model: requests cut short
    MaxRetries,     \* MAX_CLAIM_RETRIES
    Plans           \* bound of the model: the handlers a behaviour may use, together

ASSUME BotAssumption ==
    /\ bd \in Device
    /\ {MaxCalls, MaxErrors} \subseteq Nat
    /\ MaxRetries \in Nat \ {0}

VARIABLES
    bot,            \* row of bot_e2ee_identity: version, public keys, vault
    channel,        \* row of bot_e2ee_channel, for one channel
    mls,            \* what the bot has published for MLS: [cred, packages]
    sent,           \* messages of the bot: [plain, was (initialized at its start)]
    envelope,       \* rows of e2e_pending_envelope
    secret,         \* mids with a row in bot_e2ee_pending_secret
    pc, arg,        \* per request: where it is, and what it has read
    answered,       \* mids answered to the bot with success
    given,          \* one-time prekeys get_bundle has handed out
    opened,         \* one-time secrets that have opened an envelope for the bot
    stale,          \* a request has written what it made of a row changed since
    calls, errors,
    plan

botVars == <<bot, channel, mls>>
dmVars == <<sent, envelope, secret, answered>>
ghostVars == <<given, opened, stale>>
boundVars == <<calls, errors, plan>>
vars == <<keyVars, botVars, dmVars, ghostVars, pc, arg, boundVars>>

Person == Device \ {bd}
Mids == 1 .. MaxCalls
NoArg == <<>>
NoOtp == [row |-> 0, key |-> 0, pub |-> 0, good |-> TRUE, used |-> TRUE]
NoVault == [ik |-> 0, spk |-> 0, otps |-> {}]
NoBot == [ver |-> 0, ik |-> 0, spk |-> 0, vault |-> NoVault]

Initialized == bot.ver > 0

Init ==
    /\ InitKeys
    /\ bot = NoBot
    /\ channel = [on |-> FALSE, cred |-> FALSE, package |-> FALSE]
    /\ mls = [cred |-> 0, packages |-> 0]
    /\ sent = [m \in {} |-> m]
    /\ envelope = {} /\ secret = {} /\ answered = {}
    /\ pc = [r \in Request |-> "idle"]
    /\ arg = [r \in Request |-> NoArg]
    /\ given = {} /\ opened = {} /\ stale = FALSE
    /\ calls = 0 /\ errors = 0
    /\ plan \in Plans

\* A request of this kind enters at the given step.
Enter(r, kind, step, a) ==
    /\ kind \in plan
    /\ pc[r] = "idle"
    /\ calls < MaxCalls
    /\ calls' = calls + 1
    /\ pc' = [pc EXCEPT ![r] = step]
    /\ arg' = [arg EXCEPT ![r] = a]
    /\ UNCHANGED <<errors, plan>>

GoTo(r, from, to, a) ==
    /\ pc[r] = from
    /\ pc' = [pc EXCEPT ![r] = to]
    /\ arg' = [arg EXCEPT ![r] = a]
    /\ UNCHANGED boundVars

Leave(r, from) == GoTo(r, from, "idle", NoArg)

\* The client hangs up, a statement fails or the master key cannot be read
\* any more: the request ends between two of its steps.
Cut(r) ==
    /\ pc[r] # "idle"
    /\ errors < MaxErrors
    /\ errors' = errors + 1
    /\ pc' = [pc EXCEPT ![r] = "idle"]
    /\ arg' = [arg EXCEPT ![r] = NoArg]
    /\ UNCHANGED <<keyVars, botVars, dmVars, ghostVars, calls, plan>>

-----------------------------------------------------------------------------
\* generate_material: everything of one generation.
Material(g) == [ik |-> g, spk |-> g, otps |-> OtpIds]
Batch(g) == {NewRow(k, g, TRUE) : k \in OtpIds}

\* The two mirrors of the bot's public keys, written by one transaction.
Mirror(v, ik, spk, vault) ==
    /\ bot' = [ver |-> v, ik |-> ik, spk |-> spk, vault |-> vault]
    /\ identity' = [identity EXCEPT ![bd] =
                      [ver |-> v, ik |-> ik, spk |-> spk, retired |-> @.retired]]

\* initialize: the check, then the transaction, whose plain inserts fail when
\* another request has been there in the meantime.
BeginInitialize(r) ==
    /\ ~Initialized
    /\ NewGeneration
    /\ Enter(r, "initialize", "initialize", [gen |-> made + 1])
    /\ UNCHANGED <<identity, prekey, botVars, dmVars, ghostVars>>

CommitInitialize(r) ==
    /\ Leave(r, "initialize")
    /\ LET g == arg[r].gen IN
       IF Initialized THEN UNCHANGED <<keyVars, bot>>
       ELSE /\ Mirror(1, g, g, Material(g))
            /\ prekey' = [prekey EXCEPT ![bd] = Batch(g)]
            /\ UNCHANGED made
    /\ UNCHANGED <<channel, mls, dmVars, ghostVars>>

\* rotate: the row, then the vault (a query of its own), then the transaction.
BeginRotate(r) ==
    /\ Initialized
    /\ Enter(r, "rotate", "rotate: vault", [row |-> bot])
    /\ UNCHANGED <<keyVars, botVars, dmVars, ghostVars>>

LoadForRotate(r) ==
    /\ NewGeneration
    /\ GoTo(r, "rotate: vault", "rotate: commit",
            [row |-> arg[r].row, vault |-> bot.vault, gen |-> made + 1])
    /\ UNCHANGED <<identity, prekey, botVars, dmVars, ghostVars>>

\* Mutant: nothing is deleted, and a row with one of the ids stays as it is.
UpsertedKeeping(rows, g) ==
    rows \cup {NewRow(k, g, TRUE) : k \in OtpIds \ {p.key : p \in rows}}

\* Rows not consumed are deleted; a row that is left with one of the ids gets
\* the new key and is no longer consumed.
Upserted(rows, g) ==
    LET kept == {p \in rows : p.used}
        renewed == {[p EXCEPT !.pub = g, !.used = FALSE] : p \in kept}
    IN renewed \cup {NewRow(k, g, TRUE) : k \in OtpIds \ {p.key : p \in kept}}

\* Mutant: the version is not written to e2e_identity.
RotateVaultOnly(r) ==
    /\ Leave(r, "rotate: commit")
    /\ LET a == arg[r] IN
       /\ prekey' = [prekey EXCEPT ![bd] = Upserted(@, a.gen)]
       /\ identity' = [identity EXCEPT ![bd].spk = a.gen]
       /\ bot' = [bot EXCEPT !.ver = a.row.ver + 1, !.spk = a.gen,
                             !.vault = [a.vault EXCEPT !.spk = a.gen, !.otps = OtpIds]]
       /\ stale' = (stale \/ bot.ver # a.row.ver \/ bot.vault # a.vault)
    /\ UNCHANGED <<made, channel, mls, dmVars, given, opened>>

CommitRotate(r) ==
    /\ Leave(r, "rotate: commit")
    /\ LET a == arg[r] IN
       /\ prekey' = [prekey EXCEPT ![bd] = Upserted(@, a.gen)]
       /\ identity' = [identity EXCEPT ![bd].ver = a.row.ver + 1, ![bd].spk = a.gen]
       /\ bot' = [bot EXCEPT !.ver = a.row.ver + 1, !.spk = a.gen,
                             !.vault = [a.vault EXCEPT !.spk = a.gen, !.otps = OtpIds]]
       /\ stale' = (stale \/ bot.ver # a.row.ver \/ bot.vault # a.vault)
    /\ UNCHANGED <<made, channel, mls, dmVars, given, opened>>

\* rebuild: everything anew, and the channels must be published again.
BeginRebuild(r) ==
    /\ Initialized
    /\ NewGeneration
    /\ Enter(r, "rebuild", "rebuild", [row |-> bot, gen |-> made + 1])
    /\ UNCHANGED <<identity, prekey, botVars, dmVars, ghostVars>>

\* Mutant: the marks of the channels stay.
RebuildKeepingMarks(r) ==
    /\ Leave(r, "rebuild")
    /\ LET a == arg[r] IN
       /\ prekey' = [prekey EXCEPT ![bd] = Batch(a.gen)]
       /\ Mirror(a.row.ver + 1, a.gen, a.gen, Material(a.gen))
       /\ stale' = (stale \/ bot.ver # a.row.ver)
    /\ UNCHANGED <<made, channel, mls, dmVars, given, opened>>

\* Mutant: the vault keeps what it had of one-time secrets.
RebuildKeepingSecrets(r) ==
    /\ Leave(r, "rebuild")
    /\ LET a == arg[r] IN
       /\ prekey' = [prekey EXCEPT ![bd] = Batch(a.gen)]
       /\ Mirror(a.row.ver + 1, a.gen, a.gen, [Material(a.gen) EXCEPT !.otps = bot.vault.otps])
       /\ stale' = (stale \/ bot.ver # a.row.ver)
    /\ channel' = [channel EXCEPT !.cred = FALSE, !.package = FALSE]
    /\ UNCHANGED <<made, mls, dmVars, given, opened>>

CommitRebuild(r) ==
    /\ Leave(r, "rebuild")
    /\ LET a == arg[r] IN
       /\ prekey' = [prekey EXCEPT ![bd] = Batch(a.gen)]
       /\ Mirror(a.row.ver + 1, a.gen, a.gen, Material(a.gen))
       /\ stale' = (stale \/ bot.ver # a.row.ver)
    /\ channel' = [channel EXCEPT !.cred = FALSE, !.package = FALSE]
    /\ UNCHANGED <<made, mls, dmVars, given, opened>>

-----------------------------------------------------------------------------
\* set_channel_enabled: one statement after the other, no transaction.
BeginEnable(r) ==
    /\ Initialized
    /\ Enter(r, "enable", "enable", [row |-> bot])
    /\ UNCHANGED <<keyVars, botVars, dmVars, ghostVars>>

EnableChannel(r) ==
    /\ GoTo(r, "enable", "read marks", arg[r])
    /\ channel' = [channel EXCEPT !.on = TRUE]
    /\ UNCHANGED <<keyVars, bot, mls, dmVars, ghostVars>>

\* What is left to publish, by the marks.
ReadMarks(r) ==
    LET left == (IF channel.cred THEN {} ELSE {"credential"})
                  \cup (IF channel.package THEN {} ELSE {"package"})
    IN /\ GoTo(r, "read marks", "publish", [row |-> arg[r].row, left |-> left])
       /\ UNCHANGED <<keyVars, botVars, dmVars, ghostVars>>

\* The credential names the identity key the request has read.
PutCredential(r) ==
    /\ GoTo(r, "publish", "mark credential", arg[r])
    /\ "credential" \in arg[r].left
    /\ mls' = [mls EXCEPT !.cred = arg[r].row.ik]
    /\ stale' = (stale \/ bot.ik # arg[r].row.ik)
    /\ UNCHANGED <<keyVars, bot, channel, dmVars, given, opened>>

MarkCredential(r) ==
    /\ GoTo(r, "mark credential", "publish", [arg[r] EXCEPT !.left = @ \ {"credential"}])
    /\ channel' = [channel EXCEPT !.cred = TRUE]
    /\ stale' = (stale \/ bot.ik # arg[r].row.ik)
    /\ UNCHANGED <<keyVars, bot, mls, dmVars, given, opened>>

PublishPackage(r) ==
    /\ GoTo(r, "publish", "mark package", arg[r])
    /\ arg[r].left = {"package"}
    /\ mls' = [mls EXCEPT !.packages = @ + 1]
    /\ UNCHANGED <<keyVars, bot, channel, dmVars, ghostVars>>

MarkPackage(r) ==
    /\ GoTo(r, "mark package", "publish", [arg[r] EXCEPT !.left = {}])
    /\ channel' = [channel EXCEPT !.package = TRUE]
    /\ UNCHANGED <<keyVars, bot, mls, dmVars, ghostVars>>

FinishEnable(r) ==
    /\ Leave(r, "publish")
    /\ arg[r].left = {}
    /\ UNCHANGED <<keyVars, botVars, dmVars, ghostVars>>

DisableChannel(r) ==
    /\ pc[r] = "idle" /\ "enable" \in plan
    /\ channel.on
    /\ channel' = [channel EXCEPT !.on = FALSE]
    /\ UNCHANGED <<keyVars, bot, mls, dmVars, ghostVars, pc, arg, boundVars>>
=============================================================================
