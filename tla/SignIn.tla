------------------------------- MODULE SignIn --------------------------------
(***************************************************************************)
(* Accounts, the ways to sign in to them, and the sessions of devices.     *)
(*                                                                         *)
(* The handlers of /token and /user keep rows in SQLite and a copy of the  *)
(* users in State.cache.  Most change both under the write side of the     *)
(* cache lock (CreateUser, DoLogin, Logout ...) and are one step here.     *)
(* Three are not: a login with a third-party identity looks its row up,    *)
(* then looks for an account to link, and only then creates one; a         *)
(* password is verified without the lock and written afterwards, row first *)
(* and cache second; and a refresh token is read and compared in one       *)
(* statement and replaced in another, which names the device only.         *)
(*                                                                         *)
(* A handler whose client hangs up is dropped at its commit: the rows have *)
(* changed and the cache has not.                                          *)
(***************************************************************************)
EXTENDS MagicCodes, FiniteSetsExt

CONSTANTS
    Client,         \* those who send requests, one at a time each
    Identity,       \* third-party identities: [kind, name, mail]
    Secret,         \* passwords
    NoSecret,       \* the null of user.password
    Device,
    NoDevice, NoCode,
    MaxUid,         \* bound of the model: accounts ever made
    MaxCalls        \* bound of the model: calls of the API

Kinds == {"google", "github", "oidc", "metamask", "thirdparty"}

ASSUME IdentityAssumption ==
    \A i \in Identity :
        /\ DOMAIN i = {"kind", "name", "mail"}
        /\ i.kind \in Kinds
        /\ i.mail \in Mail \cup {NoMail}
        /\ i.kind = "google" => i.mail # NoMail
        /\ i.name \notin Mail \cup {NoMail}
ASSUME SecretAssumption == NoSecret \notin Secret
ASSUME BoundAssumption == MaxUid \in Nat \ {0} /\ MaxCalls \in Nat

VARIABLES
    rows,           \* user: uid -> [mail, pw, frozen]
    idents,         \* google_auth, github_auth ...: identity -> uid
    refresh,        \* refresh_token: <<uid, device>>
    token,          \* and of its token: the login whose renewals led to it, or Lost
    devices,        \* device: <<uid, device>>
    cache,          \* Cache.users, of the form of rows
    cacheDevices,   \* CacheUser.devices: <<uid, device>>
    nextUid,        \* AUTOINCREMENT of user
    links,          \* login links sent: [code, mail, uid]
    challenges,     \* State.pending_oidc and metamask_nonce: identities asked to prove themselves
    issued,         \* <<uid, device>> that an access token exists for
    req,            \* per client: the request under way
    \* history, for the properties
    madeFor,        \* uid -> the identity it was created for, if any
    had,            \* uid -> the passwords its row has held
    open,           \* <<uid, device>> logged in, and not logged out since
    logins,         \* per <<uid, device>>: how many logins there were
    overtaken,      \* <<uid, device, login>>: renewed while the device logged in again
    cut,            \* a handler was dropped at its commit since the start
    calls           \* counter of the bound

accountVars == <<rows, idents, cache, nextUid, madeFor, had>>
tokenVars == <<token, logins, overtaken>>
deviceVars == <<refresh, devices, cacheDevices, issued, open>>
sessionVars == <<deviceVars, tokenVars>>
linkVars == <<codeVars, links, challenges>>
vars == <<accountVars, sessionVars, linkVars, req, cut, calls>>

Uid == 1 .. MaxUid
NoIdent == [kind |-> "none", name |-> NoMail, mail |-> NoMail]
NoUid == 0
Lost == 0           \* a token whose client hung up before it was answered

\* A stored password: of which secret, and whether it is an Argon2id hash.
Argon(s) == [of |-> s, argon |-> TRUE]
Legacy(s) == [of |-> s, argon |-> FALSE]
NoPassword == Legacy(NoSecret)

User(m, p) == [mail |-> m, pw |-> p, frozen |-> FALSE]

\* A request: where it is, for which account, identity, address, password and
\* device, whether a login follows what it does next, and of which login the
\* token is that it renews.
Idle == [pc |-> "idle", uid |-> NoUid, id |-> NoIdent, mail |-> NoMail,
         pw |-> NoPassword, dev |-> NoDevice, code |-> NoCode, login |-> FALSE, of |-> Lost]

Free(c) == req[c].pc = "idle"
Go(c, r) == req' = [req EXCEPT ![c] = r]
End(c) == Go(c, Idle)
AtStep(c, pc) == req[c].pc = pc

\* The server begins with the account of an old installation, whose password
\* is not an Argon2id hash.
Init ==
    \E m \in Mail, s \in Secret :
        /\ rows = [u \in {1} |-> User(m, Legacy(s))]
        /\ cache = rows
        /\ idents = [i \in {} |-> NoUid]
        /\ refresh = {} /\ devices = {} /\ cacheDevices = {} /\ issued = {} /\ open = {}
        /\ token = [x \in Uid \X Device |-> Lost]
        /\ logins = [x \in Uid \X Device |-> 0]
        /\ overtaken = {}
        /\ nextUid = 2
        /\ InitCodes
        /\ links = {} /\ challenges = {}
        /\ req = [c \in Client |-> Idle]
        /\ madeFor = [u \in {1} |-> NoIdent]
        /\ had = [u \in {1} |-> {Legacy(s)}]
        /\ cut = FALSE /\ calls = 0

\* The commit of client c's handler is its last step, or the cache follows.
Committed(follows, dropped) ==
    \/ follows /\ UNCHANGED cut
    \/ dropped /\ cut' = TRUE

-----------------------------------------------------------------------------
\* State::create_user, for the request r: check_email_conflict under the write
\* lock, the row and the row of the identity in one transaction.
AccountMail(r) ==
    CASE r.id.kind = "github" -> r.id.name
      [] r.id.kind \in {"google", "oidc"} -> r.id.mail
      [] r.id.kind = "none" -> r.mail
      [] OTHER -> NoMail

MailTaken(users, m) == m # NoMail /\ \E u \in DOMAIN users : users[u].mail = m

\* The primary keys and unique indexes; third_party_users has none on uid.
CanBind(i, u) ==
    /\ i \notin DOMAIN idents
    /\ i.kind # "thirdparty" => \A j \in DOMAIN idents : j.kind = i.kind => idents[j] # u

CanCreate(r) ==
    /\ ~MailTaken(cache, AccountMail(r))
    /\ ~MailTaken(rows, AccountMail(r))
    /\ r.id # NoIdent => r.id \notin DOMAIN idents

\* Whether the account was made; the caller says what becomes of the request.
NewAccount(r, users) ==
    /\ nextUid <= MaxUid
    /\ nextUid' = nextUid + 1
    /\ rows' = Put(rows, nextUid, User(AccountMail(r), r.pw))
    /\ idents' = IF r.id = NoIdent THEN idents ELSE Put(idents, r.id, nextUid)
    /\ madeFor' = Put(madeFor, nextUid, r.id)
    /\ had' = Put(had, nextUid, {r.pw})
    /\ cache' = users

NewUsers(r) == Put(cache, nextUid, User(AccountMail(r), r.pw))

\* Mutant: insert or replace into the table of the identities.
CreateReplacing(c) ==
    LET r == req[c] IN
    /\ AtStep(c, "create")
    /\ ~MailTaken(cache, AccountMail(r)) /\ ~MailTaken(rows, AccountMail(r))
    /\ Committed(NewAccount(r, NewUsers(r)) /\ Go(c, [r EXCEPT !.pc = "login", !.uid = nextUid]),
                 NewAccount(r, cache) /\ End(c))
    /\ UNCHANGED <<sessionVars, linkVars>>

\* Mutant: the cache is not asked, only the unique index.
CreateUnchecked(c) ==
    LET r == req[c] IN
    /\ AtStep(c, "create")
    /\ ~MailTaken(rows, AccountMail(r))
    /\ r.id # NoIdent => r.id \notin DOMAIN idents
    /\ Committed(NewAccount(r, NewUsers(r)) /\ Go(c, [r EXCEPT !.pc = "login", !.uid = nextUid]),
                 NewAccount(r, cache) /\ End(c))
    /\ UNCHANGED <<sessionVars, linkVars>>

CreateUser(c) ==
    LET r == req[c] IN
    /\ AtStep(c, "create")
    /\ CanCreate(r)
    /\ Committed(NewAccount(r, NewUsers(r)) /\ Go(c, [r EXCEPT !.pc = "login", !.uid = nextUid]),
                 NewAccount(r, cache) /\ End(c))
    /\ UNCHANGED <<sessionVars, linkVars>>

\* A conflict, the license's limit of users, or an insert that fails.
CreateFails(c) ==
    /\ AtStep(c, "create")
    /\ End(c)
    /\ UNCHANGED <<accountVars, sessionVars, linkVars, cut>>

-----------------------------------------------------------------------------
\* do_login, under the write lock.
MayLogin(u) == u \in DOMAIN cache /\ ~cache[u].frozen /\ u \in DOMAIN rows

\* The renewals of session s that have read its token and not yet replaced it.
Renewing(s) == {c \in Client : AtStep(c, "renew") /\ <<req[c].uid, req[c].dev>> = s}

\* Any token that the device had is replaced, renewals under way go on.
NewSession(s) ==
    /\ refresh' = refresh \cup {s}
    /\ devices' = devices \cup {s}
    /\ open' = open \cup {s}
    /\ logins' = [logins EXCEPT ![s] = @ + 1]
    /\ overtaken' = overtaken \cup {<<s[1], s[2], req[c].of>> : c \in Renewing(s)}

DoLogin(c) ==
    LET s == <<req[c].uid, req[c].dev>> IN
    /\ AtStep(c, "login") /\ End(c)
    /\ MayLogin(s[1])
    /\ NewSession(s)
    /\ Committed(/\ cacheDevices' = cacheDevices \cup {s}
                 /\ issued' = issued \cup {s}
                 /\ token' = [token EXCEPT ![s] = logins[s] + 1],
                 /\ UNCHANGED <<cacheDevices, issued>>
                 /\ token' = [token EXCEPT ![s] = Lost])
    /\ UNCHANGED <<accountVars, linkVars>>

\* UserDoesNotExist, Frozen, or an insert without its user.
LoginFails(c) ==
    /\ AtStep(c, "login") /\ End(c)
    /\ ~MayLogin(req[c].uid)
    /\ UNCHANGED <<accountVars, sessionVars, linkVars, cut>>

-----------------------------------------------------------------------------
\* openid_authorize and metamask_nonce.  Who logs in or binds with OpenID
\* Connect uses up the authorization, which may be asked for again at once; a
\* nonce stays until the next.
NeedsChallenge(i) == i.kind \in {"oidc", "metamask"}

Challenge(i) ==
    /\ NeedsChallenge(i)
    /\ challenges' = challenges \cup {i}
    /\ UNCHANGED <<accountVars, sessionVars, codeVars, links, req, cut>>

\* 150 seconds later.
AuthorizationTimesOut(i) ==
    /\ i \in challenges /\ i.kind = "oidc"
    /\ challenges' = challenges \ {i}
    /\ UNCHANGED <<accountVars, sessionVars, codeVars, links, req, cut>>

Proves(i) ==
    /\ NeedsChallenge(i) => i \in challenges
    /\ challenges' = IF i.kind = "oidc" THEN challenges \ {i} ELSE challenges

\* login with an identity: its row ...
SignInWith(c, i, d) ==
    LET r == [Idle EXCEPT !.id = i, !.dev = d] IN
    /\ Free(c)
    /\ Proves(i)
    /\ Go(c, IF i \in DOMAIN idents
             THEN [r EXCEPT !.pc = "login", !.uid = idents[i]]
             ELSE [r EXCEPT !.pc = IF i.kind \in {"google", "github"} THEN "match" ELSE "create"])
    /\ UNCHANGED <<accountVars, sessionVars, codeVars, links, cut>>

\* ... else the first account with the address of the identity; a GitHub user
\* without a public address and an account without one are equal here ...
SameMail(i) == {u \in DOMAIN cache : cache[u].mail = i.mail}

MatchMail(c) ==
    LET i == req[c].id IN
    /\ AtStep(c, "match")
    /\ Go(c, IF SameMail(i) = {}
             THEN [req[c] EXCEPT !.pc = "create"]
             ELSE [req[c] EXCEPT !.pc = "bind", !.uid = Min(SameMail(i)), !.login = TRUE])
    /\ UNCHANGED <<accountVars, sessionVars, linkVars, cut>>

\* bind, of a signed-in user: get_credential_google and the like.
StartBind(c, s, i) ==
    /\ Free(c)
    /\ i.kind # "thirdparty"
    /\ Proves(i)
    /\ Go(c, IF \E j \in DOMAIN idents : j.kind = i.kind /\ idents[j] = s[1]
             THEN Idle
             ELSE [Idle EXCEPT !.pc = "bind", !.id = i, !.uid = s[1]])
    /\ UNCHANGED <<accountVars, sessionVars, codeVars, links, cut>>

AfterBind(c) == IF req[c].login THEN [req[c] EXCEPT !.pc = "login"] ELSE Idle

\* Mutant: insert or ignore.
BindOrIgnore(c) ==
    LET i == req[c].id IN
    /\ AtStep(c, "bind")
    /\ req[c].uid \in DOMAIN rows
    /\ idents' = IF CanBind(i, req[c].uid) THEN Put(idents, i, req[c].uid) ELSE idents
    /\ Go(c, AfterBind(c))
    /\ UNCHANGED <<rows, cache, nextUid, madeFor, had, sessionVars, linkVars, cut>>

\* ... the row for the account, by login or by bind.
Bind(c) ==
    LET i == req[c].id IN
    /\ AtStep(c, "bind")
    /\ req[c].uid \in DOMAIN rows /\ CanBind(i, req[c].uid)
    /\ idents' = Put(idents, i, req[c].uid)
    /\ Go(c, AfterBind(c))
    /\ UNCHANGED <<rows, cache, nextUid, madeFor, had, sessionVars, linkVars, cut>>

BindFails(c) ==
    /\ AtStep(c, "bind")
    /\ ~(req[c].uid \in DOMAIN rows /\ CanBind(req[c].id, req[c].uid))
    /\ End(c)
    /\ UNCHANGED <<accountVars, sessionVars, linkVars, cut>>

\* register (its magic token is parsed, the code in it is not checked), and
\* login_guest.
Register(c, m, s, d) ==
    /\ Free(c)
    /\ Go(c, [Idle EXCEPT !.pc = "create", !.mail = m, !.pw = Argon(s), !.dev = d])
    /\ UNCHANGED <<accountVars, sessionVars, linkVars, cut>>

LoginGuest(c, d) ==
    /\ Free(c)
    /\ Go(c, [Idle EXCEPT !.pc = "create", !.dev = d])
    /\ UNCHANGED <<accountVars, sessionVars, linkVars, cut>>

-----------------------------------------------------------------------------
\* login with a password: the stored one is taken out of the cache and verified
\* without the lock; one that is not Argon2id is to be replaced.
LoginPassword(c, u, s, d) ==
    LET r == [Idle EXCEPT !.uid = u, !.dev = d, !.login = TRUE] IN
    /\ Free(c)
    /\ u \in DOMAIN cache /\ cache[u].mail # NoMail
    /\ cache[u].pw.of = s
    /\ Go(c, IF cache[u].pw.argon THEN [r EXCEPT !.pc = "login"]
                                  ELSE [r EXCEPT !.pc = "write", !.pw = Argon(s)])
    /\ UNCHANGED <<accountVars, sessionVars, linkVars, cut>>

\* change_password: the old one is verified in the same way.
ChangePassword(c, u, old, new) ==
    /\ Free(c)
    /\ u \in DOMAIN cache
    /\ cache[u].pw.of = old
    /\ Go(c, [Idle EXCEPT !.pc = "write", !.uid = u, !.pw = Argon(new)])
    /\ UNCHANGED <<accountVars, sessionVars, linkVars, cut>>

\* "update user set password", of both: DB before cache.
WithPassword(users, u, p) ==
    IF u \in DOMAIN users THEN [users EXCEPT ![u].pw = p] ELSE users

HadPassword(u, p) ==
    had' = IF u \in DOMAIN rows THEN [had EXCEPT ![u] = @ \cup {p}] ELSE had

\* Mutant: the cache first.
WriteCacheFirst(c) ==
    LET r == req[c] IN
    /\ AtStep(c, "write")
    /\ cache' = WithPassword(cache, r.uid, r.pw)
    /\ Go(c, [r EXCEPT !.pc = "publish"])
    /\ UNCHANGED <<rows, idents, nextUid, madeFor, had, sessionVars, linkVars, cut>>

WriteRow(c) ==
    LET r == req[c] IN
    /\ AtStep(c, "write")
    /\ rows' = WithPassword(rows, r.uid, r.pw)
    /\ HadPassword(r.uid, r.pw)
    /\ Committed(Go(c, [r EXCEPT !.pc = "publish"]), End(c))
    /\ UNCHANGED <<idents, cache, nextUid, madeFor, sessionVars, linkVars>>

PublishPassword(c) ==
    LET r == req[c] IN
    /\ AtStep(c, "publish")
    /\ cache' = WithPassword(cache, r.uid, r.pw)
    /\ Go(c, IF r.login THEN [r EXCEPT !.pc = "login"] ELSE Idle)
    /\ UNCHANGED <<rows, idents, nextUid, madeFor, had, sessionVars, linkVars, cut>>

\* ApiAdminUser::update, under the write lock: the password, the address or the
\* status of an account.
AdminUpdate(u, newRows, newCache) ==
    /\ u \in DOMAIN cache
    /\ rows' = newRows
    /\ Committed(cache' = newCache, UNCHANGED cache)
    /\ UNCHANGED <<idents, nextUid, madeFor, sessionVars, linkVars, req>>

AdminSetPassword(u, s) ==
    /\ AdminUpdate(u, WithPassword(rows, u, Argon(s)), WithPassword(cache, u, Argon(s)))
    /\ HadPassword(u, Argon(s))

WithMail(users, u, m) == IF u \in DOMAIN users THEN [users EXCEPT ![u].mail = m] ELSE users

AdminSetMail(u, m) ==
    /\ ~MailTaken(cache, m)
    /\ \A x \in DOMAIN rows \ {u} : u \in DOMAIN rows => rows[x].mail # m
    /\ AdminUpdate(u, WithMail(rows, u, m), WithMail(cache, u, m))
    /\ UNCHANGED had

WithStatus(users, u, f) == IF u \in DOMAIN users THEN [users EXCEPT ![u].frozen = f] ELSE users

AdminSetStatus(u, f) ==
    /\ AdminUpdate(u, WithStatus(rows, u, f), WithStatus(cache, u, f))
    /\ UNCHANGED had

-----------------------------------------------------------------------------
\* send_login_magic_link: the link names the account that has the address now.
SendLoginLink(k, m) ==
    LET us == {u \in DOMAIN cache : cache[u].mail = m} IN
    /\ AddLoginCode(k, m)
    /\ links' = links \cup
                {[code |-> k, mail |-> m, uid |-> IF us = {} THEN NoUid ELSE Min(us)]}
    /\ UNCHANGED <<accountVars, sessionVars, challenges, req, cut>>

\* login with a link checks its code twice.  A code that has died in between is
\* forgotten by the second check already, and login_magic_code_remove has
\* nothing left to remove.
LoginLink(c, l, named, d) ==
    /\ Free(c)
    /\ CheckCode(l.code)
    /\ Go(c, IF Live(l.code)
             THEN [Idle EXCEPT !.pc = "recheck", !.uid = l.uid, !.mail = l.mail,
                               !.dev = d, !.code = l.code, !.login = named]
             ELSE Idle)
    /\ UNCHANGED <<accountVars, sessionVars, links, challenges, cut>>

\* Into the account of the link, or into a new one if the link names none and
\* the user gives a name; anything else is refused.
RecheckLink(c) ==
    LET r == [req[c] EXCEPT !.login = FALSE, !.code = NoCode] IN
    /\ AtStep(c, "recheck")
    /\ CheckCode(req[c].code)
    /\ Go(c, CASE ~Live(req[c].code)              -> Idle
               [] r.uid # NoUid /\ ~req[c].login  -> [r EXCEPT !.pc = "login", !.mail = NoMail]
               [] r.uid = NoUid /\ req[c].login   -> [r EXCEPT !.pc = "create"]
               [] OTHER                           -> Idle)
    /\ UNCHANGED <<accountVars, sessionVars, links, challenges, cut>>

\* create_reg_magic_link; and send_reg_magic_link or a login with an invitation,
\* which check its code.
SendInvite(k, usable) ==
    AddInviteCode(k, usable) /\ UNCHANGED <<accountVars, sessionVars, links, challenges, req, cut>>
UseInvite(k) == CheckCode(k) /\ UNCHANGED <<accountVars, sessionVars, links, challenges, req, cut>>

\* Links expire with their code, or earlier if the code was drawn again since.
ExpireCode(k) ==
    /\ Expire(k)
    /\ links' = {l \in links : l.code # k}
    /\ UNCHANGED <<accountVars, sessionVars, challenges, req, cut>>

CleanMagicCodes == CleanCodes /\ UNCHANGED <<accountVars, sessionVars, links, challenges, req, cut>>

-----------------------------------------------------------------------------
\* renew: the row with the token of the caller is read ...
Renew(c, s) ==
    /\ Free(c)
    /\ s \in issued \cap refresh /\ token[s] # Lost
    /\ Go(c, [Idle EXCEPT !.pc = "renew", !.uid = s[1], !.dev = s[2], !.of = token[s]])
    /\ UNCHANGED <<accountVars, sessionVars, linkVars, cut>>

\* Mutant: insert, or update on conflict.
RenewUpserting(c) ==
    LET s == <<req[c].uid, req[c].dev>> IN
    /\ AtStep(c, "renew") /\ End(c)
    /\ refresh' = refresh \cup {s}
    /\ token' = [token EXCEPT ![s] = req[c].of]
    /\ UNCHANGED <<accountVars, devices, cacheDevices, issued, open, logins, overtaken,
                   linkVars, cut>>

\* ... and updated, if there is one, whatever token it has by now.
StoreRenewed(c) ==
    LET s == <<req[c].uid, req[c].dev>> IN
    /\ AtStep(c, "renew") /\ End(c)
    /\ \E answered \in BOOLEAN :
          token' = IF s \in refresh
                   THEN [token EXCEPT ![s] = IF answered THEN req[c].of ELSE Lost]
                   ELSE token
    /\ UNCHANGED <<accountVars, deviceVars, logins, overtaken, linkVars, cut>>

\* logout: the rows of the device go, its token with them.
Logout(s) ==
    /\ s \in issued /\ s[1] \in DOMAIN cache
    /\ refresh' = refresh \ {s}
    /\ devices' = devices \ {s}
    /\ open' = open \ {s}
    /\ Committed(cacheDevices' = cacheDevices \ {s}, UNCHANGED cacheDevices)
    /\ UNCHANGED <<accountVars, issued, tokenVars, linkVars, req>>

\* Mutant: the device stays in the cache.
DeleteDeviceRow(s, d) ==
    /\ s \in issued /\ <<s[1], d>> \in devices
    /\ devices' = devices \ {<<s[1], d>>}
    /\ UNCHANGED <<accountVars, refresh, cacheDevices, issued, open, tokenVars, linkVars, req, cut>>

\* delete_device, by any session of the user: the refresh token stays.
DeleteDevice(s, d) ==
    /\ s \in issued /\ <<s[1], d>> \in devices
    /\ devices' = devices \ {<<s[1], d>>}
    /\ Committed(cacheDevices' = cacheDevices \ {<<s[1], d>>}, UNCHANGED cacheDevices)
    /\ UNCHANGED <<accountVars, refresh, issued, open, tokenVars, linkVars, req>>

\* update_fcm_token makes the device that it names.
UpdateFcmToken(s, d) ==
    /\ s \in issued /\ s[1] \in DOMAIN cache \cap DOMAIN rows
    /\ devices' = devices \cup {<<s[1], d>>}
    /\ Committed(cacheDevices' = cacheDevices \cup {<<s[1], d>>}, UNCHANGED cacheDevices)
    /\ UNCHANGED <<accountVars, refresh, issued, open, tokenVars, linkVars, req>>

-----------------------------------------------------------------------------
NotOf(u, ss) == {s \in ss : s[1] # u}

\* Mutant: google_auth and the like have no ON DELETE CASCADE.
DeleteUserOnly(u) ==
    /\ u \in DOMAIN cache
    /\ rows' = Without(rows, {u})
    /\ refresh' = NotOf(u, refresh)
    /\ devices' = NotOf(u, devices)
    /\ open' = NotOf(u, open)
    /\ Committed(cache' = Without(cache, {u}) /\ cacheDevices' = NotOf(u, cacheDevices),
                 UNCHANGED <<cache, cacheDevices>>)
    /\ UNCHANGED <<idents, nextUid, madeFor, had, issued, tokenVars, linkVars, req>>

\* State::delete_user, by the user, an admin or clean_guest; everything that
\* refers to the row cascades.
DeleteUser(u) ==
    /\ u \in DOMAIN cache
    /\ rows' = Without(rows, {u})
    /\ idents' = Without(idents, {i \in DOMAIN idents : idents[i] = u})
    /\ refresh' = NotOf(u, refresh)
    /\ devices' = NotOf(u, devices)
    /\ open' = NotOf(u, open)
    /\ Committed(cache' = Without(cache, {u}) /\ cacheDevices' = NotOf(u, cacheDevices),
                 UNCHANGED <<cache, cacheDevices>>)
    /\ UNCHANGED <<nextUid, madeFor, had, issued, tokenVars, linkVars, req>>

\* load_users_cache; the codes and what was under way are gone.
Restart ==
    /\ cache' = rows
    /\ cacheDevices' = devices
    /\ codes' = [k \in {} |-> NoMail]
    /\ mailCode' = [m \in {} |-> NoMail]
    /\ req' = [c \in Client |-> Idle]
    /\ challenges' = {i \in challenges : i.kind # "oidc"}
    /\ cut' = FALSE
    /\ UNCHANGED <<rows, idents, nextUid, madeFor, had, refresh, devices, issued, open,
                   tokenVars, links>>

\* The handlers go on, whatever the bound.
Continue ==
    \E c \in Client :
        \/ CreateUser(c) \/ CreateFails(c) \/ DoLogin(c) \/ LoginFails(c)
        \/ MatchMail(c) \/ Bind(c) \/ BindFails(c)
        \/ WriteRow(c) \/ PublishPassword(c) \/ RecheckLink(c) \/ StoreRenewed(c)

Call ==
    \/ \E c \in Client, d \in Device :
          \/ \E i \in Identity : SignInWith(c, i, d)
          \/ \E m \in Mail, s \in Secret : Register(c, m, s, d)
          \/ \E u \in Uid, s \in Secret : LoginPassword(c, u, s, d)
          \/ \E l \in links, named \in BOOLEAN : LoginLink(c, l, named, d)
          \/ LoginGuest(c, d)
    \/ \E c \in Client, s \in issued :
          \/ \E i \in Identity : StartBind(c, s, i)
          \/ \E old, new \in Secret : ChangePassword(c, s[1], old, new)
          \/ Renew(c, s)
    \/ \E s \in issued : Logout(s) \/ \E d \in Device : DeleteDevice(s, d) \/ UpdateFcmToken(s, d)
    \/ \E u \in Uid :
          \/ \E s \in Secret : AdminSetPassword(u, s)
          \/ \E m \in Mail : AdminSetMail(u, m)
          \/ \E f \in BOOLEAN : AdminSetStatus(u, f)
          \/ DeleteUser(u)
    \/ \E k \in Code : 
          \/ \E m \in Mail : SendLoginLink(k, m)
          \/ \E usable \in BOOLEAN : SendInvite(k, usable)
          \/ UseInvite(k)

Next ==
    \/ Continue /\ UNCHANGED calls
    \/ Call /\ calls < MaxCalls /\ calls' = calls + 1
    \/ (Restart \/ CleanMagicCodes \/ \E k \in Code : ExpireCode(k)) /\ UNCHANGED calls
    \/ (\E i \in Identity : Challenge(i) \/ AuthorizationTimesOut(i)) /\ UNCHANGED calls

Spec == Init /\ [][Next]_vars

-----------------------------------------------------------------------------
IsUsers(users) ==
    /\ DOMAIN users \subseteq 1 .. nextUid - 1
    /\ \A u \in DOMAIN users :
          /\ users[u].mail \in Mail \cup {NoMail} \cup {i.name : i \in Identity}
          /\ users[u].pw.of \in Secret \cup {NoSecret}
          /\ users[u].frozen \in BOOLEAN

Sessions == (1 .. nextUid - 1) \X Device

\* The type of every variable.
TypeOK ==
    /\ CodesTypeOK
    /\ nextUid \in 1 .. MaxUid + 1
    /\ IsUsers(rows) /\ IsUsers(cache)
    /\ DOMAIN idents \subseteq Identity
    /\ \A i \in DOMAIN idents : idents[i] \in DOMAIN rows
    /\ UNION {refresh, devices, cacheDevices, issued, open} \subseteq Sessions
    /\ {token, logins} \subseteq [Uid \X Device -> Nat]
    /\ DOMAIN madeFor = 1 .. nextUid - 1 /\ DOMAIN had = 1 .. nextUid - 1
    /\ \A c \in Client : req[c].uid \in 0 .. nextUid - 1
    /\ challenges \subseteq Identity
    /\ cut \in BOOLEAN

\* Two requests with the same new identity, or one and its retry, make one
\* account: the identity is looked up long before the account is made, without
\* a lock, and only the transaction of create_user decides.
OneAccountPerIdentity ==
    \A u, v \in DOMAIN rows :
        u # v /\ madeFor[u] # NoIdent => madeFor[u] # madeFor[v]

\* Who signs in with an identity gets into the account that the identity
\* belongs to, also if another request binds it, or the account is deleted and
\* made again, between the steps of the login.
SignInOpensOwnAccount ==
    \A c \in Client :
        AtStep(c, "login") /\ req[c].id # NoIdent /\ req[c].uid \in DOMAIN rows =>
            req[c].id \in DOMAIN idents /\ idents[req[c].id] = req[c].uid

\* An address finds one account: the search by address in login and in the
\* links takes the first.  The cache is checked, the rows have the index, and
\* handlers that are cut short leave the two with different accounts.
MailFindsOne ==
    \A u, v \in DOMAIN cache :
        u # v /\ cache[u].mail # NoMail => cache[u].mail # cache[v].mail

\* logout ends a session for good, and so does the next login of the device: a
\* token that can be renewed is of the device's last login, and the device has
\* not logged out since, also if a renewal that has read an earlier token is
\* still to replace it.  Only a renewal that is under way while the device logs
\* in again may bring back the session before.
RefreshEndsWithLogout ==
    \A s \in refresh :
        /\ s \in open
        /\ \/ token[s] \in {Lost, logins[s]}
           \/ <<s[1], s[2], token[s]>> \in overtaken

\* The devices of the cache are those of the rows, which a restart will bring,
\* unless a handler was cut short.
DevicesAgree == ~cut => cacheDevices = devices

\* No request is verified against a password that SQLite never had: what a
\* restart brings back is never older than what users were let in with.
CacheNotAhead == \A u \in DOMAIN cache \cap DOMAIN rows : cache[u].pw \in had[u]

\* Accounts are told apart by identity and by mail (login, register, bind,
\* create_user).
AccountsKept == OneAccountPerIdentity /\ SignInOpensOwnAccount /\ MailFindsOne

\* Tokens, devices and passwords in use are those that SQLite has (do_login,
\* renew, logout, delete_device, change_password).
SessionsKept == TypeOK /\ RefreshEndsWithLogout /\ DevicesAgree /\ CacheNotAhead

-----------------------------------------------------------------------------
\* What the comments say and the code does not do.

\* token.rs, on logout: "Logout".  A session that ended, by a logout or by the
\* next login of its device, has no token that can be renewed.
EndedStaysEnded == \A s \in refresh : token[s] \in {Lost, logins[s]}

\* user.rs, on send_login_magic_link: "login magic link only can be used once."
\* A code that has let a user in is dead.
MagicLinkOnce ==
    [][\A c \in Client :
          AtStep(c, "recheck") /\ req'[c].pc \in {"login", "create"} =>
              ~(req[c].code \in DOMAIN codes' /\ codes'[req[c].code].live)]_vars

\* password_hash.rs, on upgraded_hash: "the caller should persist this Argon2id
\* hash in place of `stored`".  The upgrade changes how the password is stored,
\* not which password it is.
UpgradeKeepsSecret ==
    [][\A c \in Client :
          LET u == req[c].uid IN
          AtStep(c, "write") /\ req[c].login /\ u \in DOMAIN rows \cap DOMAIN rows'
              /\ req'[c] # req[c] =>
                  rows'[u].pw.of = rows[u].pw.of]_vars
=============================================================================
