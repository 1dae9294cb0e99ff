---------------------------- MODULE SignInProofs ----------------------------
(***************************************************************************)
(* Accounts, sessions and magic links, for any number of clients,          *)
(* identities, addresses, devices and accounts, whatever handlers are cut  *)
(* short and whenever the server is started again.                         *)
(***************************************************************************)
EXTENDS SignIn, WellFoundedInduction, TLAPS

MailName == Mail \cup {NoMail} \cup {i.name : i \in Identity}

IsPassword(p) == p.of \in Secret \cup {NoSecret}

IsUser(x) ==
    /\ DOMAIN x = {"mail", "pw", "frozen"}
    /\ x.mail \in MailName
    /\ IsPassword(x.pw)
    /\ x.frozen \in BOOLEAN

\* A table of users; an address has one of them.
IsUserTable(users, next) ==
    /\ \A u \in DOMAIN users : IsUser(users[u])
    /\ DOMAIN users \subseteq 1 .. next - 1
    /\ \A u, v \in DOMAIN users :
          u # v /\ users[u].mail # NoMail => users[u].mail # users[v].mail

IsCode(x) ==
    /\ DOMAIN x = {"mail", "live"}
    /\ x.mail \in Mail \cup {NoMail}
    /\ x.live \in BOOLEAN

\* The codes, and the address each belongs to.
CodesInv ==
    /\ \A k \in DOMAIN codes : IsCode(codes[k])
    /\ DOMAIN codes \subseteq Code
    /\ mailCode \in [DOMAIN mailCode -> Code]
    /\ DOMAIN mailCode \subseteq Mail
    /\ OneLinkPerMail

\* An account that was made for an identity keeps it, and a password was in the
\* row before it is in the cache.
AccountsInv ==
    /\ nextUid \in 1 .. MaxUid + 1
    /\ IsUserTable(rows, nextUid) /\ IsUserTable(cache, nextUid)
    /\ idents \in [DOMAIN idents -> DOMAIN rows] /\ DOMAIN idents \subseteq Identity
    /\ DOMAIN madeFor = 1 .. nextUid - 1 /\ DOMAIN had = 1 .. nextUid - 1
    /\ \A u \in DOMAIN rows :
          /\ madeFor[u] # NoIdent =>
                madeFor[u] \in DOMAIN idents /\ idents[madeFor[u]] = u
          /\ rows[u].pw \in had[u]
    /\ CacheNotAhead

Fields == {"pc", "uid", "id", "mail", "pw", "dev", "code", "login", "of"}

IsRequest(r) ==
    /\ DOMAIN r = Fields
    /\ r.uid \in Nat
    /\ r.id \in Identity \cup {NoIdent}
    /\ r.mail \in Mail \cup {NoMail}
    /\ IsPassword(r.pw)

\* What a request r has read before its step still holds when it acts on it: the
\* identity it is about to log in with is still that of the account, and the
\* password it is about to publish was written.  The accounts are us, the
\* identities ids, the next uid is next, and pws are the passwords.
Sound(r, us, ids, next, pws) ==
    /\ IsRequest(r)
    /\ r.uid < next
    /\ r.pc \in {"create", "login", "match", "recheck"} \/ r.login => r.dev \in Device
    /\ r.pc \in {"match", "bind"} => r.id \in Identity
    /\ r.pc \in {"write", "publish", "recheck"} => r.id = NoIdent
    /\ r.pc = "login" /\ r.id # NoIdent /\ r.uid \in us => r.id \in DOMAIN ids /\ ids[r.id] = r.uid
    /\ r.pc = "publish" /\ r.uid \in us => r.pw \in pws[r.uid]

RequestsInv ==
    /\ DOMAIN req = Client
    /\ \A c \in Client : Sound(req[c], DOMAIN rows, idents, nextUid, had)

LinkRow == [code : Code, mail : Mail, uid : Nat]

SessionsInv ==
    /\ refresh \subseteq Sessions /\ devices \subseteq Sessions /\ cacheDevices \subseteq Sessions
    /\ issued \subseteq Sessions /\ open \subseteq Sessions
    /\ refresh \subseteq open
    /\ cut \in BOOLEAN
    /\ DevicesAgree

LinksInv ==
    /\ links \subseteq LinkRow
    /\ \A l \in links : l.uid < nextUid
    /\ challenges \subseteq Identity

\* What every step keeps but for the tokens.
SignInInv == CodesInv /\ AccountsInv /\ RequestsInv /\ SessionsInv /\ LinksInv

\* A token of the login n of session s: of its last one, or of one whose renewal
\* was under way while the device logged in again.
IsLive(s, n) == n = logins[s] \/ <<s[1], s[2], n>> \in overtaken

Session(r) == <<r.uid, r.dev>>

\* The token of a row is lost or live, and so is the one that a renewal has read.
TokensInv ==
    /\ token \in [Uid \X Device -> Nat] /\ logins \in [Uid \X Device -> Nat]
    /\ \A s \in refresh : token[s] = Lost \/ IsLive(s, token[s])
    /\ \A c \in Client : AtStep(c, "renew") =>
          /\ Session(req[c]) \in Uid \X Device /\ req[c].of \in Nat
          /\ IsLive(Session(req[c]), req[c].of)

\* The inductive invariant.
SignInOK == SignInInv /\ TokensInv

-----------------------------------------------------------------------------
\* The invariant is as strong as the properties.
LEMMA SignInInvImplies ==
    SignInOK => OneLinkPerMail /\ AccountsKept /\ SessionsKept
<1> SUFFICES ASSUME SignInOK PROVE OneLinkPerMail /\ AccountsKept /\ SessionsKept
  OBVIOUS
<1> USE DEF SignInOK, SignInInv
<1>1. OneAccountPerIdentity
  BY DEF AccountsInv, OneAccountPerIdentity
<1>2. SignInOpensOwnAccount
  BY DEF RequestsInv, Sound, SignInOpensOwnAccount, AtStep
<1>3. MailFindsOne
  BY DEF AccountsInv, IsUserTable, MailFindsOne
<1>4. CodesTypeOK
  BY DEF CodesInv, CodesTypeOK, IsCode
<1>5. IsUsers(rows) /\ IsUsers(cache)
  BY DEF AccountsInv, IsUserTable, IsUsers, IsUser, IsPassword, MailName
<1>6. \A c \in Client : req[c].uid \in 0 .. nextUid - 1
  BY DEF AccountsInv, RequestsInv, Sound, IsRequest
<1>7. UNION {refresh, devices, cacheDevices, issued, open} \subseteq Sessions
  BY DEF SessionsInv
<1>8. TypeOK
  BY <1>4, <1>5, <1>6, <1>7 DEF TypeOK, AccountsInv, SessionsInv, LinksInv, TokensInv
<1>9. RefreshEndsWithLogout
  BY DEF RefreshEndsWithLogout, SessionsInv, TokensInv, IsLive
<1> QED
  BY <1>1, <1>2, <1>3, <1>8, <1>9 DEF AccountsKept, SessionsKept, SessionsInv, AccountsInv, CodesInv

\* The least of a set of accounts is one of them.
LEMMA MinIsIn ==
    ASSUME NEW S \in SUBSET Nat, S # {}
    PROVE  Min(S) \in S
<1>1. PICK m \in S : \A x \in S : ~ (<<x, m>> \in OpToRel(<, Nat))
  BY NatLessThanWellFounded, WFMin
<1>2. \A x \in S : ~ (x < m)
  BY <1>1 DEF OpToRel
<1>3. \A x \in S : m =< x
  BY <1>2
<1> QED
  BY <1>3 DEF Min

-----------------------------------------------------------------------------
\* The codes.  A code that is put takes the place of the one its address had.
LEMMA AddLoginCodeInv ==
    ASSUME CodesInv, NEW k \in Code, NEW m \in Mail, AddLoginCode(k, m)
    PROVE  CodesInv'
<1> DEFINE last == IF m \in DOMAIN mailCode THEN {mailCode[m]} ELSE {}
           kept == Without(codes, last)
<1>1. codes' = Put(kept, k, CodeValue(m)) /\ mailCode' = Put(mailCode, m, k)
  BY DEF AddLoginCode
<1>2. /\ DOMAIN kept = DOMAIN codes \ last
      /\ \A x \in DOMAIN kept : kept[x] = codes[x]
  BY DEF Without
<1>3. /\ DOMAIN codes' = DOMAIN kept \cup {k} /\ codes' = [x \in DOMAIN codes' |-> codes'[x]]
      /\ codes'[k] = [mail |-> m, live |-> TRUE]
      /\ \A x \in DOMAIN kept \ {k} : codes'[x] = codes[x]
  BY <1>1, <1>2 DEF Put, CodeValue
<1>4. /\ DOMAIN mailCode' = DOMAIN mailCode \cup {m} /\ mailCode' = [x \in DOMAIN mailCode' |-> mailCode'[x]]
      /\ mailCode'[m] = k
      /\ \A x \in DOMAIN mailCode \ {m} : mailCode'[x] = mailCode[x]
  BY <1>1 DEF Put
<1>5. \A x \in DOMAIN codes' : IsCode(codes'[x])
  <2>1. IsCode(codes'[k])
    BY <1>3 DEF IsCode
  <2> QED
    BY <1>2, <1>3, <2>1 DEF CodesInv
<1>6. mailCode' \in [DOMAIN mailCode' -> Code]
  BY <1>4 DEF CodesInv
<1>7. OneLinkPerMail'
  <2> SUFFICES ASSUME NEW x \in DOMAIN codes', codes'[x].mail # NoMail
               PROVE  codes'[x].mail \in DOMAIN mailCode' /\ mailCode'[codes'[x].mail] = x
    BY DEF OneLinkPerMail
  <2>1. CASE x = k
    BY <1>3, <1>4, <2>1
  <2>2. CASE x # k
    <3>1. x \in DOMAIN codes /\ x \notin last /\ codes'[x] = codes[x]
      BY <1>2, <1>3, <2>2
    <3>2. codes[x].mail \in DOMAIN mailCode /\ mailCode[codes[x].mail] = x
      BY <3>1 DEF CodesInv, OneLinkPerMail
    <3>3. codes[x].mail # m
      BY <3>1, <3>2
    <3> QED
      BY <1>4, <3>1, <3>2, <3>3
  <2> QED
    BY <2>1, <2>2
<1> QED
  BY <1>2, <1>3, <1>4, <1>5, <1>6, <1>7 DEF CodesInv

\* An invitation has no address.
LEMMA AddInviteCodeInv ==
    ASSUME CodesInv, NEW k \in Code, NEW u \in BOOLEAN, AddInviteCode(k, u)
    PROVE  CodesInv'
<1>1. /\ codes' = Put(codes, k, [mail |-> NoMail, live |-> u])
      /\ mailCode' = mailCode
  BY DEF AddInviteCode, CodeValue
<1>2. /\ DOMAIN codes' = DOMAIN codes \cup {k} /\ codes' = [x \in DOMAIN codes' |-> codes'[x]]
      /\ codes'[k] = [mail |-> NoMail, live |-> u]
      /\ \A x \in DOMAIN codes \ {k} : codes'[x] = codes[x]
  BY <1>1 DEF Put
<1>3. \A x \in DOMAIN codes' : IsCode(codes'[x])
  <2>1. IsCode(codes'[k])
    BY <1>2 DEF IsCode
  <2> QED
    BY <1>2, <2>1 DEF CodesInv
<1> QED
  BY <1>1, <1>2, <1>3 DEF CodesInv, OneLinkPerMail

\* Codes that are forgotten.
LEMMA FewerCodesInv ==
    ASSUME CodesInv, NEW ks, codes' = Without(codes, ks), mailCode' = mailCode
    PROVE  CodesInv'
BY DEF Without, CodesInv, OneLinkPerMail

\* Checking a code.
LEMMA CheckCodeInv == ASSUME CodesInv, NEW k, CheckCode(k) PROVE CodesInv'
<1>1. CASE codes' = Without(codes, {k})
  BY <1>1, FewerCodesInv DEF CheckCode
<1>2. CASE codes' = codes
  BY <1>2 DEF CheckCode, CodesInv, OneLinkPerMail
<1> QED
  BY <1>1, <1>2 DEF CheckCode

\* A code expires.
LEMMA ExpireInv == ASSUME CodesInv, NEW k, Expire(k) PROVE CodesInv'
<1>1. /\ codes' = [codes EXCEPT ![k].live = FALSE] /\ mailCode' = mailCode
      /\ k \in DOMAIN codes
  BY DEF Expire, Live
<1>2. /\ DOMAIN codes' = DOMAIN codes
      /\ \A x \in DOMAIN codes : IsCode(codes'[x]) /\ codes'[x].mail = codes[x].mail
  BY <1>1 DEF CodesInv, IsCode
<1> QED
  BY <1>1, <1>2 DEF CodesInv, OneLinkPerMail

\* The task: with a code, the address that has it goes.
LEMMA CleanCodesInv == ASSUME CodesInv, CleanCodes PROVE CodesInv'
<1> DEFINE dead == {k \in DOMAIN codes : ~codes[k].live}
           gone == {codes[k].mail : k \in dead}
<1>1. codes' = Without(codes, dead) /\ mailCode' = Without(mailCode, gone)
  BY DEF CleanCodes
<1>2. /\ DOMAIN codes' = DOMAIN codes \ dead /\ DOMAIN mailCode' = DOMAIN mailCode \ gone
      /\ \A x \in DOMAIN codes' : codes'[x] = codes[x]
      /\ \A x \in DOMAIN mailCode' : mailCode'[x] = mailCode[x]
  BY <1>1 DEF Without
<1>3. /\ \A x \in DOMAIN codes' : IsCode(codes'[x])
      /\ mailCode' \in [DOMAIN mailCode' -> Code]
  BY <1>1 DEF Without, CodesInv
<1>4. OneLinkPerMail'
  <2> SUFFICES ASSUME NEW x \in DOMAIN codes', codes'[x].mail # NoMail
               PROVE  codes'[x].mail \in DOMAIN mailCode' /\ mailCode'[codes'[x].mail] = x
    BY DEF OneLinkPerMail
  <2>1. x \in DOMAIN codes \ dead /\ codes'[x] = codes[x]
    BY <1>2
  <2>2. codes[x].mail \in DOMAIN mailCode /\ mailCode[codes[x].mail] = x
    BY <2>1 DEF CodesInv, OneLinkPerMail
  <2>3. ASSUME NEW y \in dead, codes[y].mail = codes[x].mail PROVE FALSE
    BY <2>1, <2>2, <2>3 DEF CodesInv, OneLinkPerMail
  <2> QED
    BY <1>2, <2>1, <2>2, <2>3
<1> QED
  BY <1>2, <1>3, <1>4 DEF CodesInv
-----------------------------------------------------------------------------
\* How accounts change: no uid is used again, an account keeps its identities,
\* and no password is forgotten.
AccountsStay ==
    /\ nextUid' \in Nat /\ nextUid =< nextUid'
    /\ \A u \in DOMAIN rows' : u < nextUid => u \in DOMAIN rows /\ had[u] \subseteq had'[u]
    /\ \A i \in DOMAIN idents : idents[i] \in DOMAIN rows' => i \in DOMAIN idents' /\ idents'[i] = idents[i]

\* What a request has read stays as good.
LEMMA SoundStays ==
    ASSUME AccountsInv, AccountsStay, NEW r, Sound(r, DOMAIN rows, idents, nextUid, had)
    PROVE  Sound(r, DOMAIN rows', idents', nextUid', had')
<1>1. r.uid \in Nat /\ r.uid < nextUid /\ nextUid \in Nat
  BY DEF Sound, IsRequest, AccountsInv
<1>2. r.uid \in DOMAIN rows' => r.uid \in DOMAIN rows /\ had[r.uid] \subseteq had'[r.uid]
  BY <1>1 DEF AccountsStay
<1>3. r.uid < nextUid'
  BY <1>1 DEF AccountsStay
<1> QED
  BY <1>2, <1>3 DEF Sound, AccountsStay

\* A request goes on, and the others stay where they are.
LEMMA GoKeepsRequests ==
    ASSUME AccountsInv, RequestsInv, AccountsStay, NEW c \in Client, NEW r, Go(c, r),
           Sound(r, DOMAIN rows', idents', nextUid', had')
    PROVE  RequestsInv'
<1>1. DOMAIN req' = Client /\ req'[c] = r /\ \A b \in Client \ {c} : req'[b] = req[b]
  BY DEF Go, RequestsInv
<1>2. \A b \in Client \ {c} : Sound(req[b], DOMAIN rows', idents', nextUid', had')
  BY SoundStays DEF RequestsInv
<1> QED
  BY <1>1, <1>2 DEF RequestsInv

\* No request goes on.
LEMMA StillKeepsRequests ==
    ASSUME AccountsInv, RequestsInv, AccountsStay, req' = req
    PROVE  RequestsInv'
BY SoundStays DEF RequestsInv

\* The accounts rest.
LEMMA AccountsRest ==
    ASSUME AccountsInv, UNCHANGED accountVars
    PROVE  AccountsStay /\ AccountsInv'
BY DEF accountVars, AccountsInv, AccountsStay, CacheNotAhead

\* A handler commits, or is dropped at its commit.
LEMMA CutFacts ==
    ASSUME SessionsInv, cut' = cut \/ cut' = TRUE
    PROVE  cut' \in BOOLEAN /\ (~cut' => ~cut)
<1>1. CASE cut' = cut
  BY <1>1 DEF SessionsInv
<1>2. CASE cut' = TRUE
  BY <1>2
<1> QED
  BY <1>1, <1>2

\* The sessions rest, whether the handler was dropped or not.
LEMMA SessionsRest ==
    ASSUME AccountsInv, SessionsInv, AccountsStay, UNCHANGED sessionVars,
           cut' \in BOOLEAN, ~cut' => ~cut
    PROVE  SessionsInv'
BY DEF sessionVars, deviceVars, SessionsInv, DevicesAgree, Sessions, AccountsStay, AccountsInv

\* The links rest.
LEMMA LinksRest ==
    ASSUME AccountsInv, LinksInv, AccountsStay, UNCHANGED <<links, challenges>>
    PROVE  LinksInv'
<1>1. \A l \in links : l.uid \in Nat
  BY DEF LinksInv, LinkRow
<1> QED
  BY <1>1 DEF LinksInv, AccountsStay, AccountsInv

\* The codes rest.
LEMMA CodesRest == ASSUME CodesInv, UNCHANGED codeVars PROVE CodesInv'
BY DEF CodesInv, codeVars, OneLinkPerMail

\* A request that reads, and goes on with what it has read.
LEMMA ReadInv ==
    ASSUME SignInInv, UNCHANGED <<accountVars, sessionVars, cut>>,
           NEW c \in Client, NEW r, Go(c, r), Sound(r, DOMAIN rows, idents, nextUid, had),
           CodesInv', links' = links, challenges' \subseteq Identity
    PROVE  SignInInv'
<1>1. AccountsStay /\ AccountsInv'
  BY AccountsRest DEF SignInInv
<1>2. RequestsInv'
  BY <1>1, GoKeepsRequests DEF SignInInv, accountVars
<1>3. SessionsInv'
  BY <1>1, SessionsRest DEF SignInInv, SessionsInv
<1>4. LinksInv'
  BY <1>1 DEF LinksInv, SignInInv, accountVars
<1> QED
  BY <1>1, <1>2, <1>3, <1>4 DEF SignInInv

\* A request that has done what it can do.
LEMMA IdleIsSound ==
    ASSUME AccountsInv PROVE Sound(Idle, DOMAIN rows, idents, nextUid, had)
<1>1. IsRequest(Idle)
  BY DEF Idle, IsRequest, Fields, NoPassword, Legacy, IsPassword, NoUid
<1>2. Idle.pc = "idle" /\ Idle.uid = 0 /\ Idle.login = FALSE
  BY DEF Idle, NoUid
<1>3. 0 < nextUid
  BY DEF AccountsInv
<1> QED
  BY <1>1, <1>2, <1>3 DEF Sound

\* What a client that is done leaves behind: nothing.
LEMMA EndInv ==
    ASSUME SignInInv, UNCHANGED <<accountVars, sessionVars, linkVars, cut>>,
           NEW c \in Client, End(c)
    PROVE  SignInInv'
<1>1. CodesInv'
  BY CodesRest DEF SignInInv, linkVars
<1> QED
  BY <1>1, ReadInv, IdleIsSound DEF SignInInv, End, linkVars, LinksInv
-----------------------------------------------------------------------------
\* The steps that read.  With an identity: its account, or a search for one.
LEMMA SignInWithInv ==
    ASSUME SignInInv, NEW c \in Client, NEW i \in Identity, NEW d \in Device, SignInWith(c, i, d)
    PROVE  SignInInv'
<1> DEFINE r == [Idle EXCEPT !.id = i, !.dev = d]
           opened == [r EXCEPT !.pc = "login", !.uid = idents[i]]
           asked == [r EXCEPT !.pc = IF i.kind \in {"google", "github"} THEN "match" ELSE "create"]
<1>1. /\ Go(c, IF i \in DOMAIN idents THEN opened ELSE asked)
      /\ UNCHANGED <<accountVars, sessionVars, codeVars, links, cut>>
      /\ challenges' \subseteq challenges
  BY DEF SignInWith, Proves
<1>2. i \in DOMAIN idents => idents[i] \in Nat /\ idents[i] < nextUid
  BY DEF SignInInv, AccountsInv, IsUserTable
<1>3. /\ DOMAIN opened = Fields /\ opened.pc = "login" /\ opened.uid = idents[i] /\ opened.id = i
      /\ opened.dev = d /\ opened.mail = NoMail /\ opened.pw = NoPassword
  BY DEF Idle, Fields
<1>4. i \in DOMAIN idents => Sound(opened, DOMAIN rows, idents, nextUid, had)
  BY <1>2, <1>3 DEF Sound, IsRequest, IsPassword, NoPassword, Legacy
<1>5. /\ DOMAIN asked = Fields /\ asked.pc \in {"match", "create"} /\ asked.uid = 0 /\ asked.id = i
      /\ asked.dev = d /\ asked.mail = NoMail /\ asked.pw = NoPassword
  BY DEF Idle, Fields, NoUid
<1>6. Sound(asked, DOMAIN rows, idents, nextUid, had)
  BY <1>5 DEF Sound, IsRequest, IsPassword, NoPassword, Legacy, SignInInv, AccountsInv
<1>7. CodesInv' /\ challenges' \subseteq Identity
  BY <1>1, CodesRest DEF SignInInv, LinksInv
<1> QED
  BY <1>1, <1>4, <1>6, <1>7, ReadInv

\* The first account with the address of the identity.
LEMMA MatchMailInv == ASSUME SignInInv, NEW c \in Client, MatchMail(c) PROVE SignInInv'
<1> DEFINE same == SameMail(req[c].id)
           alone == [req[c] EXCEPT !.pc = "create"]
           found == [req[c] EXCEPT !.pc = "bind", !.uid = Min(same), !.login = TRUE]
<1>1. /\ req[c].pc = "match" /\ Go(c, IF same = {} THEN alone ELSE found)
      /\ UNCHANGED <<accountVars, sessionVars, linkVars, cut>>
  BY DEF MatchMail, AtStep
<1>2. IsRequest(req[c]) /\ req[c].dev \in Device /\ req[c].id \in Identity /\ req[c].uid < nextUid
  BY <1>1 DEF SignInInv, RequestsInv, Sound
<1>3. same # {} => Min(same) \in Nat /\ Min(same) < nextUid
  <2>1. same \subseteq 1 .. nextUid - 1 /\ nextUid \in Nat
    BY DEF SameMail, SignInInv, AccountsInv, IsUserTable
  <2>2. same \in SUBSET Nat
    BY <2>1
  <2>3. same # {} => Min(same) \in same
    BY <2>2, MinIsIn
  <2> QED
    BY <2>1, <2>3
<1>4. /\ DOMAIN alone = Fields /\ alone.pc = "create" /\ alone.uid = req[c].uid /\ alone.id = req[c].id
      /\ alone.dev = req[c].dev /\ alone.mail = req[c].mail /\ alone.pw = req[c].pw
  BY <1>2 DEF IsRequest, Fields
<1>5. Sound(alone, DOMAIN rows, idents, nextUid, had)
  BY <1>2, <1>4 DEF Sound, IsRequest
<1>6. /\ DOMAIN found = Fields /\ found.pc = "bind" /\ found.uid = Min(same) /\ found.id = req[c].id
      /\ found.dev = req[c].dev /\ found.mail = req[c].mail /\ found.pw = req[c].pw
  BY <1>2 DEF IsRequest, Fields
<1>7. same # {} => Sound(found, DOMAIN rows, idents, nextUid, had)
  BY <1>2, <1>3, <1>6 DEF Sound, IsRequest
<1>8. CodesInv' /\ links' = links /\ challenges' \subseteq Identity
  BY <1>1, CodesRest DEF SignInInv, LinksInv, linkVars
<1> QED
  BY <1>1, <1>5, <1>7, <1>8, ReadInv

\* A signed-in user who binds an identity.
LEMMA StartBindInv ==
    ASSUME SignInInv, NEW c \in Client, NEW s \in issued, NEW i \in Identity, StartBind(c, s, i)
    PROVE  SignInInv'
<1> DEFINE r == [Idle EXCEPT !.pc = "bind", !.id = i, !.uid = s[1]]
<1>1. /\ Go(c, Idle) \/ Go(c, r)
      /\ UNCHANGED <<accountVars, sessionVars, codeVars, links, cut>>
      /\ challenges' \subseteq challenges
  BY DEF StartBind, Proves
<1>2. s[1] \in Nat /\ s[1] < nextUid
  BY DEF SignInInv, SessionsInv, Sessions, AccountsInv
<1>3. /\ DOMAIN r = Fields /\ r.pc = "bind" /\ r.uid = s[1] /\ r.id = i /\ r.login = FALSE
      /\ r.mail = NoMail /\ r.pw = NoPassword
  BY DEF Idle, Fields
<1>4. Sound(r, DOMAIN rows, idents, nextUid, had)
  BY <1>2, <1>3 DEF Sound, IsRequest, IsPassword, NoPassword, Legacy
<1>5. Sound(Idle, DOMAIN rows, idents, nextUid, had)
  BY IdleIsSound DEF SignInInv
<1>6. CodesInv' /\ challenges' \subseteq Identity
  BY <1>1, CodesRest DEF SignInInv, LinksInv
<1> QED
  BY <1>1, <1>4, <1>5, <1>6, ReadInv

\* A request of a known form that touches no link.
LEMMA AskInv ==
    ASSUME SignInInv, NEW c \in Client, NEW r, Go(c, r),
           Sound(r, DOMAIN rows, idents, nextUid, had),
           UNCHANGED <<accountVars, sessionVars, linkVars, cut>>
    PROVE  SignInInv'
<1>1. CodesInv' /\ links' = links /\ challenges' \subseteq Identity
  BY CodesRest DEF SignInInv, LinksInv, linkVars
<1> QED
  BY <1>1, ReadInv

\* A new account: with an address and a password, or a guest.
LEMMA RegisterInv ==
    ASSUME SignInInv, NEW c \in Client, NEW m \in Mail, NEW s \in Secret, NEW d \in Device,
           Register(c, m, s, d)
    PROVE  SignInInv'
<1> DEFINE r == [Idle EXCEPT !.pc = "create", !.mail = m, !.pw = Argon(s), !.dev = d]
<1>1. Go(c, r) /\ UNCHANGED <<accountVars, sessionVars, linkVars, cut>>
  BY DEF Register
<1>2. /\ DOMAIN r = Fields /\ r.pc = "create" /\ r.uid = 0 /\ r.id = NoIdent /\ r.mail = m
      /\ r.pw = Argon(s) /\ r.dev = d
  BY DEF Idle, Fields, NoUid
<1>3. Sound(r, DOMAIN rows, idents, nextUid, had)
  BY <1>2 DEF Sound, IsRequest, IsPassword, Argon, SignInInv, AccountsInv
<1> QED
  BY <1>1, <1>3, AskInv

\* A guest has neither.
LEMMA LoginGuestInv ==
    ASSUME SignInInv, NEW c \in Client, NEW d \in Device, LoginGuest(c, d)
    PROVE  SignInInv'
<1> DEFINE r == [Idle EXCEPT !.pc = "create", !.dev = d]
<1>1. Go(c, r) /\ UNCHANGED <<accountVars, sessionVars, linkVars, cut>>
  BY DEF LoginGuest
<1>2. /\ DOMAIN r = Fields /\ r.pc = "create" /\ r.uid = 0 /\ r.id = NoIdent /\ r.mail = NoMail
      /\ r.pw = NoPassword /\ r.dev = d
  BY DEF Idle, Fields, NoUid
<1>3. Sound(r, DOMAIN rows, idents, nextUid, had)
  BY <1>2 DEF Sound, IsRequest, IsPassword, NoPassword, Legacy, SignInInv, AccountsInv
<1> QED
  BY <1>1, <1>3, AskInv

\* A password that is right, and to be stored as another hash or not.
LEMMA LoginPasswordInv ==
    ASSUME SignInInv, NEW c \in Client, NEW u \in Uid, NEW s \in Secret, NEW d \in Device,
           LoginPassword(c, u, s, d)
    PROVE  SignInInv'
<1> DEFINE r == [Idle EXCEPT !.uid = u, !.dev = d, !.login = TRUE]
           direct == [r EXCEPT !.pc = "login"]
           upgrade == [r EXCEPT !.pc = "write", !.pw = Argon(s)]
<1>1. /\ Go(c, direct) \/ Go(c, upgrade)
      /\ UNCHANGED <<accountVars, sessionVars, linkVars, cut>>
  BY DEF LoginPassword
<1>2. u \in DOMAIN cache
  BY DEF LoginPassword
<1>3. u \in Nat /\ u < nextUid
  BY <1>2 DEF SignInInv, AccountsInv, IsUserTable
<1>4. /\ DOMAIN direct = Fields /\ direct.pc = "login" /\ direct.uid = u /\ direct.id = NoIdent
      /\ direct.mail = NoMail /\ direct.pw = NoPassword /\ direct.dev = d
  BY DEF Idle, Fields
<1>5. /\ DOMAIN upgrade = Fields /\ upgrade.pc = "write" /\ upgrade.uid = u /\ upgrade.id = NoIdent
      /\ upgrade.mail = NoMail /\ upgrade.pw = Argon(s) /\ upgrade.dev = d
  BY DEF Idle, Fields
<1>6. Sound(direct, DOMAIN rows, idents, nextUid, had)
  BY <1>3, <1>4 DEF Sound, IsRequest, IsPassword, NoPassword, Legacy
<1>7. Sound(upgrade, DOMAIN rows, idents, nextUid, had)
  BY <1>3, <1>5 DEF Sound, IsRequest, IsPassword, Argon
<1> QED
  BY <1>1, <1>6, <1>7, AskInv

\* A password that is to be changed.
LEMMA ChangePasswordInv ==
    ASSUME SignInInv, NEW c \in Client, NEW u, NEW old \in Secret, NEW new \in Secret,
           ChangePassword(c, u, old, new)
    PROVE  SignInInv'
<1> DEFINE r == [Idle EXCEPT !.pc = "write", !.uid = u, !.pw = Argon(new)]
<1>1. u \in DOMAIN cache /\ Go(c, r) /\ UNCHANGED <<accountVars, sessionVars, linkVars, cut>>
  BY DEF ChangePassword
<1>2. u \in Nat /\ u < nextUid
  BY <1>1 DEF SignInInv, AccountsInv, IsUserTable
<1>3. /\ DOMAIN r = Fields /\ r.pc = "write" /\ r.uid = u /\ r.id = NoIdent /\ r.login = FALSE
      /\ r.mail = NoMail /\ r.pw = Argon(new)
  BY DEF Idle, Fields
<1>4. Sound(r, DOMAIN rows, idents, nextUid, had)
  BY <1>2, <1>3 DEF Sound, IsRequest, IsPassword, Argon
<1> QED
  BY <1>1, <1>4, AskInv

\* A refresh token that is to be replaced.
LEMMA RenewInv == ASSUME SignInInv, NEW c \in Client, NEW s \in issued, Renew(c, s) PROVE SignInInv'
<1> DEFINE r == [Idle EXCEPT !.pc = "renew", !.uid = s[1], !.dev = s[2], !.of = token[s]]
<1>1. Go(c, r) /\ UNCHANGED <<accountVars, sessionVars, linkVars, cut>>
  BY DEF Renew
<1>2. s[1] \in Nat /\ s[1] < nextUid
  BY DEF SignInInv, SessionsInv, Sessions, AccountsInv
<1>3. /\ DOMAIN r = Fields /\ r.pc = "renew" /\ r.uid = s[1] /\ r.id = NoIdent /\ r.login = FALSE
      /\ r.mail = NoMail /\ r.pw = NoPassword
  BY DEF Idle, Fields
<1>4. Sound(r, DOMAIN rows, idents, nextUid, had)
  BY <1>2, <1>3 DEF Sound, IsRequest, IsPassword, NoPassword, Legacy
<1> QED
  BY <1>1, <1>4, AskInv

\* A renewal stores its token.
LEMMA StoreRenewedInv == ASSUME SignInInv, NEW c \in Client, StoreRenewed(c) PROVE SignInInv'
<1>1. End(c) /\ UNCHANGED <<accountVars, deviceVars, linkVars, cut>>
  BY DEF StoreRenewed
<1>2. AccountsStay /\ AccountsInv'
  BY <1>1, AccountsRest DEF SignInInv
<1>3. RequestsInv'
  BY <1>1, <1>2, GoKeepsRequests, IdleIsSound DEF SignInInv, End, accountVars
<1>4. SessionsInv'
  BY <1>1 DEF SignInInv, SessionsInv, DevicesAgree, Sessions, accountVars, deviceVars
<1>5. CodesInv' /\ LinksInv'
  BY <1>1, <1>2, CodesRest, LinksRest DEF SignInInv, linkVars
<1> QED
  BY <1>2, <1>3, <1>4, <1>5 DEF SignInInv

\* A link whose code is good, so far.
LEMMA LoginLinkInv ==
    ASSUME SignInInv, NEW c \in Client, NEW l \in links, NEW named \in BOOLEAN, NEW d \in Device,
           LoginLink(c, l, named, d)
    PROVE  SignInInv'
<1> DEFINE r == [Idle EXCEPT !.pc = "recheck", !.uid = l.uid, !.mail = l.mail,
                             !.dev = d, !.code = l.code, !.login = named]
<1>1. /\ Go(c, r) \/ Go(c, Idle)
      /\ CheckCode(l.code)
      /\ UNCHANGED <<accountVars, sessionVars, links, challenges, cut>>
  BY DEF LoginLink
<1>2. l.uid \in Nat /\ l.uid < nextUid /\ l.mail \in Mail
  BY DEF SignInInv, LinksInv, LinkRow
<1>3. /\ DOMAIN r = Fields /\ r.pc = "recheck" /\ r.uid = l.uid /\ r.id = NoIdent
      /\ r.mail = l.mail /\ r.pw = NoPassword /\ r.dev = d
  BY DEF Idle, Fields
<1>4. Sound(r, DOMAIN rows, idents, nextUid, had)
  BY <1>2, <1>3 DEF Sound, IsRequest, IsPassword, NoPassword, Legacy
<1>5. Sound(Idle, DOMAIN rows, idents, nextUid, had)
  BY IdleIsSound DEF SignInInv
<1>6. CodesInv' /\ challenges' \subseteq Identity
  BY <1>1, CheckCodeInv DEF SignInInv, LinksInv
<1> QED
  BY <1>1, <1>4, <1>5, <1>6, ReadInv

\* The code is checked again.
LEMMA RecheckLinkInv == ASSUME SignInInv, NEW c \in Client, RecheckLink(c) PROVE SignInInv'
<1> DEFINE r == [req[c] EXCEPT !.login = FALSE, !.code = NoCode]
           opened == [r EXCEPT !.pc = "login", !.mail = NoMail]
           fresh == [r EXCEPT !.pc = "create"]
<1>1. /\ req[c].pc = "recheck"
      /\ Go(c, opened) \/ Go(c, fresh) \/ Go(c, Idle)
      /\ CheckCode(req[c].code)
      /\ UNCHANGED <<accountVars, sessionVars, links, challenges, cut>>
  BY DEF RecheckLink, AtStep
<1>2. /\ IsRequest(req[c]) /\ req[c].uid < nextUid /\ req[c].dev \in Device
      /\ req[c].id = NoIdent
  BY <1>1 DEF SignInInv, RequestsInv, Sound
<1>3. /\ DOMAIN opened = Fields /\ opened.pc = "login" /\ opened.uid = req[c].uid
      /\ opened.id = NoIdent /\ opened.mail = NoMail /\ opened.pw = req[c].pw
      /\ opened.dev = req[c].dev
  BY <1>2 DEF IsRequest, Fields
<1>4. /\ DOMAIN fresh = Fields /\ fresh.pc = "create" /\ fresh.uid = req[c].uid
      /\ fresh.id = NoIdent /\ fresh.mail = req[c].mail /\ fresh.pw = req[c].pw
      /\ fresh.dev = req[c].dev
  BY <1>2 DEF IsRequest, Fields
<1>5. Sound(opened, DOMAIN rows, idents, nextUid, had)
  BY <1>2, <1>3 DEF Sound, IsRequest
<1>6. Sound(fresh, DOMAIN rows, idents, nextUid, had)
  BY <1>2, <1>4 DEF Sound, IsRequest
<1>7. Sound(Idle, DOMAIN rows, idents, nextUid, had)
  BY IdleIsSound DEF SignInInv
<1>8. CodesInv' /\ challenges' \subseteq Identity
  BY <1>1, CheckCodeInv DEF SignInInv, LinksInv
<1> QED
  BY <1>1, <1>5, <1>6, <1>7, <1>8, ReadInv

-----------------------------------------------------------------------------
\* The steps that write.  What they leave alone rests.
LEMMA WriteKeeps ==
    ASSUME SignInInv, AccountsStay, AccountsInv', RequestsInv', SessionsInv',
           UNCHANGED linkVars
    PROVE  SignInInv'
<1>1. CodesInv'
  BY CodesRest DEF SignInInv, linkVars
<1>2. LinksInv'
  BY LinksRest DEF SignInInv, linkVars
<1> QED
  BY <1>1, <1>2 DEF SignInInv

\* An identity is bound to an account: no other account loses it.
LEMMA BindInv == ASSUME SignInInv, NEW c \in Client, Bind(c) PROVE SignInInv'
<1> DEFINE i == req[c].id
           u == req[c].uid
           bound == [req[c] EXCEPT !.pc = "login"]
<1>1. /\ req[c].pc = "bind" /\ u \in DOMAIN rows /\ i \notin DOMAIN idents
      /\ idents' = Put(idents, i, u)
      /\ Go(c, IF req[c].login THEN bound ELSE Idle)
      /\ UNCHANGED <<rows, cache, nextUid, madeFor, had, sessionVars, linkVars, cut>>
  BY DEF Bind, AtStep, CanBind, AfterBind
<1>2. IsRequest(req[c]) /\ u < nextUid /\ i \in Identity /\ (req[c].login => req[c].dev \in Device)
  BY <1>1 DEF SignInInv, RequestsInv, Sound
<1>3. /\ DOMAIN idents' = DOMAIN idents \cup {i}
      /\ idents' = [x \in DOMAIN idents' |-> idents'[x]]
      /\ idents'[i] = u
      /\ \A x \in DOMAIN idents : idents'[x] = idents[x]
  BY <1>1 DEF Put
<1>4. AccountsStay
  BY <1>1, <1>3 DEF AccountsStay, SignInInv, AccountsInv
<1>5. AccountsInv'
  <2>1. idents' \in [DOMAIN idents' -> DOMAIN rows'] /\ DOMAIN idents' \subseteq Identity
    BY <1>1, <1>2, <1>3 DEF SignInInv, AccountsInv
  <2>2. \A x \in DOMAIN rows : madeFor[x] # NoIdent =>
           madeFor[x] \in DOMAIN idents' /\ idents'[madeFor[x]] = x
    BY <1>3 DEF SignInInv, AccountsInv
  <2> QED
    BY <1>1, <2>1, <2>2 DEF SignInInv, AccountsInv, CacheNotAhead
<1>6. Sound(bound, DOMAIN rows', idents', nextUid', had') \/ ~req[c].login
  <2>1. /\ DOMAIN bound = Fields /\ bound.pc = "login" /\ bound.uid = u /\ bound.id = i
        /\ bound.dev = req[c].dev /\ bound.mail = req[c].mail /\ bound.pw = req[c].pw
    BY <1>2 DEF IsRequest, Fields
  <2> QED
    BY <1>1, <1>2, <1>3, <2>1 DEF Sound, IsRequest
<1>7. Sound(Idle, DOMAIN rows', idents', nextUid', had')
  BY <1>4, IdleIsSound, SoundStays DEF SignInInv
<1>8. RequestsInv'
  BY <1>1, <1>4, <1>6, <1>7, GoKeepsRequests DEF SignInInv
<1>9. SessionsInv'
  BY <1>1, <1>4, SessionsRest DEF SignInInv, SessionsInv
<1> QED
  BY <1>1, <1>4, <1>5, <1>8, <1>9, WriteKeeps

\* A password is replaced in the row of its account, if it has one.
LEMMA WriteRowInv == ASSUME SignInInv, NEW c \in Client, WriteRow(c) PROVE SignInInv'
<1> DEFINE u == req[c].uid
           p == req[c].pw
           written == [req[c] EXCEPT !.pc = "publish"]
<1>1. /\ req[c].pc = "write"
      /\ rows' = WithPassword(rows, u, p) /\ HadPassword(u, p)
      /\ Go(c, written) \/ Go(c, Idle)
      /\ cut' = cut \/ cut' = TRUE
      /\ UNCHANGED <<idents, cache, nextUid, madeFor, sessionVars, linkVars>>
  BY DEF WriteRow, AtStep, Committed, End
<1>2. /\ IsRequest(req[c]) /\ u < nextUid /\ req[c].id = NoIdent
      /\ (req[c].login => req[c].dev \in Device)
  BY <1>1 DEF SignInInv, RequestsInv, Sound
<1>3. /\ DOMAIN rows' = DOMAIN rows /\ DOMAIN had' = DOMAIN had
      /\ \A x \in DOMAIN rows :
            /\ IsUser(rows'[x]) /\ rows'[x].mail = rows[x].mail
            /\ x = u => rows'[x].pw = p /\ had'[x] = had[x] \cup {p}
            /\ x # u => rows'[x].pw = rows[x].pw /\ had'[x] = had[x]
  BY <1>1, <1>2 DEF WithPassword, HadPassword, IsRequest, SignInInv, AccountsInv, IsUserTable, IsUser
<1>4. AccountsStay
  BY <1>1, <1>3 DEF AccountsStay, SignInInv, AccountsInv
<1>5. AccountsInv'
  <2>1. IsUserTable(rows', nextUid')
    BY <1>1, <1>3 DEF SignInInv, AccountsInv, IsUserTable
  <2>2. CacheNotAhead'
    BY <1>1, <1>3 DEF SignInInv, AccountsInv, CacheNotAhead
  <2> QED
    BY <1>1, <1>3, <2>1, <2>2 DEF SignInInv, AccountsInv
<1>6. Sound(written, DOMAIN rows', idents', nextUid', had')
  <2>1. /\ DOMAIN written = Fields /\ written.pc = "publish" /\ written.uid = u
        /\ written.id = NoIdent /\ written.dev = req[c].dev /\ written.mail = req[c].mail
        /\ written.pw = p /\ written.login = req[c].login
    BY <1>2 DEF IsRequest, Fields
  <2> QED
    BY <1>1, <1>2, <1>3, <2>1 DEF Sound, IsRequest
<1>7. Sound(Idle, DOMAIN rows', idents', nextUid', had')
  BY <1>4, IdleIsSound, SoundStays DEF SignInInv
<1>8. RequestsInv'
  BY <1>1, <1>4, <1>6, <1>7, GoKeepsRequests DEF SignInInv
<1>9. SessionsInv'
  BY <1>1, <1>4, SessionsRest, CutFacts DEF SignInInv
<1> QED
  BY <1>1, <1>4, <1>5, <1>8, <1>9, WriteKeeps

\* What was written is published in the cache.
LEMMA PublishPasswordInv == ASSUME SignInInv, NEW c \in Client, PublishPassword(c) PROVE SignInInv'
<1> DEFINE u == req[c].uid
           p == req[c].pw
           published == [req[c] EXCEPT !.pc = "login"]
<1>1. /\ req[c].pc = "publish"
      /\ cache' = WithPassword(cache, u, p)
      /\ Go(c, IF req[c].login THEN published ELSE Idle)
      /\ UNCHANGED <<rows, idents, nextUid, madeFor, had, sessionVars, linkVars, cut>>
  BY DEF PublishPassword, AtStep
<1>2. /\ IsRequest(req[c]) /\ u < nextUid /\ req[c].id = NoIdent
      /\ (req[c].login => req[c].dev \in Device)
      /\ u \in DOMAIN rows => p \in had[u]
  BY <1>1 DEF SignInInv, RequestsInv, Sound
<1>3. /\ DOMAIN cache' = DOMAIN cache
      /\ \A x \in DOMAIN cache :
            /\ IsUser(cache'[x]) /\ cache'[x].mail = cache[x].mail
            /\ cache'[x].pw = IF x = u THEN p ELSE cache[x].pw
  BY <1>1, <1>2 DEF WithPassword, IsRequest, SignInInv, AccountsInv, IsUserTable, IsUser
<1>4. AccountsStay
  BY <1>1 DEF AccountsStay, SignInInv, AccountsInv
<1>5. AccountsInv'
  <2>1. IsUserTable(cache', nextUid')
    BY <1>1, <1>3 DEF SignInInv, AccountsInv, IsUserTable
  <2>2. CacheNotAhead'
    BY <1>1, <1>2, <1>3 DEF SignInInv, AccountsInv, CacheNotAhead
  <2> QED
    BY <1>1, <2>1, <2>2 DEF SignInInv, AccountsInv
<1>6. Sound(published, DOMAIN rows', idents', nextUid', had') \/ ~req[c].login
  <2>1. /\ DOMAIN published = Fields /\ published.pc = "login" /\ published.uid = u
        /\ published.id = NoIdent /\ published.dev = req[c].dev /\ published.mail = req[c].mail
        /\ published.pw = p
    BY <1>2 DEF IsRequest, Fields
  <2> QED
    BY <1>1, <1>2, <2>1 DEF Sound, IsRequest
<1>7. Sound(Idle, DOMAIN rows', idents', nextUid', had')
  BY <1>4, IdleIsSound, SoundStays DEF SignInInv
<1>8. RequestsInv'
  BY <1>1, <1>4, <1>6, <1>7, GoKeepsRequests DEF SignInInv
<1>9. SessionsInv'
  BY <1>1, <1>4, SessionsRest DEF SignInInv, SessionsInv
<1> QED
  BY <1>1, <1>4, <1>5, <1>8, <1>9, WriteKeeps
\* What an account is made of, for the request r.
LEMMA NewAccountFacts ==
    ASSUME AccountsInv, NEW r, IsRequest(r), CanCreate(r), NewAccount(r, cache')
    PROVE  /\ nextUid' = nextUid + 1 /\ nextUid' \in 1 .. MaxUid + 1
           /\ AccountMail(r) \in MailName
           /\ IsUserTable(rows', nextUid') /\ DOMAIN rows' = DOMAIN rows \cup {nextUid}
           /\ rows'[nextUid].pw = r.pw
           /\ \A u \in DOMAIN rows : rows'[u] = rows[u]
           /\ idents' \in [DOMAIN idents' -> DOMAIN rows'] /\ DOMAIN idents' \subseteq Identity
           /\ \A i \in DOMAIN idents : i \in DOMAIN idents' /\ idents'[i] = idents[i]
           /\ r.id # NoIdent => r.id \in DOMAIN idents' /\ idents'[r.id] = nextUid
           /\ DOMAIN madeFor' = 1 .. nextUid' - 1 /\ DOMAIN had' = 1 .. nextUid' - 1
           /\ madeFor'[nextUid] = r.id /\ had'[nextUid] = {r.pw}
           /\ \A u \in 1 .. nextUid - 1 : madeFor'[u] = madeFor[u] /\ had'[u] = had[u]
<1> DEFINE user == [mail |-> AccountMail(r), pw |-> r.pw, frozen |-> FALSE]
<1>1. /\ nextUid' = nextUid + 1 /\ nextUid \in Nat \ {0} /\ nextUid =< MaxUid
      /\ rows' = Put(rows, nextUid, user)
      /\ idents' = IF r.id = NoIdent THEN idents ELSE Put(idents, r.id, nextUid)
      /\ madeFor' = Put(madeFor, nextUid, r.id) /\ had' = Put(had, nextUid, {r.pw})
  BY DEF NewAccount, User, AccountsInv
<1>2. nextUid' \in 1 .. MaxUid + 1
  BY <1>1, BoundAssumption
<1>3. AccountMail(r) \in MailName
  BY IdentityAssumption DEF AccountMail, MailName, IsRequest, NoIdent
<1>4. IsUser(user) /\ user.mail = AccountMail(r) /\ user.pw = r.pw
  BY <1>3 DEF IsUser, IsRequest
<1>5. /\ DOMAIN rows' = DOMAIN rows \cup {nextUid} /\ nextUid \notin DOMAIN rows
      /\ rows'[nextUid] = user
      /\ \A u \in DOMAIN rows : rows'[u] = rows[u]
  BY <1>1 DEF Put, AccountsInv, IsUserTable
<1>6. IsUserTable(rows', nextUid')
  <2>1. \A u \in DOMAIN rows' : IsUser(rows'[u])
    BY <1>4, <1>5 DEF AccountsInv, IsUserTable
  <2>2. DOMAIN rows' \subseteq 1 .. nextUid' - 1
    BY <1>1, <1>5 DEF AccountsInv, IsUserTable
  <2>3. \A u \in DOMAIN rows : AccountMail(r) # NoMail => rows[u].mail # AccountMail(r)
    BY DEF CanCreate, MailTaken
  <2>4. \A u, v \in DOMAIN rows' :
           u # v /\ rows'[u].mail # NoMail => rows'[u].mail # rows'[v].mail
    BY <1>4, <1>5, <2>3 DEF AccountsInv, IsUserTable
  <2> QED
    BY <2>1, <2>2, <2>4 DEF IsUserTable
<1>7. /\ idents' \in [DOMAIN idents' -> DOMAIN rows'] /\ DOMAIN idents' \subseteq Identity
      /\ \A i \in DOMAIN idents : i \in DOMAIN idents' /\ idents'[i] = idents[i]
      /\ r.id # NoIdent => r.id \in DOMAIN idents' /\ idents'[r.id] = nextUid
  <2>1. CASE r.id = NoIdent
    BY <1>1, <1>5, <2>1 DEF AccountsInv
  <2>2. CASE r.id # NoIdent
    <3>1. idents' = Put(idents, r.id, nextUid) /\ r.id \in Identity /\ r.id \notin DOMAIN idents
      BY <1>1, <2>2 DEF CanCreate, IsRequest
    <3> QED
      BY <1>5, <2>2, <3>1 DEF Put, AccountsInv
  <2> QED
    BY <2>1, <2>2
<1>8. /\ DOMAIN madeFor' = 1 .. nextUid' - 1 /\ DOMAIN had' = 1 .. nextUid' - 1
      /\ madeFor'[nextUid] = r.id /\ had'[nextUid] = {r.pw}
      /\ \A u \in 1 .. nextUid - 1 : madeFor'[u] = madeFor[u] /\ had'[u] = had[u]
  BY <1>1 DEF Put, AccountsInv
<1> QED
  BY <1>1, <1>2, <1>3, <1>4, <1>5, <1>6, <1>7, <1>8
\* The cache with the new account.
LEMMA NewUsersFacts ==
    ASSUME AccountsInv, NEW r, IsRequest(r), CanCreate(r), AccountMail(r) \in MailName,
           nextUid' = nextUid + 1, cache' = NewUsers(r)
    PROVE  /\ IsUserTable(cache', nextUid')
           /\ DOMAIN cache' = DOMAIN cache \cup {nextUid}
           /\ cache'[nextUid].pw = r.pw
           /\ \A u \in DOMAIN cache : cache'[u] = cache[u]
<1> DEFINE user == [mail |-> AccountMail(r), pw |-> r.pw, frozen |-> FALSE]
<1>1. cache' = Put(cache, nextUid, user) /\ nextUid \in Nat \ {0}
  BY DEF NewUsers, User, AccountsInv
<1>2. IsUser(user) /\ user.mail = AccountMail(r) /\ user.pw = r.pw
  BY DEF IsUser, IsRequest
<1>3. /\ DOMAIN cache' = DOMAIN cache \cup {nextUid} /\ nextUid \notin DOMAIN cache
      /\ cache'[nextUid] = user
      /\ \A u \in DOMAIN cache : cache'[u] = cache[u]
  BY <1>1 DEF Put, AccountsInv, IsUserTable
<1>4. \A u \in DOMAIN cache' : IsUser(cache'[u])
  BY <1>2, <1>3 DEF AccountsInv, IsUserTable
<1>5. DOMAIN cache' \subseteq 1 .. nextUid' - 1
  BY <1>1, <1>3 DEF AccountsInv, IsUserTable
<1>6. \A u \in DOMAIN cache : AccountMail(r) # NoMail => cache[u].mail # AccountMail(r)
  BY DEF CanCreate, MailTaken
<1>7. \A u, v \in DOMAIN cache' :
         u # v /\ cache'[u].mail # NoMail => cache'[u].mail # cache'[v].mail
  BY <1>2, <1>3, <1>6 DEF AccountsInv, IsUserTable
<1> QED
  BY <1>2, <1>3, <1>4, <1>5, <1>7 DEF IsUserTable

\* An account is made: in the rows and, if the handler is not dropped, in the
\* cache.
LEMMA CreateUserInv == ASSUME SignInInv, NEW c \in Client, CreateUser(c) PROVE SignInInv'
<1> DEFINE r == req[c]
           made == [r EXCEPT !.pc = "login", !.uid = nextUid]
<1>1. /\ r.pc = "create" /\ CanCreate(r)
      /\ \/ NewAccount(r, NewUsers(r)) /\ Go(c, made) /\ cut' = cut
         \/ NewAccount(r, cache) /\ Go(c, Idle) /\ cut' = TRUE
      /\ UNCHANGED <<sessionVars, linkVars>>
  BY DEF CreateUser, AtStep, Committed, End
<1>2. IsRequest(r) /\ r.dev \in Device
  BY <1>1 DEF SignInInv, RequestsInv, Sound
<1>3. NewAccount(r, cache') /\ (cache' = NewUsers(r) \/ cache' = cache)
  BY <1>1 DEF NewAccount
<1>4. /\ nextUid' = nextUid + 1 /\ nextUid' \in 1 .. MaxUid + 1
      /\ AccountMail(r) \in MailName
      /\ IsUserTable(rows', nextUid') /\ DOMAIN rows' = DOMAIN rows \cup {nextUid}
      /\ rows'[nextUid].pw = r.pw
      /\ \A u \in DOMAIN rows : rows'[u] = rows[u]
  BY <1>1, <1>2, <1>3, NewAccountFacts DEF SignInInv
<1>5. /\ idents' \in [DOMAIN idents' -> DOMAIN rows'] /\ DOMAIN idents' \subseteq Identity
      /\ \A i \in DOMAIN idents : i \in DOMAIN idents' /\ idents'[i] = idents[i]
      /\ r.id # NoIdent => r.id \in DOMAIN idents' /\ idents'[r.id] = nextUid
  BY <1>1, <1>2, <1>3, NewAccountFacts DEF SignInInv
<1>6. /\ DOMAIN madeFor' = 1 .. nextUid' - 1 /\ DOMAIN had' = 1 .. nextUid' - 1
      /\ madeFor'[nextUid] = r.id /\ had'[nextUid] = {r.pw}
      /\ \A u \in 1 .. nextUid - 1 : madeFor'[u] = madeFor[u] /\ had'[u] = had[u]
  BY <1>1, <1>2, <1>3, NewAccountFacts DEF SignInInv
<1>7. DOMAIN rows \subseteq 1 .. nextUid - 1 /\ nextUid \in Nat \ {0}
  BY DEF SignInInv, AccountsInv, IsUserTable
<1>8. AccountsStay
  BY <1>4, <1>5, <1>6, <1>7 DEF AccountsStay
<1>9. IsUserTable(cache', nextUid') /\ CacheNotAhead'
  <2>1. CASE cache' = NewUsers(r)
    <3>1. /\ IsUserTable(cache', nextUid')
          /\ DOMAIN cache' = DOMAIN cache \cup {nextUid}
          /\ cache'[nextUid].pw = r.pw
          /\ \A u \in DOMAIN cache : cache'[u] = cache[u]
      BY <1>1, <1>2, <1>4, <2>1, NewUsersFacts DEF SignInInv
    <3>2. ASSUME NEW u \in DOMAIN cache' \cap DOMAIN rows' PROVE cache'[u].pw \in had'[u]
      <4>1. CASE u = nextUid
        BY <1>6, <3>1, <4>1
      <4>2. CASE u # nextUid
        <5>1. u \in DOMAIN cache \cap DOMAIN rows
          BY <1>4, <3>1, <4>2
        <5> QED
          BY <1>6, <1>7, <3>1, <5>1 DEF SignInInv, AccountsInv, CacheNotAhead
      <4> QED
        BY <4>1, <4>2
    <3> QED
      BY <3>1, <3>2 DEF CacheNotAhead
  <2>2. CASE cache' = cache
    <3>1. IsUserTable(cache', nextUid') /\ DOMAIN cache \subseteq 1 .. nextUid - 1
      BY <1>4, <1>7, <2>2 DEF SignInInv, AccountsInv, IsUserTable
    <3>2. ASSUME NEW u \in DOMAIN cache' \cap DOMAIN rows' PROVE cache'[u].pw \in had'[u]
      <4>1. u \in DOMAIN cache \cap DOMAIN rows
        BY <1>4, <1>7, <2>2, <3>1
      <4> QED
        BY <1>6, <1>7, <2>2, <4>1 DEF SignInInv, AccountsInv, CacheNotAhead
    <3> QED
      BY <3>1, <3>2 DEF CacheNotAhead
  <2> QED
    BY <1>3, <2>1, <2>2
<1>10. AccountsInv'
  <2>1. ASSUME NEW u \in DOMAIN rows'
        PROVE  /\ madeFor'[u] # NoIdent =>
                     madeFor'[u] \in DOMAIN idents' /\ idents'[madeFor'[u]] = u
               /\ rows'[u].pw \in had'[u]
    <3>1. CASE u = nextUid
      BY <1>4, <1>5, <1>6, <3>1
    <3>2. CASE u # nextUid
      <4>1. u \in DOMAIN rows /\ u \in 1 .. nextUid - 1
        BY <1>4, <1>7, <3>2
      <4> QED
        BY <1>4, <1>5, <1>6, <4>1 DEF SignInInv, AccountsInv
    <3> QED
      BY <3>1, <3>2
  <2> QED
    BY <1>4, <1>5, <1>6, <1>9, <2>1 DEF AccountsInv
<1>11. Sound(made, DOMAIN rows', idents', nextUid', had')
  <2>1. /\ DOMAIN made = Fields /\ made.pc = "login" /\ made.uid = nextUid /\ made.id = r.id
        /\ made.dev = r.dev /\ made.mail = r.mail /\ made.pw = r.pw
    BY <1>2 DEF IsRequest, Fields
  <2> QED
    BY <1>2, <1>4, <1>5, <1>7, <2>1 DEF Sound, IsRequest
<1>12. Sound(Idle, DOMAIN rows', idents', nextUid', had')
  BY <1>8, IdleIsSound, SoundStays DEF SignInInv
<1>13. RequestsInv'
  BY <1>1, <1>8, <1>11, <1>12, GoKeepsRequests DEF SignInInv
<1>14. SessionsInv'
  BY <1>1, <1>8, SessionsRest, CutFacts DEF SignInInv
<1> QED
  BY <1>1, <1>8, <1>10, <1>13, <1>14, WriteKeeps

\* A login: the session is in the rows and, if the handler is not dropped, in the
\* cache.
LEMMA DoLoginInv == ASSUME SignInInv, NEW c \in Client, DoLogin(c) PROVE SignInInv'
<1> DEFINE s == <<req[c].uid, req[c].dev>>
<1>1. /\ req[c].pc = "login" /\ Go(c, Idle) /\ s[1] \in DOMAIN cache
      /\ refresh' = refresh \cup {s} /\ devices' = devices \cup {s} /\ open' = open \cup {s}
      /\ \/ cut' = cut /\ cacheDevices' = cacheDevices \cup {s} /\ issued' = issued \cup {s}
         \/ cut' = TRUE /\ cacheDevices' = cacheDevices /\ issued' = issued
      /\ UNCHANGED <<accountVars, linkVars>>
  BY DEF DoLogin, AtStep, End, MayLogin, NewSession, Committed
<1>2. s \in Sessions
  BY <1>1 DEF Sessions, SignInInv, AccountsInv, IsUserTable, RequestsInv, Sound
<1>3. AccountsStay /\ AccountsInv' /\ Sessions' = Sessions
  BY <1>1, AccountsRest DEF SignInInv, accountVars, Sessions
<1>4. Sound(Idle, DOMAIN rows', idents', nextUid', had')
  BY <1>3, IdleIsSound, SoundStays DEF SignInInv
<1>5. RequestsInv'
  BY <1>1, <1>3, <1>4, GoKeepsRequests DEF SignInInv
<1>6. SessionsInv'
  <2>1. /\ refresh' \subseteq Sessions /\ devices' \subseteq Sessions /\ cacheDevices' \subseteq Sessions
        /\ issued' \subseteq Sessions /\ open' \subseteq Sessions /\ refresh' \subseteq open'
    BY <1>1, <1>2 DEF SignInInv, SessionsInv
  <2>2. cut' \in BOOLEAN /\ (~cut' => ~cut)
    BY <1>1, CutFacts DEF SignInInv
  <2>3. ~cut' => cacheDevices' = devices'
    BY <1>1, <2>2 DEF SignInInv, SessionsInv, DevicesAgree
  <2> QED
    BY <1>3, <2>1, <2>2, <2>3 DEF SessionsInv, DevicesAgree
<1> QED
  BY <1>1, <1>3, <1>5, <1>6, WriteKeeps
-----------------------------------------------------------------------------
\* The steps of no request.  They change accounts, or sessions, or links.
LEMMA AccountStepInv ==
    ASSUME SignInInv, AccountsStay, AccountsInv', UNCHANGED <<sessionVars, linkVars, req>>,
           cut' = cut \/ cut' = TRUE
    PROVE  SignInInv'
<1>1. RequestsInv'
  BY StillKeepsRequests DEF SignInInv
<1>2. SessionsInv'
  BY SessionsRest, CutFacts DEF SignInInv
<1> QED
  BY <1>1, <1>2, WriteKeeps

\* An administrator changes a user: the same in the row and in the cache, or in
\* the row only.
LEMMA AdminUpdateInv ==
    ASSUME SignInInv, NEW u \in Uid, NEW newRows, NEW newCache,
           AdminUpdate(u, newRows, newCache),
           DOMAIN newRows = DOMAIN rows, DOMAIN newCache = DOMAIN cache,
           IsUserTable(newRows, nextUid), IsUserTable(newCache, nextUid),
           DOMAIN had' = DOMAIN had,
           \A x \in DOMAIN rows : newRows[x].pw \in had'[x] /\ had[x] \subseteq had'[x],
           \A x \in DOMAIN rows \cap DOMAIN cache : newCache[x].pw \in had'[x]
    PROVE  SignInInv'
<1>1. /\ rows' = newRows /\ (cache' = newCache \/ cache' = cache)
      /\ cut' = cut \/ cut' = TRUE
      /\ UNCHANGED <<idents, nextUid, madeFor, sessionVars, linkVars, req>>
  BY DEF AdminUpdate, Committed
<1>2. AccountsStay
  BY <1>1 DEF AccountsStay, SignInInv, AccountsInv
<1>3. CacheNotAhead'
  BY <1>1 DEF SignInInv, AccountsInv, CacheNotAhead
<1>4. AccountsInv'
  BY <1>1, <1>3 DEF SignInInv, AccountsInv
<1> QED
  BY <1>1, <1>2, <1>4, AccountStepInv

\* A password in a table.
LEMMA WithPasswordFacts ==
    ASSUME NEW users, NEW next, IsUserTable(users, next), NEW u, NEW p, IsPassword(p)
    PROVE  LET t == WithPassword(users, u, p) IN
           /\ IsUserTable(t, next)
           /\ DOMAIN t = DOMAIN users
           /\ \A x \in DOMAIN users :
                 /\ x = u => t[x].pw = p
                 /\ x # u => t[x].pw = users[x].pw
<1> DEFINE t == WithPassword(users, u, p)
<1>1. /\ DOMAIN t = DOMAIN users
      /\ \A x \in DOMAIN users :
            /\ IsUser(t[x]) /\ t[x].mail = users[x].mail
            /\ x = u => t[x].pw = p
            /\ x # u => t[x].pw = users[x].pw
  BY DEF WithPassword, IsUserTable, IsUser
<1> HIDE DEF t
<1>2. IsUserTable(t, next)
  BY <1>1 DEF IsUserTable
<1> QED
  BY <1>1, <1>2 DEF t

\* The password of a user.
LEMMA AdminSetPasswordInv ==
    ASSUME SignInInv, NEW u \in Uid, NEW s \in Secret, AdminSetPassword(u, s)
    PROVE  SignInInv'
<1> DEFINE p == Argon(s)
           newRows == WithPassword(rows, u, p)
           newCache == WithPassword(cache, u, p)
<1>1. AdminUpdate(u, newRows, newCache) /\ HadPassword(u, p)
  BY DEF AdminSetPassword
<1>2. IsUserTable(rows, nextUid) /\ IsUserTable(cache, nextUid) /\ IsPassword(p)
  BY DEF SignInInv, AccountsInv, IsPassword, Argon
<1>3. /\ IsUserTable(newRows, nextUid) /\ DOMAIN newRows = DOMAIN rows
      /\ \A x \in DOMAIN rows : (x = u => newRows[x].pw = p) /\ (x # u => newRows[x].pw = rows[x].pw)
  BY <1>2, WithPasswordFacts
<1>4. /\ IsUserTable(newCache, nextUid) /\ DOMAIN newCache = DOMAIN cache
      /\ \A x \in DOMAIN cache : (x = u => newCache[x].pw = p) /\ (x # u => newCache[x].pw = cache[x].pw)
  BY <1>2, WithPasswordFacts
<1>5. /\ DOMAIN had' = DOMAIN had
      /\ \A x \in DOMAIN rows : had[x] \subseteq had'[x] /\ (x = u => p \in had'[x])
  BY <1>1 DEF HadPassword, SignInInv, AccountsInv, IsUserTable
<1>6. \A x \in DOMAIN rows : newRows[x].pw \in had'[x]
  BY <1>3, <1>5 DEF SignInInv, AccountsInv
<1>7. \A x \in DOMAIN rows \cap DOMAIN cache : newCache[x].pw \in had'[x]
  BY <1>4, <1>5 DEF SignInInv, AccountsInv, CacheNotAhead
<1> HIDE DEF newRows, newCache
<1> QED
  BY <1>1, <1>3, <1>4, <1>5, <1>6, <1>7, AdminUpdateInv

\* An address that no other account of the table has.
LEMMA WithMailFacts ==
    ASSUME NEW users, NEW next, IsUserTable(users, next), NEW u, NEW m \in Mail,
           \A x \in DOMAIN users \ {u} : u \in DOMAIN users => users[x].mail # m
    PROVE  LET t == WithMail(users, u, m) IN
           /\ IsUserTable(t, next)
           /\ DOMAIN t = DOMAIN users
           /\ \A x \in DOMAIN users : t[x].pw = users[x].pw
<1> DEFINE t == WithMail(users, u, m)
<1>1. /\ DOMAIN t = DOMAIN users
      /\ \A x \in DOMAIN users :
            /\ DOMAIN t[x] = {"mail", "pw", "frozen"}
            /\ t[x].pw = users[x].pw /\ t[x].frozen = users[x].frozen
            /\ x = u => t[x].mail = m
            /\ x # u => t[x].mail = users[x].mail
  BY DEF WithMail, IsUserTable, IsUser
<1> HIDE DEF t
<1>2. \A x \in DOMAIN users : IsUser(t[x])
  BY <1>1 DEF IsUserTable, IsUser, MailName
<1>3. \A x, y \in DOMAIN users : x # y /\ t[x].mail # NoMail => t[x].mail # t[y].mail
  BY <1>1 DEF IsUserTable
<1>4. IsUserTable(t, next)
  BY <1>1, <1>2, <1>3 DEF IsUserTable
<1> QED
  BY <1>1, <1>4 DEF t

\* The address of a user.
LEMMA AdminSetMailInv ==
    ASSUME SignInInv, NEW u \in Uid, NEW m \in Mail, AdminSetMail(u, m)
    PROVE  SignInInv'
<1> DEFINE newRows == WithMail(rows, u, m)
           newCache == WithMail(cache, u, m)
<1>1. /\ AdminUpdate(u, newRows, newCache) /\ had' = had
      /\ \A x \in DOMAIN rows \ {u} : u \in DOMAIN rows => rows[x].mail # m
      /\ \A x \in DOMAIN cache \ {u} : u \in DOMAIN cache => cache[x].mail # m
  BY NoMailAssumption DEF AdminSetMail, MailTaken
<1>2. IsUserTable(rows, nextUid) /\ IsUserTable(cache, nextUid)
  BY DEF SignInInv, AccountsInv
<1>3. /\ IsUserTable(newRows, nextUid) /\ DOMAIN newRows = DOMAIN rows
      /\ \A x \in DOMAIN rows : newRows[x].pw = rows[x].pw
  BY <1>1, <1>2, WithMailFacts
<1>4. /\ IsUserTable(newCache, nextUid) /\ DOMAIN newCache = DOMAIN cache
      /\ \A x \in DOMAIN cache : newCache[x].pw = cache[x].pw
  BY <1>1, <1>2, WithMailFacts
<1>5. \A x \in DOMAIN rows : newRows[x].pw \in had'[x] /\ had[x] \subseteq had'[x]
  BY <1>1, <1>3 DEF SignInInv, AccountsInv
<1>6. \A x \in DOMAIN rows \cap DOMAIN cache : newCache[x].pw \in had'[x]
  BY <1>1, <1>4 DEF SignInInv, AccountsInv, CacheNotAhead
<1> HIDE DEF newRows, newCache
<1> QED
  BY <1>1, <1>3, <1>4, <1>5, <1>6, AdminUpdateInv

\* The status in a table.
LEMMA WithStatusFacts ==
    ASSUME NEW users, NEW next, IsUserTable(users, next), NEW u, NEW f \in BOOLEAN
    PROVE  LET t == WithStatus(users, u, f) IN
           /\ IsUserTable(t, next)
           /\ DOMAIN t = DOMAIN users
           /\ \A x \in DOMAIN users : t[x].pw = users[x].pw
<1> DEFINE t == WithStatus(users, u, f)
<1>1. /\ DOMAIN t = DOMAIN users
      /\ \A x \in DOMAIN users :
            /\ DOMAIN t[x] = {"mail", "pw", "frozen"}
            /\ t[x].pw = users[x].pw /\ t[x].mail = users[x].mail
            /\ x = u => t[x].frozen = f
            /\ x # u => t[x].frozen = users[x].frozen
  BY DEF WithStatus, IsUserTable, IsUser
<1> HIDE DEF t
<1>2. \A x \in DOMAIN users : IsUser(t[x])
  BY <1>1 DEF IsUserTable, IsUser
<1>3. IsUserTable(t, next)
  BY <1>1, <1>2 DEF IsUserTable
<1> QED
  BY <1>1, <1>3 DEF t

\* The status of a user.
LEMMA AdminSetStatusInv ==
    ASSUME SignInInv, NEW u \in Uid, NEW f \in BOOLEAN, AdminSetStatus(u, f)
    PROVE  SignInInv'
<1> DEFINE newRows == WithStatus(rows, u, f)
           newCache == WithStatus(cache, u, f)
<1>1. AdminUpdate(u, newRows, newCache) /\ had' = had
  BY DEF AdminSetStatus
<1>2. IsUserTable(rows, nextUid) /\ IsUserTable(cache, nextUid)
  BY DEF SignInInv, AccountsInv
<1>3. /\ IsUserTable(newRows, nextUid) /\ DOMAIN newRows = DOMAIN rows
      /\ \A x \in DOMAIN rows : newRows[x].pw = rows[x].pw
  BY <1>2, WithStatusFacts
<1>4. /\ IsUserTable(newCache, nextUid) /\ DOMAIN newCache = DOMAIN cache
      /\ \A x \in DOMAIN cache : newCache[x].pw = cache[x].pw
  BY <1>2, WithStatusFacts
<1>5. \A x \in DOMAIN rows : newRows[x].pw \in had'[x] /\ had[x] \subseteq had'[x]
  BY <1>1, <1>3 DEF SignInInv, AccountsInv
<1>6. \A x \in DOMAIN rows \cap DOMAIN cache : newCache[x].pw \in had'[x]
  BY <1>1, <1>4 DEF SignInInv, AccountsInv, CacheNotAhead
<1> HIDE DEF newRows, newCache
<1> QED
  BY <1>1, <1>3, <1>4, <1>5, <1>6, AdminUpdateInv
-----------------------------------------------------------------------------
\* Codes and links change, and nothing else.
LEMMA LinkStepInv ==
    ASSUME SignInInv, UNCHANGED <<accountVars, sessionVars, req, cut>>, CodesInv', LinksInv'
    PROVE  SignInInv'
<1>1. AccountsStay /\ AccountsInv'
  BY AccountsRest DEF SignInInv
<1>2. RequestsInv'
  BY <1>1, StillKeepsRequests DEF SignInInv
<1>3. SessionsInv'
  BY <1>1, SessionsRest DEF SignInInv, SessionsInv
<1> QED
  BY <1>1, <1>2, <1>3 DEF SignInInv

\* A link names an account that there is, or none.
LEMMA SendLoginLinkInv ==
    ASSUME SignInInv, NEW k \in Code, NEW m \in Mail, SendLoginLink(k, m)
    PROVE  SignInInv'
<1> DEFINE us == {u \in DOMAIN cache : cache[u].mail = m}
           l == [code |-> k, mail |-> m, uid |-> IF us = {} THEN NoUid ELSE Min(us)]
<1>1. /\ AddLoginCode(k, m) /\ links' = links \cup {l}
      /\ UNCHANGED <<accountVars, sessionVars, challenges, req, cut>>
  BY DEF SendLoginLink
<1>2. us \in SUBSET Nat /\ us \subseteq 1 .. nextUid - 1 /\ nextUid \in Nat \ {0}
  BY DEF SignInInv, AccountsInv, IsUserTable
<1>3. us # {} => Min(us) \in us
  BY <1>2, MinIsIn
<1>4. l.uid \in Nat /\ l.uid < nextUid
  BY <1>2, <1>3 DEF NoUid
<1>5. l \in LinkRow
  BY <1>4 DEF LinkRow
<1>6. CodesInv'
  BY <1>1, AddLoginCodeInv DEF SignInInv
<1>7. LinksInv'
  BY <1>1, <1>4, <1>5 DEF SignInInv, LinksInv, accountVars
<1> QED
  BY <1>1, <1>6, <1>7, LinkStepInv

\* A code expires: its links with it.
LEMMA ExpireCodeInv == ASSUME SignInInv, NEW k, ExpireCode(k) PROVE SignInInv'
<1>1. /\ Expire(k) /\ links' \subseteq links
      /\ UNCHANGED <<accountVars, sessionVars, challenges, req, cut>>
  BY DEF ExpireCode
<1>2. CodesInv'
  BY <1>1, ExpireInv DEF SignInInv
<1>3. LinksInv'
  BY <1>1 DEF SignInInv, LinksInv, accountVars
<1> QED
  BY <1>1, <1>2, <1>3, LinkStepInv

\* Steps that leave the links alone, if they keep the codes.
LEMMA CodeStepInv ==
    ASSUME SignInInv, CodesInv', UNCHANGED <<accountVars, sessionVars, links, challenges, req, cut>>
    PROVE  SignInInv'
<1>1. LinksInv'
  BY DEF SignInInv, LinksInv, accountVars
<1> QED
  BY <1>1, LinkStepInv

\* Invitations, and codes that are checked or forgotten.
LEMMA CodesStepInv ==
    ASSUME SignInInv,
           \/ \E k \in Code, usable \in BOOLEAN : SendInvite(k, usable)
           \/ \E k \in Code : UseInvite(k)
           \/ CleanMagicCodes
    PROVE  SignInInv'
<1>1. CodesInv' /\ UNCHANGED <<accountVars, sessionVars, links, challenges, req, cut>>
  BY AddInviteCodeInv, CheckCodeInv, CleanCodesInv DEF SendInvite, UseInvite, CleanMagicCodes, SignInInv
<1> QED
  BY <1>1, CodeStepInv

\* Challenges are set, and time out.
LEMMA ChallengeInv ==
    ASSUME SignInInv, NEW i \in Identity, Challenge(i) \/ AuthorizationTimesOut(i)
    PROVE  SignInInv'
<1>1. /\ UNCHANGED <<accountVars, sessionVars, codeVars, links, req, cut>>
      /\ challenges' \subseteq Identity
  BY DEF Challenge, AuthorizationTimesOut, SignInInv, LinksInv
<1>2. CodesInv'
  BY <1>1, CodesRest DEF SignInInv
<1>3. LinksInv'
  BY <1>1 DEF SignInInv, LinksInv, accountVars
<1> QED
  BY <1>1, <1>2, <1>3, LinkStepInv

-----------------------------------------------------------------------------
\* Sessions and devices change, and nothing else.
LEMMA SessionStepInv ==
    ASSUME SignInInv, UNCHANGED <<accountVars, linkVars, req, issued>>,
           refresh' \subseteq Sessions, devices' \subseteq Sessions, cacheDevices' \subseteq Sessions,
           open' \subseteq Sessions, refresh' \subseteq open',
           \/ cut' = cut /\ (cacheDevices = devices => cacheDevices' = devices')
           \/ cut' = TRUE
    PROVE  SignInInv'
<1>1. AccountsStay /\ AccountsInv' /\ Sessions' = Sessions
  BY AccountsRest DEF SignInInv, accountVars, Sessions
<1>2. RequestsInv'
  BY <1>1, StillKeepsRequests DEF SignInInv
<1>3. cut' \in BOOLEAN /\ (~cut' => ~cut)
  BY CutFacts DEF SignInInv
<1>4. ~cut' => cacheDevices' = devices'
  BY <1>3 DEF SignInInv, SessionsInv, DevicesAgree
<1>5. SessionsInv'
  BY <1>1, <1>3, <1>4 DEF SignInInv, SessionsInv, DevicesAgree
<1> QED
  BY <1>1, <1>2, <1>5, WriteKeeps

\* A logout ends the session.
LEMMA LogoutInv == ASSUME SignInInv, NEW s \in issued, Logout(s) PROVE SignInInv'
<1>1. /\ refresh' = refresh \ {s} /\ devices' = devices \ {s} /\ open' = open \ {s}
      /\ \/ cut' = cut /\ cacheDevices' = cacheDevices \ {s}
         \/ cut' = TRUE /\ cacheDevices' = cacheDevices
      /\ UNCHANGED <<accountVars, issued, linkVars, req>>
  BY DEF Logout, Committed
<1>2. /\ refresh' \subseteq Sessions /\ devices' \subseteq Sessions /\ cacheDevices' \subseteq Sessions
      /\ open' \subseteq Sessions /\ refresh' \subseteq open'
  BY <1>1 DEF SignInInv, SessionsInv
<1>3. \/ cut' = cut /\ (cacheDevices = devices => cacheDevices' = devices')
      \/ cut' = TRUE
  BY <1>1
<1> QED
  BY <1>1, <1>2, <1>3, SessionStepInv

\* A device is deleted: the session goes on.
LEMMA DeleteDeviceInv ==
    ASSUME SignInInv, NEW s \in issued, NEW d \in Device, DeleteDevice(s, d)
    PROVE  SignInInv'
<1> DEFINE x == <<s[1], d>>
<1>1. /\ devices' = devices \ {x} /\ refresh' = refresh /\ open' = open
      /\ \/ cut' = cut /\ cacheDevices' = cacheDevices \ {x}
         \/ cut' = TRUE /\ cacheDevices' = cacheDevices
      /\ UNCHANGED <<accountVars, issued, linkVars, req>>
  BY DEF DeleteDevice, Committed
<1>2. /\ refresh' \subseteq Sessions /\ devices' \subseteq Sessions /\ cacheDevices' \subseteq Sessions
      /\ open' \subseteq Sessions /\ refresh' \subseteq open'
  BY <1>1 DEF SignInInv, SessionsInv
<1>3. \/ cut' = cut /\ (cacheDevices = devices => cacheDevices' = devices')
      \/ cut' = TRUE
  BY <1>1
<1> QED
  BY <1>1, <1>2, <1>3, SessionStepInv

\* A push token makes the device that it names.
LEMMA UpdateFcmTokenInv ==
    ASSUME SignInInv, NEW s \in issued, NEW d \in Device, UpdateFcmToken(s, d)
    PROVE  SignInInv'
<1> DEFINE x == <<s[1], d>>
<1>1. /\ devices' = devices \cup {x} /\ refresh' = refresh /\ open' = open
      /\ \/ cut' = cut /\ cacheDevices' = cacheDevices \cup {x}
         \/ cut' = TRUE /\ cacheDevices' = cacheDevices
      /\ UNCHANGED <<accountVars, issued, linkVars, req>>
  BY DEF UpdateFcmToken, Committed
<1>2. x \in Sessions
  BY DEF SignInInv, SessionsInv, Sessions
<1>3. /\ refresh' \subseteq Sessions /\ devices' \subseteq Sessions /\ cacheDevices' \subseteq Sessions
      /\ open' \subseteq Sessions /\ refresh' \subseteq open'
  BY <1>1, <1>2 DEF SignInInv, SessionsInv
<1>4. \/ cut' = cut /\ (cacheDevices = devices => cacheDevices' = devices')
      \/ cut' = TRUE
  BY <1>1
<1> QED
  BY <1>1, <1>3, <1>4, SessionStepInv

-----------------------------------------------------------------------------
\* A table without one of its users.
LEMMA WithoutUser ==
    ASSUME NEW users, NEW next, IsUserTable(users, next), NEW u
    PROVE  LET t == Without(users, {u}) IN
           /\ IsUserTable(t, next)
           /\ DOMAIN t = DOMAIN users \ {u}
           /\ \A x \in DOMAIN users \ {u} : t[x] = users[x]
BY DEF Without, IsUserTable

\* A user is deleted, with the identities and the sessions.
LEMMA DeleteUserInv == ASSUME SignInInv, NEW u \in Uid, DeleteUser(u) PROVE SignInInv'
<1>1. /\ rows' = Without(rows, {u})
      /\ idents' = Without(idents, {i \in DOMAIN idents : idents[i] = u})
      /\ refresh' = NotOf(u, refresh) /\ devices' = NotOf(u, devices) /\ open' = NotOf(u, open)
      /\ \/ cut' = cut /\ cache' = Without(cache, {u}) /\ cacheDevices' = NotOf(u, cacheDevices)
         \/ cut' = TRUE /\ cache' = cache /\ cacheDevices' = cacheDevices
      /\ UNCHANGED <<nextUid, madeFor, had, issued, linkVars, req>>
  BY DEF DeleteUser, Committed
<1>2. IsUserTable(rows, nextUid) /\ IsUserTable(cache, nextUid)
  BY DEF SignInInv, AccountsInv
<1>3. /\ IsUserTable(rows', nextUid) /\ DOMAIN rows' = DOMAIN rows \ {u}
      /\ \A x \in DOMAIN rows \ {u} : rows'[x] = rows[x]
  BY <1>1, <1>2, WithoutUser, Zenon
<1>4. /\ IsUserTable(cache', nextUid) /\ DOMAIN cache' \subseteq DOMAIN cache
      /\ \A x \in DOMAIN cache' : cache'[x] = cache[x]
  <2>1. CASE cache' = cache
    BY <1>2, <2>1
  <2>2. CASE cache' = Without(cache, {u})
    <3>1. /\ IsUserTable(cache', nextUid) /\ DOMAIN cache' = DOMAIN cache \ {u}
          /\ \A x \in DOMAIN cache \ {u} : cache'[x] = cache[x]
      BY <1>2, <2>2, WithoutUser, Zenon
    <3> QED
      BY <3>1
  <2> QED
    BY <1>1, <2>1, <2>2
<1>5. /\ DOMAIN idents' = {i \in DOMAIN idents : idents[i] # u}
      /\ idents' = [i \in DOMAIN idents' |-> idents'[i]]
      /\ \A i \in DOMAIN idents' : idents'[i] = idents[i]
  BY <1>1 DEF Without
<1>6. AccountsStay
  <2>1. nextUid' \in Nat /\ nextUid =< nextUid' /\ had' = had
    BY <1>1 DEF SignInInv, AccountsInv
  <2>2. \A x \in DOMAIN rows' : x \in DOMAIN rows
    BY <1>3
  <2>3. \A i \in DOMAIN idents : idents[i] \in DOMAIN rows' => i \in DOMAIN idents' /\ idents'[i] = idents[i]
    BY <1>3, <1>5
  <2> QED
    BY <2>1, <2>2, <2>3 DEF AccountsStay
<1>7. AccountsInv'
  <2>1. idents' \in [DOMAIN idents' -> DOMAIN rows'] /\ DOMAIN idents' \subseteq Identity
    BY <1>3, <1>5 DEF SignInInv, AccountsInv
  <2>2. ASSUME NEW x \in DOMAIN rows'
        PROVE  /\ madeFor'[x] # NoIdent =>
                     madeFor'[x] \in DOMAIN idents' /\ idents'[madeFor'[x]] = x
               /\ rows'[x].pw \in had'[x]
    BY <1>1, <1>3, <1>5 DEF SignInInv, AccountsInv
  <2>3. CacheNotAhead'
    BY <1>1, <1>3, <1>4 DEF SignInInv, AccountsInv, CacheNotAhead
  <2> QED
    BY <1>1, <1>3, <1>4, <2>1, <2>2, <2>3 DEF SignInInv, AccountsInv
<1>8. RequestsInv'
  BY <1>1, <1>6, StillKeepsRequests DEF SignInInv
<1>9. SessionsInv'
  <2>1. Sessions' = Sessions
    BY <1>1 DEF Sessions
  <2>2. /\ refresh' \subseteq Sessions /\ devices' \subseteq Sessions /\ cacheDevices' \subseteq Sessions
        /\ issued' \subseteq Sessions /\ open' \subseteq Sessions /\ refresh' \subseteq open'
    BY <1>1 DEF NotOf, SignInInv, SessionsInv
  <2>3. cut' \in BOOLEAN /\ (~cut' => ~cut)
    BY <1>1, CutFacts DEF SignInInv
  <2>4. ~cut' => cacheDevices' = devices'
    BY <1>1, <2>3 DEF SignInInv, SessionsInv, DevicesAgree
  <2> QED
    BY <2>1, <2>2, <2>3, <2>4 DEF SessionsInv, DevicesAgree
<1> QED
  BY <1>1, <1>6, <1>7, <1>8, <1>9, WriteKeeps

\* A start takes the rows for the cache.
LEMMA RestartInv == ASSUME SignInInv, Restart PROVE SignInInv'
<1>1. /\ cache' = rows /\ cacheDevices' = devices /\ cut' = FALSE
      /\ codes' = [k \in {} |-> NoMail] /\ mailCode' = [m \in {} |-> NoMail]
      /\ req' = [c \in Client |-> Idle] /\ challenges' \subseteq challenges
      /\ UNCHANGED <<rows, idents, nextUid, madeFor, had, refresh, devices, issued, open, links>>
  BY DEF Restart
<1>2. CodesInv'
  BY <1>1 DEF CodesInv, OneLinkPerMail
<1>3. AccountsInv'
  BY <1>1 DEF SignInInv, AccountsInv, CacheNotAhead
<1>4. RequestsInv'
  <2>1. Sound(Idle, DOMAIN rows', idents', nextUid', had')
    BY <1>1, IdleIsSound DEF SignInInv
  <2>2. DOMAIN req' = Client /\ \A c \in Client : req'[c] = Idle
    BY <1>1
  <2> QED
    BY <2>1, <2>2 DEF RequestsInv
<1>5. SessionsInv'
  BY <1>1 DEF SignInInv, SessionsInv, DevicesAgree, Sessions
<1>6. LinksInv'
  BY <1>1 DEF SignInInv, LinksInv
<1> QED
  BY <1>2, <1>3, <1>4, <1>5, <1>6 DEF SignInInv
-----------------------------------------------------------------------------
\* The handlers that go on keep the invariant.
LEMMA ContinueInv == ASSUME SignInInv, Continue PROVE SignInInv'
<1> SUFFICES ASSUME NEW c \in Client,
                    \/ CreateUser(c) \/ CreateFails(c) \/ DoLogin(c) \/ LoginFails(c)
                    \/ MatchMail(c) \/ Bind(c) \/ BindFails(c)
                    \/ WriteRow(c) \/ PublishPassword(c) \/ RecheckLink(c) \/ StoreRenewed(c)
             PROVE  SignInInv'
  BY DEF Continue
<1>1. CASE CreateFails(c) \/ LoginFails(c) \/ BindFails(c)
  BY <1>1, EndInv DEF CreateFails, LoginFails, BindFails
<1> QED
  BY <1>1, StoreRenewedInv, CreateUserInv, DoLoginInv, MatchMailInv, BindInv, WriteRowInv,
     PublishPasswordInv, RecheckLinkInv

\* The calls of the API keep it.
LEMMA CallInv == ASSUME SignInInv, Call PROVE SignInInv'
<1>1. CASE \E c \in Client, d \in Device :
              \/ \E i \in Identity : SignInWith(c, i, d)
              \/ \E m \in Mail, s \in Secret : Register(c, m, s, d)
              \/ \E u \in Uid, s \in Secret : LoginPassword(c, u, s, d)
              \/ \E l \in links, named \in BOOLEAN : LoginLink(c, l, named, d)
              \/ LoginGuest(c, d)
  BY <1>1, SignInWithInv, RegisterInv, LoginPasswordInv, LoginLinkInv, LoginGuestInv
<1>2. CASE \E c \in Client, s \in issued :
              \/ \E i \in Identity : StartBind(c, s, i)
              \/ \E old, new \in Secret : ChangePassword(c, s[1], old, new)
              \/ Renew(c, s)
  BY <1>2, StartBindInv, ChangePasswordInv, RenewInv
<1>3. CASE \E s \in issued : Logout(s) \/ \E d \in Device : DeleteDevice(s, d) \/ UpdateFcmToken(s, d)
  BY <1>3, LogoutInv, DeleteDeviceInv, UpdateFcmTokenInv
<1>4. CASE \E u \in Uid :
              \/ \E s \in Secret : AdminSetPassword(u, s)
              \/ \E m \in Mail : AdminSetMail(u, m)
              \/ \E f \in BOOLEAN : AdminSetStatus(u, f)
              \/ DeleteUser(u)
  BY <1>4, AdminSetPasswordInv, AdminSetMailInv, AdminSetStatusInv, DeleteUserInv
<1>5. CASE \E k \in Code :
              \/ \E m \in Mail : SendLoginLink(k, m)
              \/ \E usable \in BOOLEAN : SendInvite(k, usable)
              \/ UseInvite(k)
  BY <1>5, SendLoginLinkInv, CodesStepInv
<1> QED
  BY <1>1, <1>2, <1>3, <1>4, <1>5 DEF Call

\* Every step of the program keeps the invariant.
LEMMA SignInNextInv == ASSUME SignInInv, [Next]_vars PROVE SignInInv'
<1>1. CASE Restart \/ CleanMagicCodes \/ \E k \in Code : ExpireCode(k)
  BY <1>1, RestartInv, CodesStepInv, ExpireCodeInv
<1>2. CASE \E i \in Identity : Challenge(i) \/ AuthorizationTimesOut(i)
  BY <1>2, ChallengeInv
<1>3. CASE UNCHANGED vars
  <2>1. UNCHANGED <<accountVars, sessionVars, codeVars, links, challenges, req, cut>>
    BY <1>3 DEF vars, linkVars
  <2>2. CodesInv'
    BY <2>1, CodesRest DEF SignInInv
  <2> QED
    BY <2>1, <2>2, CodeStepInv
<1> QED
  BY <1>1, <1>2, <1>3, ContinueInv, CallInv DEF Next

\* The account of an old installation.
LEMMA SignInInitInv == Init => SignInInv
<1> SUFFICES ASSUME NEW m \in Mail, NEW s \in Secret,
                    /\ rows = [u \in {1} |-> User(m, Legacy(s))]
                    /\ cache = rows
                    /\ idents = [i \in {} |-> NoUid]
                    /\ refresh = {} /\ devices = {} /\ cacheDevices = {} /\ issued = {} /\ open = {}
                    /\ nextUid = 2
                    /\ InitCodes
                    /\ links = {} /\ challenges = {}
                    /\ req = [c \in Client |-> Idle]
                    /\ madeFor = [u \in {1} |-> NoIdent]
                    /\ had = [u \in {1} |-> {Legacy(s)}]
                    /\ cut = FALSE
             PROVE  SignInInv
  BY DEF Init
<1>1. CodesInv
  BY DEF InitCodes, CodesInv, OneLinkPerMail
<1>2. DOMAIN rows = {1} /\ rows[1] = [mail |-> m, pw |-> Legacy(s), frozen |-> FALSE]
  BY DEF User
<1>3. IsUser(rows[1]) /\ rows[1].pw = Legacy(s)
  <2>1. IsPassword(Legacy(s))
    BY DEF IsPassword, Legacy
  <2>2. /\ DOMAIN rows[1] = {"mail", "pw", "frozen"} /\ rows[1].mail = m
        /\ rows[1].pw = Legacy(s) /\ rows[1].frozen = FALSE
    BY <1>2
  <2> QED
    BY <2>1, <2>2 DEF IsUser, MailName
<1>4. IsUserTable(rows, nextUid) /\ IsUserTable(cache, nextUid)
  BY <1>2, <1>3 DEF IsUserTable
<1>5. AccountsInv
  BY <1>2, <1>3, <1>4, BoundAssumption DEF AccountsInv, CacheNotAhead
<1>6. RequestsInv
  BY <1>5, IdleIsSound DEF RequestsInv
<1> QED
  BY <1>1, <1>5, <1>6 DEF SignInInv, SessionsInv, LinksInv, DevicesAgree

-----------------------------------------------------------------------------
\* The tokens.  A step that lets them rest may end sessions and renewals.
TokensRest ==
    /\ UNCHANGED tokenVars
    /\ refresh' \subseteq refresh
    /\ \A c \in Client : AtStep(c, "renew")' => req'[c] = req[c]

\* What was live stays live.
LEMMA TokensRestInv == ASSUME TokensInv, TokensRest PROVE TokensInv'
BY DEF TokensInv, TokensRest, tokenVars, IsLive, Session, AtStep

\* A request that goes on to something else than a renewal.
LEMMA GoRests ==
    ASSUME RequestsInv, NEW c \in Client, NEW r, Go(c, r), r.pc # "renew",
           UNCHANGED tokenVars, refresh' \subseteq refresh
    PROVE  TokensRest
BY DEF RequestsInv, Go, TokensRest, AtStep

\* The sessions are among all pairs.
LEMMA SessionsArePairs ==
    ASSUME SignInInv PROVE Sessions \subseteq Uid \X Device
<1>1. nextUid \in 1 .. MaxUid + 1 /\ MaxUid \in Nat
  BY BoundAssumption DEF SignInInv, AccountsInv
<1>2. 1 .. nextUid - 1 \subseteq 1 .. MaxUid
  BY <1>1
<1> QED
  BY <1>2 DEF Sessions, Uid

\* A renewal reads a token, which is live.
LEMMA RenewTokens ==
    ASSUME SignInOK, NEW c \in Client, NEW s \in issued, Renew(c, s)
    PROVE  TokensInv'
<1> DEFINE r == [Idle EXCEPT !.pc = "renew", !.uid = s[1], !.dev = s[2], !.of = token[s]]
<1>1. /\ Go(c, r) /\ s \in refresh /\ token[s] # Lost
      /\ UNCHANGED <<token, logins, overtaken, refresh>>
  BY DEF Renew, sessionVars, deviceVars, tokenVars
<1>2. s \in Uid \X Device /\ s = <<s[1], s[2]>>
  <2>1. s \in Sessions
    BY <1>1 DEF SignInOK, SignInInv, SessionsInv
  <2> QED
    BY <2>1, SessionsArePairs DEF SignInOK
<1>3. r.uid = s[1] /\ r.dev = s[2] /\ r.of = token[s]
  BY DEF Idle
<1>4. Session(r) = s /\ token[s] \in Nat /\ IsLive(s, token[s])
  BY <1>1, <1>2, <1>3 DEF Session, SignInOK, TokensInv
<1>5. req'[c] = r /\ \A b \in Client \ {c} : req'[b] = req[b]
  BY <1>1 DEF Go, SignInOK, SignInInv, RequestsInv
<1>6. \A x, n : IsLive(x, n)' = IsLive(x, n)
  BY <1>1 DEF IsLive
<1>7. \A b \in Client : AtStep(b, "renew")' =>
          /\ Session(req'[b]) \in Uid \X Device /\ req'[b].of \in Nat
          /\ IsLive(Session(req'[b]), req'[b].of)
  <2> SUFFICES ASSUME NEW b \in Client, AtStep(b, "renew")'
               PROVE  /\ Session(req'[b]) \in Uid \X Device /\ req'[b].of \in Nat
                      /\ IsLive(Session(req'[b]), req'[b].of)
    OBVIOUS
  <2>1. CASE b = c
    BY <1>2, <1>3, <1>4, <1>5, <2>1
  <2>2. CASE b # c
    BY <1>5, <2>2 DEF SignInOK, TokensInv, AtStep
  <2> QED
    BY <2>1, <2>2
<1> QED
  BY <1>1, <1>6, <1>7 DEF SignInOK, TokensInv, IsLive, Session

\* It replaces the token of the row, if there is one.
LEMMA StoreTokens ==
    ASSUME SignInOK, NEW c \in Client, StoreRenewed(c)
    PROVE  TokensInv'
<1> DEFINE s == Session(req[c])
<1>1. /\ AtStep(c, "renew") /\ Go(c, Idle) /\ UNCHANGED <<logins, overtaken, refresh>>
      /\ \/ token' = [token EXCEPT ![s] = req[c].of]
         \/ token' = [token EXCEPT ![s] = Lost]
         \/ token' = token
  BY DEF StoreRenewed, End, deviceVars, Session
<1>2. s \in Uid \X Device /\ req[c].of \in Nat /\ IsLive(s, req[c].of)
  BY <1>1 DEF SignInOK, TokensInv
<1>3. /\ token' \in [Uid \X Device -> Nat]
      /\ \A x \in (Uid \X Device) \ {s} : token'[x] = token[x]
      /\ token'[s] \in {req[c].of, Lost, token[s]}
  BY <1>1, <1>2 DEF SignInOK, TokensInv, Lost
<1>4. Idle.pc # "renew"
  BY DEF Idle
<1>5. \A b \in Client : AtStep(b, "renew")' => req'[b] = req[b] /\ AtStep(b, "renew")
  BY <1>1, <1>4 DEF Go, AtStep, SignInOK, SignInInv, RequestsInv
<1>6. \A x, n : IsLive(x, n)' = IsLive(x, n)
  BY <1>1 DEF IsLive
<1>7. \A x \in refresh' : x \in Uid \X Device
  BY <1>1, SessionsArePairs DEF SignInOK, SignInInv, SessionsInv
<1>8. \A x \in refresh' : token'[x] = Lost \/ IsLive(x, token'[x])
  <2> SUFFICES ASSUME NEW x \in refresh' PROVE token'[x] = Lost \/ IsLive(x, token'[x])
    OBVIOUS
  <2>1. token[x] = Lost \/ IsLive(x, token[x])
    BY <1>1 DEF SignInOK, TokensInv
  <2>2. CASE x = s
    BY <1>2, <1>3, <2>1, <2>2
  <2>3. CASE x # s
    BY <1>3, <1>7, <2>1, <2>3
  <2> QED
    BY <2>2, <2>3
<1>9. \A b \in Client : AtStep(b, "renew")' =>
          /\ Session(req'[b]) \in Uid \X Device /\ req'[b].of \in Nat
          /\ IsLive(Session(req'[b]), req'[b].of)
  BY <1>5 DEF SignInOK, TokensInv
<1> QED
  BY <1>1, <1>3, <1>6, <1>8, <1>9 DEF SignInOK, TokensInv, IsLive, Session

\* A login makes the tokens before it live only if they are being renewed.
LEMMA LoginTokens ==
    ASSUME SignInOK, NEW c \in Client, DoLogin(c)
    PROVE  TokensInv'
<1> DEFINE s == Session(req[c])
<1>1. /\ AtStep(c, "login") /\ Go(c, Idle) /\ s[1] \in DOMAIN cache
      /\ refresh' = refresh \cup {s}
      /\ logins' = [logins EXCEPT ![s] = @ + 1]
      /\ overtaken' = overtaken \cup {<<s[1], s[2], req[b].of>> : b \in Renewing(s)}
      /\ \/ token' = [token EXCEPT ![s] = logins[s] + 1]
         \/ token' = [token EXCEPT ![s] = Lost]
  BY DEF DoLogin, End, Session, NewSession, Committed, MayLogin
<1>2. s \in Uid \X Device
  <2>1. s \in Sessions
    BY <1>1 DEF SignInOK, SignInInv, AccountsInv, IsUserTable, RequestsInv, Sound, AtStep,
       Sessions, Session
  <2> QED
    BY <2>1, SessionsArePairs DEF SignInOK
<1>3. /\ logins' \in [Uid \X Device -> Nat] /\ logins'[s] = logins[s] + 1
      /\ \A x \in (Uid \X Device) \ {s} : logins'[x] = logins[x]
  BY <1>1, <1>2 DEF SignInOK, TokensInv
<1>4. /\ token' \in [Uid \X Device -> Nat] /\ token'[s] \in {logins'[s], Lost}
      /\ \A x \in (Uid \X Device) \ {s} : token'[x] = token[x]
  BY <1>1, <1>2, <1>3 DEF SignInOK, TokensInv, Lost
<1>5. \A x \in (Uid \X Device) \ {s} : \A n : IsLive(x, n) => IsLive(x, n)'
  BY <1>1, <1>3 DEF IsLive
<1>6. \A x \in refresh : x \in Uid \X Device
  BY SessionsArePairs DEF SignInOK, SignInInv, SessionsInv
<1>7. (\A x \in refresh : token[x] = Lost \/ IsLive(x, token[x]))'
  <2> SUFFICES ASSUME NEW x \in refresh' PROVE (token[x] = Lost \/ IsLive(x, token[x]))'
    OBVIOUS
  <2>1. CASE x = s
    BY <1>4, <2>1 DEF IsLive
  <2>2. CASE x # s
    <3>1. x \in refresh /\ x \in (Uid \X Device) \ {s}
      BY <1>1, <1>6, <2>2
    <3>2. token[x] = Lost \/ IsLive(x, token[x])
      BY <3>1 DEF SignInOK, TokensInv
    <3>3. token'[x] = token[x] /\ logins'[x] = logins[x] /\ overtaken \subseteq overtaken'
      BY <1>1, <1>3, <1>4, <3>1
    <3> QED
      BY <3>2, <3>3 DEF IsLive
  <2> QED
    BY <2>1, <2>2
<1>8. Idle.pc # "renew"
  BY DEF Idle
<1>9. \A b \in Client : AtStep(b, "renew")' => req'[b] = req[b] /\ AtStep(b, "renew")
  BY <1>1, <1>8 DEF Go, AtStep, SignInOK, SignInInv, RequestsInv
<1>10. ASSUME NEW b \in Client, AtStep(b, "renew")'
       PROVE  /\ Session(req[b]) \in Uid \X Device /\ req[b].of \in Nat
              /\ IsLive(Session(req[b]), req[b].of)'
  <2>1. /\ AtStep(b, "renew") /\ Session(req[b]) \in Uid \X Device /\ req[b].of \in Nat
        /\ IsLive(Session(req[b]), req[b].of)
    BY <1>9, <1>10 DEF SignInOK, TokensInv
  <2>2. CASE Session(req[b]) = s
    <3>1. b \in Renewing(s)
      BY <2>1, <2>2 DEF Renewing, Session
    <3>2. <<s[1], s[2], req[b].of>> \in overtaken'
      BY <1>1, <3>1
    <3>3. req[b]' = req[b]
      BY <1>9, <1>10
    <3> QED
      BY <2>1, <2>2, <3>2, <3>3 DEF IsLive
  <2>3. CASE Session(req[b]) # s
    <3>1. req[b]' = req[b]
      BY <1>9, <1>10
    <3> QED
      BY <1>5, <2>1, <2>3, <3>1
  <2> QED
    BY <2>2, <2>3
<1> QED
  BY <1>3, <1>4, <1>7, <1>9, <1>10 DEF TokensInv, Session

\* What the other handlers do.
LEMMA ContinueTokens == ASSUME SignInOK, Continue PROVE TokensInv'
<1> SUFFICES ASSUME NEW c \in Client,
                    \/ CreateUser(c) \/ CreateFails(c) \/ DoLogin(c) \/ LoginFails(c)
                    \/ MatchMail(c) \/ Bind(c) \/ BindFails(c)
                    \/ WriteRow(c) \/ PublishPassword(c) \/ RecheckLink(c) \/ StoreRenewed(c)
             PROVE  TokensInv'
  BY DEF Continue
<1> USE DEF sessionVars, deviceVars
<1>1. Idle.pc # "renew"
  BY DEF Idle
<1>2. /\ DOMAIN req[c] = Fields /\ RequestsInv
  BY DEF SignInOK, SignInInv, RequestsInv, Sound, IsRequest
<1>3. CASE CreateFails(c) \/ LoginFails(c) \/ BindFails(c)
  BY <1>1, <1>2, <1>3, GoRests, TokensRestInv
     DEF CreateFails, LoginFails, BindFails, End, SignInOK
<1>4. CASE CreateUser(c)
  <2> DEFINE r == [req[c] EXCEPT !.pc = "login", !.uid = nextUid]
  <2>1. r.pc # "renew"
    BY <1>2 DEF Fields
  <2>2. (Go(c, r) \/ Go(c, Idle)) /\ UNCHANGED <<tokenVars, refresh>>
    BY <1>4 DEF CreateUser, Committed, End
  <2> QED
    BY <1>1, <1>2, <2>1, <2>2, GoRests, TokensRestInv DEF SignInOK
<1>5. CASE MatchMail(c)
  <2> DEFINE r == [req[c] EXCEPT !.pc = "create"]
             q == [req[c] EXCEPT !.pc = "bind", !.uid = Min(SameMail(req[c].id)), !.login = TRUE]
  <2>1. r.pc # "renew" /\ q.pc # "renew"
    BY <1>2 DEF Fields
  <2>2. (Go(c, r) \/ Go(c, q)) /\ UNCHANGED <<tokenVars, refresh>>
    BY <1>5 DEF MatchMail
  <2> QED
    BY <1>2, <2>1, <2>2, GoRests, TokensRestInv DEF SignInOK
<1>6. CASE Bind(c) \/ PublishPassword(c)
  <2> DEFINE r == [req[c] EXCEPT !.pc = "login"]
  <2>1. r.pc # "renew"
    BY <1>2 DEF Fields
  <2>2. (Go(c, r) \/ Go(c, Idle)) /\ UNCHANGED <<tokenVars, refresh>>
    BY <1>6 DEF Bind, AfterBind, PublishPassword
  <2> QED
    BY <1>1, <1>2, <2>1, <2>2, GoRests, TokensRestInv DEF SignInOK
<1>7. CASE WriteRow(c)
  <2> DEFINE r == [req[c] EXCEPT !.pc = "publish"]
  <2>1. r.pc # "renew"
    BY <1>2 DEF Fields
  <2>2. (Go(c, r) \/ Go(c, Idle)) /\ UNCHANGED <<tokenVars, refresh>>
    BY <1>7 DEF WriteRow, Committed, End
  <2> QED
    BY <1>1, <1>2, <2>1, <2>2, GoRests, TokensRestInv DEF SignInOK
<1>8. CASE RecheckLink(c)
  <2> DEFINE b == [req[c] EXCEPT !.login = FALSE, !.code = NoCode]
             r == [b EXCEPT !.pc = "login", !.mail = NoMail]
             q == [b EXCEPT !.pc = "create"]
  <2>1. r.pc # "renew" /\ q.pc # "renew"
    BY <1>2 DEF Fields
  <2>2. (Go(c, r) \/ Go(c, q) \/ Go(c, Idle)) /\ UNCHANGED <<tokenVars, refresh>>
    BY <1>8 DEF RecheckLink
  <2> QED
    BY <1>1, <1>2, <2>1, <2>2, GoRests, TokensRestInv DEF SignInOK
<1> QED
  BY <1>3, <1>4, <1>5, <1>6, <1>7, <1>8, LoginTokens, StoreTokens

\* The calls.
LEMMA CallTokens == ASSUME SignInOK, Call PROVE TokensInv'
<1> USE DEF sessionVars, deviceVars
<1>1. Idle.pc # "renew" /\ RequestsInv
  BY DEF Idle, SignInOK, SignInInv
<1>2. CASE \E c \in Client, d \in Device :
              \/ \E i \in Identity : SignInWith(c, i, d)
              \/ \E m \in Mail, s \in Secret : Register(c, m, s, d)
              \/ \E u \in Uid, s \in Secret : LoginPassword(c, u, s, d)
              \/ \E l \in links, named \in BOOLEAN : LoginLink(c, l, named, d)
              \/ LoginGuest(c, d)
  <2>1. PICK c \in Client, d \in Device :
              \/ \E i \in Identity : SignInWith(c, i, d)
              \/ \E m \in Mail, s \in Secret : Register(c, m, s, d)
              \/ \E u \in Uid, s \in Secret : LoginPassword(c, u, s, d)
              \/ \E l \in links, named \in BOOLEAN : LoginLink(c, l, named, d)
              \/ LoginGuest(c, d)
    BY <1>2
  <2>2. PICK r : Go(c, r) /\ r.pc # "renew" /\ UNCHANGED <<tokenVars, refresh>>
    <3>1. ASSUME NEW i \in Identity, SignInWith(c, i, d)
          PROVE  \E r : Go(c, r) /\ r.pc # "renew" /\ UNCHANGED <<tokenVars, refresh>>
      BY <3>1 DEF SignInWith, Idle
    <3>2. ASSUME NEW m \in Mail, NEW s \in Secret, Register(c, m, s, d)
          PROVE  \E r : Go(c, r) /\ r.pc # "renew" /\ UNCHANGED <<tokenVars, refresh>>
      BY <3>2 DEF Register, Idle
    <3>3. ASSUME NEW u \in Uid, NEW s \in Secret, LoginPassword(c, u, s, d)
          PROVE  \E r : Go(c, r) /\ r.pc # "renew" /\ UNCHANGED <<tokenVars, refresh>>
      BY <3>3 DEF LoginPassword, Idle
    <3>4. ASSUME NEW l \in links, NEW named \in BOOLEAN, LoginLink(c, l, named, d)
          PROVE  \E r : Go(c, r) /\ r.pc # "renew" /\ UNCHANGED <<tokenVars, refresh>>
      BY <3>4 DEF LoginLink, Idle
    <3>5. ASSUME LoginGuest(c, d)
          PROVE  \E r : Go(c, r) /\ r.pc # "renew" /\ UNCHANGED <<tokenVars, refresh>>
      BY <3>5 DEF LoginGuest, Idle
    <3> QED
      BY <2>1, <3>1, <3>2, <3>3, <3>4, <3>5
  <2> QED
    BY <1>1, <2>2, GoRests, TokensRestInv DEF SignInOK
<1>3. CASE \E c \in Client, s \in issued :
              \/ \E i \in Identity : StartBind(c, s, i)
              \/ \E old, new \in Secret : ChangePassword(c, s[1], old, new)
  <2>1. PICK c \in Client, s \in issued :
              \/ \E i \in Identity : StartBind(c, s, i)
              \/ \E old, new \in Secret : ChangePassword(c, s[1], old, new)
    BY <1>3
  <2>2. PICK r : Go(c, r) /\ r.pc # "renew" /\ UNCHANGED <<tokenVars, refresh>>
    <3>1. ASSUME NEW i \in Identity, StartBind(c, s, i)
          PROVE  \E r : Go(c, r) /\ r.pc # "renew" /\ UNCHANGED <<tokenVars, refresh>>
      BY <3>1 DEF StartBind, Idle
    <3>2. ASSUME NEW old \in Secret, NEW new \in Secret, ChangePassword(c, s[1], old, new)
          PROVE  \E r : Go(c, r) /\ r.pc # "renew" /\ UNCHANGED <<tokenVars, refresh>>
      BY <3>2 DEF ChangePassword, Idle
    <3> QED
      BY <2>1, <3>1, <3>2
  <2> QED
    BY <1>1, <2>2, GoRests, TokensRestInv DEF SignInOK
<1>4. CASE \E c \in Client, s \in issued : Renew(c, s)
  BY <1>4, RenewTokens
<1>5. CASE \E s \in issued : Logout(s) \/ \E d \in Device : DeleteDevice(s, d) \/ UpdateFcmToken(s, d)
  BY <1>5, TokensRestInv DEF Logout, DeleteDevice, UpdateFcmToken, TokensRest, AtStep, SignInOK
<1>6. CASE \E u \in Uid :
              \/ \E s \in Secret : AdminSetPassword(u, s)
              \/ \E m \in Mail : AdminSetMail(u, m)
              \/ \E f \in BOOLEAN : AdminSetStatus(u, f)
              \/ DeleteUser(u)
  BY <1>6, TokensRestInv DEF AdminSetPassword, AdminSetMail, AdminSetStatus, AdminUpdate,
     DeleteUser, NotOf, TokensRest, AtStep, SignInOK
<1>7. CASE \E k \in Code :
              \/ \E m \in Mail : SendLoginLink(k, m)
              \/ \E usable \in BOOLEAN : SendInvite(k, usable)
              \/ UseInvite(k)
  BY <1>7, TokensRestInv DEF SendLoginLink, SendInvite, UseInvite, TokensRest, AtStep, SignInOK
<1> QED
  BY <1>2, <1>3, <1>4, <1>5, <1>6, <1>7 DEF Call

\* Every step keeps what is said of the tokens.
LEMMA TokensNextInv == ASSUME SignInOK, [Next]_vars PROVE TokensInv'
<1> USE DEF sessionVars, deviceVars
<1>1. CASE Restart
  <2>1. \A c \in Client : req'[c].pc # "renew"
    BY <1>1 DEF Restart, Idle
  <2> QED
    BY <1>1, <2>1, TokensRestInv DEF Restart, TokensRest, AtStep, SignInOK
<1>2. CASE CleanMagicCodes \/ \E k \in Code : ExpireCode(k)
  BY <1>2, TokensRestInv DEF CleanMagicCodes, ExpireCode, TokensRest, AtStep, SignInOK
<1>3. CASE \E i \in Identity : Challenge(i) \/ AuthorizationTimesOut(i)
  BY <1>3, TokensRestInv DEF Challenge, AuthorizationTimesOut, TokensRest, AtStep, SignInOK
<1>4. CASE UNCHANGED vars
  BY <1>4, TokensRestInv DEF vars, TokensRest, AtStep, SignInOK
<1> QED
  BY <1>1, <1>2, <1>3, <1>4, ContinueTokens, CallTokens DEF Next

\* At first nobody has logged in.
LEMMA TokensInitInv == Init => TokensInv
<1> SUFFICES ASSUME Init PROVE TokensInv
  OBVIOUS
<1>1. /\ refresh = {} /\ token = [x \in Uid \X Device |-> Lost]
      /\ logins = [x \in Uid \X Device |-> 0] /\ req = [c \in Client |-> Idle]
  BY DEF Init
<1>2. \A c \in Client : ~AtStep(c, "renew")
  BY <1>1 DEF AtStep, Idle
<1> QED
  BY <1>1, <1>2 DEF TokensInv, Lost

\* The inductive invariant holds in every reachable state.
LEMMA SignInInvariant == Spec => []SignInOK
<1>1. Init => SignInOK
  BY SignInInitInv, TokensInitInv DEF SignInOK
<1>2. SignInOK /\ [Next]_vars => SignInOK'
  BY SignInNextInv, TokensNextInv DEF SignInOK
<1> QED
  BY <1>1, <1>2, PTL DEF Spec

\* No address ever has two links that work, although codes collide, expire, and
\* are dropped from each of the two maps on its own (login_magic_code_add,
\* magic_code_clean, magic_code_check_code).
THEOREM NoAddressHasTwoLinks == Spec => []OneLinkPerMail
<1>1. SignInOK => OneLinkPerMail
  BY SignInInvImplies
<1> QED
  BY <1>1, SignInInvariant, PTL

\* An identity has one account and opens no other, and an address finds one,
\* although an identity is looked up without the lock under which an account is
\* made, bound or deleted (login, bind_credential, create_user, delete_user).
THEOREM AccountsAreTold == Spec => []AccountsKept
<1>1. SignInOK => AccountsKept
  BY SignInInvImplies
<1> QED
  BY <1>1, SignInInvariant, PTL

\* A refresh token ends with its session, unless the device logs in again while it
\* is renewed; the cache has the devices of the tables unless a handler was
\* dropped, and no password that the tables never had (do_login, renew, logout,
\* delete_device, change_password).
THEOREM SessionsAreStored == Spec => []SessionsKept
<1>1. SignInOK => SessionsKept
  BY SignInInvImplies
<1> QED
  BY <1>1, SignInInvariant, PTL
=============================================================================
