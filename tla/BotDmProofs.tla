------------------------------ MODULE BotDmProofs ------------------------------
(***************************************************************************)
(* BotKeysAgree, EnvelopesReadable and KeysChangeVersion of BotDm, for any *)
(* devices, requests, plans and bounds.                                    *)
(*                                                                         *)
(* The invariant says what each request has in hand.  Of a step, Grows     *)
(* says what the other requests see of it; a lemma for each action then    *)
(* has only the request that moves to look at.                             *)
(***************************************************************************)
EXTENDS BotDm, FiniteSetTheorems, TLAPS

\* Requests that have made keys and not written them yet, ...
GenSteps == {"initialize", "rotate: commit", "rebuild"}

\* ... that have read the bot's row to publish for MLS, ...
EnableSteps == {"enable", "read marks", "publish", "mark credential", "mark package"}

\* ... that make envelopes, ...
JobSteps == {"next", "claim", "append"}

\* ... and that will store a message.
Sending == {r \in Request : pc[r] \in {"status", "store", "plain"}}

IdentityRow == [ver : Nat, ik : Generation, spk : Generation, retired : BOOLEAN]
VaultRow == [ik : Generation, spk : Generation, otps : SUBSET OtpIds]
BotRow == [ver : Nat, ik : Generation, spk : Generation, vault : VaultRow]

\* A generation of keys that no request is about to write.
Settled(g) ==
    /\ g \in 0 .. made
    /\ \A q \in Request : pc[q] \in GenSteps => arg[q].gen # g

\* A one-time prekey of the bot that is on offer no more, ...
Spent(o) == \A p \in prekey[bd] : p.key = o.key /\ p.pub = o.pub => p.used

\* ... or is in one row at most.
InItsRow(o) == \A p \in prekey[bd] : p.key = o.key /\ p.pub = o.pub => p.row = o.row

\* A one-time prekey of a device that is consumed.
Taken(d, o) == \E p \in prekey[d] : p.used /\ SameRow(p, o)

-----------------------------------------------------------------------------
\* What each request has in hand.
AdminOK(step, a) ==
    /\ step \in GenSteps => a.gen \in 1 .. made
    /\ step \in {"rotate: vault", "rotate: commit", "rebuild"} \cup EnableSteps => a.row \in BotRow
    /\ step = "rotate: commit" => a.vault \in VaultRow
    /\ step \in EnableSteps => Initialized /\ Settled(a.row.ik)
    /\ step \in {"publish", "mark credential", "mark package"} =>
         a = [row |-> a.row, left |-> a.left]
    /\ step = "mark credential" => (~stale /\ a.row.ik = bot.ik => mls.cred = bot.ik)

JobOK(j) == j.dev \in Person /\ j.mid \in Pending /\ j.ver <= j.at

SendOK(step, a) ==
    /\ step = "devices" => a.mid \in Pending
    /\ step \in JobSteps =>
         /\ a = [op |-> a.op, mid |-> a.mid, jobs |-> a.jobs, job |-> a.job, otp |-> a.otp,
                 tries |-> a.tries, added |-> a.added]
         /\ \A j \in a.jobs : JobOK(j) /\ (a.op = "send" => j.mid = a.mid)
         /\ a.op = "send" => /\ a.mid \in Pending
                             /\ a.added => \E e \in envelope : e.mid = a.mid
    /\ step \in {"claim", "append"} => a.job \in a.jobs
    /\ step = "claim" =>
         /\ a.otp # NoOtp /\ a.otp.row \in 1 .. made
         /\ \A p \in prekey[a.job.dev] : SameRow(p, a.otp) => p.good
    /\ step = "append" /\ a.otp # NoOtp =>
         /\ Taken(a.job.dev, a.otp)
         /\ \A e \in envelope : e.dev = a.job.dev /\ e.otp # NoOtp => ~SameRow(e.otp, a.otp)

CatchUpOK(step, a) ==
    /\ step \in {"catch up", "device"} =>
         a.dev \in Person /\ a.ver \in Nat /\ a.ver <= identity[a.dev].ver
    /\ step = "device" => a.mids \subseteq Pending

BundleOK(step, a) ==
    /\ step \in {"bundle", "consume", "bundled"} => a.dev \in Device
    /\ step = "consume" /\ a.dev = bd => Settled(a.otp.pub) /\ InItsRow(a.otp)
    /\ step = "bundled" /\ a.dev = bd /\ a.otp # NoOtp => Settled(a.otp.pub) /\ Spent(a.otp)
    /\ step \in {"vault", "persist"} /\ a.env.otp # NoOtp =>
         Settled(a.env.otp.pub) /\ Spent(a.env.otp)
    /\ step = "persist" =>
         /\ a.vault \in VaultRow
         /\ a.env.otp # NoOtp /\ a.env.otp.pub = a.vault.spk

RequestOK(step, a) == AdminOK(step, a) /\ SendOK(step, a) /\ CatchUpOK(step, a) /\ BundleOK(step, a)

\* No two requests have made the same keys, or claimed the same prekey.
Apart ==
    \A r, q \in Request : r # q =>
        /\ pc[r] \in GenSteps /\ pc[q] \in GenSteps => arg[r].gen # arg[q].gen
        /\ pc[r] = "append" /\ pc[q] = "append" /\ arg[r].otp # NoOtp /\ arg[q].otp # NoOtp
             /\ arg[r].job.dev = arg[q].job.dev => ~SameRow(arg[r].otp, arg[q].otp)

RequestsOK ==
    /\ pc = [r \in Request |-> pc[r]] /\ arg = [r \in Request |-> arg[r]]
    /\ \A r \in Request : RequestOK(pc[r], arg[r])
    /\ Apart

-----------------------------------------------------------------------------
\* The tables of keys: a row and a key id name one prekey, and one of the bot's
\* is named by its key id.
TablesOK ==
    /\ identity \in [Device -> IdentityRow]
    /\ prekey \in [Device -> SUBSET PreKeyRow]
    /\ made \in Generation
    /\ \A d \in Device : \A p \in prekey[d] : p.row \in 1 .. made
    /\ \A d \in Device : \A p, q \in prekey[d] : SameRow(p, q) => p = q
    /\ \A p, q \in prekey[bd] : p.key = q.key => p = q
    /\ \A p \in prekey[bd] : p.key \in OtpIds /\ Settled(p.pub)
    /\ \A d \in Person : identity[d].ik = identity[d].spk /\ identity[d].spk <= made

\* The bot.
BotOK ==
    /\ bot \in BotRow
    /\ channel \in [on : BOOLEAN, cred : BOOLEAN, package : BOOLEAN]
    /\ mls \in [cred : Generation, packages : Nat]
    /\ stale \in BOOLEAN
    /\ Settled(bot.ik)
    /\ \A o \in opened : Settled(o.pub)
    /\ ~Initialized => ~channel.cred
    /\ MirrorsAgree /\ OfferedIsCurrent /\ VaultMirrored /\ UsedSecretGone /\ CredentialCurrent

\* Messages are numbered as they are stored, and every request stores one at
\* most.
CountOK ==
    /\ IsFiniteSet(Sending)
    /\ calls \in 0 .. MaxCalls
    /\ \E n \in Nat : DOMAIN sent = 1 .. n /\ n + Cardinality(Sending) <= calls

\* The messages and their envelopes.
MessagesOK ==
    /\ secret \subseteq Pending /\ answered \subseteq DOMAIN sent
    /\ \A e \in envelope :
         /\ e.mid \in Inbound \cup Pending /\ e.dev \in Device
         /\ e.dev = bd /\ e.otp # NoOtp => Settled(e.otp.pub) /\ Spent(e.otp)
         /\ e.dev # bd /\ e.otp # NoOtp => Taken(e.dev, e.otp)
    /\ EnvelopesReadable

\* Neither BotKeysAgree nor EnvelopesReadable is inductive: both depend on what
\* the requests have read, on keys that are made and not written, and on rows
\* that keep their names.
BotInv == RequestsOK /\ TablesOK /\ BotOK /\ CountOK /\ MessagesOK
-----------------------------------------------------------------------------
\* The constants.
LEMMA Constants ==
    /\ bd \in Device /\ MaxCalls \in Nat /\ MaxErrors \in Nat /\ MaxRetries \in Nat
    /\ MaxMade \in Nat /\ OtpIds \subseteq Nat \ {0} /\ IsFiniteSet(OtpIds)
    /\ Cardinality(OtpIds) \in Nat
<1>1. /\ bd \in Device /\ MaxRetries \in Nat
      /\ MaxMade \in Nat /\ OtpIds \subseteq Nat \ {0} /\ IsFiniteSet(OtpIds)
  BY BotAssumption, PreKeysAssumption, MadeAssumption
<1>2. MaxCalls \in {MaxCalls, MaxErrors} /\ MaxErrors \in {MaxCalls, MaxErrors}
  OBVIOUS
<1>3. MaxCalls \in Nat /\ MaxErrors \in Nat
  BY <1>2, BotAssumption
<1>. QED
  BY <1>1, <1>3, FS_CardinalityType

\* A step of the system, as a request that takes no part in it sees it: what
\* the request has read has become neither untrue nor new.
Grows ==
    /\ made <= made'
    /\ Initialized => Initialized'
    /\ \A g : Settled(g) => Settled(g)'
    /\ Pending \subseteq Pending'
    /\ envelope \subseteq envelope'
    /\ \A d \in Person : identity[d].ver <= identity'[d].ver
    /\ \A d \in Person : \A p \in prekey'[d] :
         p.row = made + 1 \/ \E q \in prekey[d] : SameRow(p, q) /\ p.good = q.good
    /\ \A d \in Person : \A p \in prekey[d] : p.used => p \in prekey'[d]
    /\ \A p \in prekey'[bd] :
         \/ ~Settled(p.pub)
         \/ \E q \in prekey[bd] : /\ q.key = p.key /\ q.pub = p.pub /\ q.row = p.row
                                  /\ q.used => p.used
    /\ \A g : Settled(g) /\ ~stale' /\ g = bot'.ik =>
         mls'.cred = bot'.ik \/ (~stale /\ mls'.cred = mls.cred /\ bot'.ik = bot.ik)

\* Spent, InItsRow and Taken last.
LEMMA OtpsKeep ==
    ASSUME Grows, NEW o
    PROVE  /\ Settled(o.pub) /\ Spent(o) => Spent(o)'
           /\ Settled(o.pub) /\ InItsRow(o) => InItsRow(o)'
           /\ \A d \in Person : Taken(d, o) => Taken(d, o)'
<1>1. Settled(o.pub) /\ Spent(o) => Spent(o)'
  BY DEF Grows, Spent
<1>2. Settled(o.pub) /\ InItsRow(o) => InItsRow(o)'
  BY DEF Grows, InItsRow
<1>3. ASSUME NEW d \in Person, Taken(d, o) PROVE Taken(d, o)'
  BY <1>3 DEF Grows, Taken, SameRow
<1>. QED
  BY <1>1, <1>2, <1>3

\* What a request has in hand that takes no part in the step.
LEMMA AdminKeeps ==
    ASSUME Grows, made \in Nat, made' \in Nat, NEW step, NEW a, AdminOK(step, a)
    PROVE  AdminOK(step, a)'
<1>4. made <= made'
  BY DEF Grows
<1>5. step \in GenSteps => a.gen \in 1 .. made
  BY DEF AdminOK
<1>1. step \in GenSteps => a.gen \in 1 .. made'
  BY <1>4, <1>5
<1>2. step \in EnableSteps => Initialized' /\ Settled(a.row.ik)'
  BY DEF Grows, AdminOK
<1>3. step = "mark credential" => (~stale' /\ a.row.ik = bot'.ik => mls'.cred = bot'.ik)
  BY DEF Grows, AdminOK, EnableSteps
<1>. QED
  BY <1>1, <1>2, <1>3 DEF AdminOK, GenSteps, EnableSteps, BotRow, VaultRow

\* What it makes envelopes from.
LEMMA SendKeeps ==
    ASSUME Grows, made \in Nat, made' \in Nat, NEW step, NEW a, SendOK(step, a),
           step = "append" /\ a.otp # NoOtp =>
             \A e \in envelope' \ envelope :
                 e.dev = a.job.dev /\ e.otp # NoOtp => ~SameRow(e.otp, a.otp)
    PROVE  SendOK(step, a)'
<1>1. step = "devices" => a.mid \in Pending'
  BY DEF Grows, SendOK
<1>2. \A j : JobOK(j) => JobOK(j)'
  BY DEF Grows, JobOK
<1>3. step \in JobSteps => \A j \in a.jobs : JobOK(j)' /\ (a.op = "send" => j.mid = a.mid)
  BY <1>2 DEF SendOK
<1>4. step \in JobSteps /\ a.op = "send" =>
         a.mid \in Pending' /\ (a.added => \E e \in envelope' : e.mid = a.mid)
  BY DEF Grows, SendOK
<1>5. step \in {"claim", "append"} => a.job.dev \in Person
  BY DEF SendOK, JobOK, JobSteps
<1>6. CASE step = "claim"
  <2>1. /\ a.otp # NoOtp /\ a.otp.row \in 1 .. made'
        /\ \A p \in prekey'[a.job.dev] : SameRow(p, a.otp) => p.good
    <3>1. a.otp # NoOtp /\ a.otp.row \in 1 .. made
          /\ \A p \in prekey[a.job.dev] : SameRow(p, a.otp) => p.good
      BY <1>6 DEF SendOK
    <3>2. ASSUME NEW p \in prekey'[a.job.dev], SameRow(p, a.otp) PROVE p.good
      <4>1. p.row # made + 1
        BY <3>1, <3>2 DEF SameRow
      <4>2. PICK q \in prekey[a.job.dev] : SameRow(p, q) /\ p.good = q.good
        BY <1>5, <1>6, <3>2, <4>1 DEF Grows
      <4>. QED
        BY <3>1, <3>2, <4>2 DEF SameRow
    <3>3. a.otp.row \in 1 .. made'
      BY <3>1 DEF Grows
    <3>. QED
      BY <3>1, <3>2, <3>3
  <2>. QED
    BY <1>3, <1>4, <1>6, <2>1 DEF SendOK
<1>7. CASE step = "append"
  <2>1. a.otp # NoOtp => Taken(a.job.dev, a.otp)'
    BY <1>5, <1>7, OtpsKeep DEF SendOK
  <2>2. a.otp # NoOtp => \A e \in envelope' :
            e.dev = a.job.dev /\ e.otp # NoOtp => ~SameRow(e.otp, a.otp)
    BY <1>7 DEF SendOK
  <2>. QED
    BY <1>3, <1>4, <1>7, <2>1, <2>2 DEF SendOK
<1>8. CASE step \notin {"claim", "append"}
  BY <1>1, <1>3, <1>4, <1>8 DEF SendOK
<1>. QED
  BY <1>6, <1>7, <1>8

\* The device and the version it catches up with.
LEMMA CatchUpKeeps ==
    ASSUME Grows, identity \in [Device -> IdentityRow],
           identity' \in [Device -> IdentityRow],
           NEW step, NEW a, CatchUpOK(step, a)
    PROVE  CatchUpOK(step, a)'
<1>1. ASSUME step \in {"catch up", "device"}
      PROVE  a.dev \in Person /\ a.ver \in Nat /\ a.ver <= identity'[a.dev].ver
  <2>1. a.dev \in Person /\ a.ver \in Nat /\ a.ver <= identity[a.dev].ver
    BY <1>1 DEF CatchUpOK
  <2>2. identity[a.dev].ver \in Nat /\ identity'[a.dev].ver \in Nat
    BY <2>1 DEF Person, IdentityRow
  <2>. QED
    BY <2>1, <2>2 DEF Grows
<1>2. step = "device" => a.mids \subseteq Pending'
  BY DEF Grows, CatchUpOK
<1>. QED
  BY <1>1, <1>2 DEF CatchUpOK

\* The one-time prekeys it has been given, and the vault it has read.
LEMMA BundleKeeps ==
    ASSUME Grows, NEW step, NEW a, BundleOK(step, a)
    PROVE  BundleOK(step, a)'
<1>1. \A o : Settled(o.pub) /\ Spent(o) => Settled(o.pub)' /\ Spent(o)'
  BY OtpsKeep DEF Grows
<1>2. \A o : Settled(o.pub) /\ InItsRow(o) => Settled(o.pub)' /\ InItsRow(o)'
  BY OtpsKeep DEF Grows
<1>. QED
  BY <1>1, <1>2 DEF BundleOK, VaultRow

-----------------------------------------------------------------------------
\* One request moves.
Moves(r, to, new) ==
    /\ pc' = [pc EXCEPT ![r] = to]
    /\ arg' = [arg EXCEPT ![r] = new]

\* The claim of a one-time prekey that a request has in hand is its own.
Owns(to, new, r) ==
    to = "append" /\ new.otp # NoOtp =>
      \A q \in Request \ {r} :
          pc[q] = "append" /\ arg[q].otp # NoOtp /\ new.job.dev = arg[q].job.dev =>
            ~SameRow(new.otp, arg[q].otp)

\* No envelope of a step takes the prekey that another request has claimed.
LeavesClaims(r) ==
    \A q \in Request \ {r} : pc[q] = "append" /\ arg[q].otp # NoOtp =>
      \A e \in envelope' \ envelope :
          e.dev = arg[q].job.dev /\ e.otp # NoOtp => ~SameRow(e.otp, arg[q].otp)

\* Settled lasts when whoever makes keys makes new ones.
LEMMA SettledKeeps ==
    ASSUME RequestsOK, NEW r \in Request, NEW to, NEW new, Moves(r, to, new),
           made \in Nat, made' \in Nat, made <= made',
           to \in GenSteps => new.gen = made + 1
    PROVE  \A g : Settled(g) => Settled(g)'
<1>. SUFFICES ASSUME NEW g, Settled(g) PROVE Settled(g)'
  OBVIOUS
<1>1. g \in 0 .. made'
  BY DEF Settled
<1>2. ASSUME NEW q \in Request, pc'[q] \in GenSteps PROVE arg'[q].gen # g
  <2>1. CASE q = r
    <3>1. pc'[q] = to /\ arg'[q] = new
      BY <2>1 DEF Moves, RequestsOK
    <3>. QED
      BY <1>2, <3>1 DEF Settled
  <2>2. CASE q # r
    <3>1. pc'[q] = pc[q] /\ arg'[q] = arg[q]
      BY <2>2 DEF Moves, RequestsOK
    <3>. QED
      BY <1>2, <3>1 DEF Settled
  <2>. QED
    BY <2>1, <2>2
<1>. QED
  BY <1>1, <1>2 DEF Settled

\* Settled lasts when no request moves.
LEMMA SettledRests ==
    ASSUME UNCHANGED <<pc, arg>>, made \in Nat, made' \in Nat, made <= made'
    PROVE  \A g : Settled(g) => Settled(g)'
BY DEF Settled

\* What a request has in hand stays true while others move.
LEMMA RequestKeeps ==
    ASSUME Grows, made \in Nat, made' \in Nat,
           identity \in [Device -> IdentityRow], identity' \in [Device -> IdentityRow],
           NEW step, NEW a, RequestOK(step, a),
           step = "append" /\ a.otp # NoOtp =>
             \A e \in envelope' \ envelope :
                 e.dev = a.job.dev /\ e.otp # NoOtp => ~SameRow(e.otp, a.otp)
    PROVE  RequestOK(step, a)'
BY AdminKeeps, SendKeeps, CatchUpKeeps, BundleKeeps DEF RequestOK

\* A request whose step and argument are known.
LEMMA RequestNamed ==
    ASSUME NEW q, NEW step, NEW a, pc'[q] = step, arg'[q] = a, RequestOK(step, a)'
    PROVE  RequestOK(pc[q], arg[q])'
<1>1. AdminOK(step, a)' => AdminOK(pc[q], arg[q])'
  BY DEF AdminOK
<1>2. SendOK(step, a)' => SendOK(pc[q], arg[q])'
  BY DEF SendOK
<1>3. CatchUpOK(step, a)' => CatchUpOK(pc[q], arg[q])'
  BY DEF CatchUpOK
<1>4. BundleOK(step, a)' => BundleOK(pc[q], arg[q])'
  BY DEF BundleOK
<1>. QED
  BY <1>1, <1>2, <1>3, <1>4 DEF RequestOK

\* One request moves, and the others keep what they have in hand.
LEMMA RequestsKeep ==
    ASSUME RequestsOK, NEW r \in Request, NEW to, NEW new, Moves(r, to, new),
           Grows, made \in Nat, made' \in Nat,
           identity \in [Device -> IdentityRow], identity' \in [Device -> IdentityRow],
           RequestOK(to, new)', Owns(to, new, r), LeavesClaims(r),
           to \in GenSteps => new.gen = made + 1
    PROVE  RequestsOK'
<1>1. /\ DOMAIN pc' = Request /\ DOMAIN arg' = Request
      /\ pc'[r] = to /\ arg'[r] = new
      /\ \A q \in Request \ {r} : pc'[q] = pc[q] /\ arg'[q] = arg[q]
  BY DEF Moves, RequestsOK
<1>2. ASSUME NEW q \in Request PROVE RequestOK(pc[q], arg[q])'
  <2>1. CASE q = r
    BY <1>1, <2>1, RequestNamed
  <2>2. CASE q # r
    <3>1. PICK step, a : step = pc[q] /\ a = arg[q]
      OBVIOUS
    <3>2. RequestOK(step, a)
      BY <3>1 DEF RequestsOK
    <3>3. step = "append" /\ a.otp # NoOtp =>
             \A e \in envelope' \ envelope :
                 e.dev = a.job.dev /\ e.otp # NoOtp => ~SameRow(e.otp, a.otp)
      BY <2>2, <3>1 DEF LeavesClaims
    <3>4. RequestOK(step, a)'
      BY <3>2, <3>3, RequestKeeps
    <3>5. pc'[q] = step /\ arg'[q] = a
      BY <1>1, <2>2, <3>1
    <3>. QED
      BY <3>4, <3>5, RequestNamed
  <2>. QED
    BY <2>1, <2>2
<1>3. ASSUME NEW p \in Request, NEW q \in Request, p # q
      PROVE  /\ pc'[p] \in GenSteps /\ pc'[q] \in GenSteps => arg'[p].gen # arg'[q].gen
             /\ pc'[p] = "append" /\ pc'[q] = "append" /\ arg'[p].otp # NoOtp /\ arg'[q].otp # NoOtp
                  /\ arg'[p].job.dev = arg'[q].job.dev => ~SameRow(arg'[p].otp, arg'[q].otp)
  <2>1. \A x \in Request \ {r} : pc[x] \in GenSteps => arg[x].gen \in 1 .. made
    BY DEF RequestsOK, RequestOK, AdminOK
  <2>2. CASE p = r
    BY <1>1, <1>3, <2>1, <2>2 DEF Owns
  <2>3. CASE q = r
    BY <1>1, <1>3, <2>1, <2>3 DEF Owns, SameRow
  <2>4. CASE p # r /\ q # r
    BY <1>1, <1>3, <2>4 DEF RequestsOK, Apart
  <2>. QED
    BY <2>2, <2>3, <2>4
<1>4. pc' = [q \in Request |-> pc'[q]] /\ arg' = [q \in Request |-> arg'[q]]
  BY DEF Moves, RequestsOK
<1>5. Apart'
  BY <1>3 DEF Apart
<1>. QED
  BY <1>2, <1>4, <1>5 DEF RequestsOK

\* No request moves.
LEMMA RequestsRest ==
    ASSUME RequestsOK, UNCHANGED <<pc, arg, envelope>>, Grows, made \in Nat, made' \in Nat,
           identity \in [Device -> IdentityRow], identity' \in [Device -> IdentityRow]
    PROVE  RequestsOK'
<1>1. ASSUME NEW q \in Request PROVE RequestOK(pc[q], arg[q])'
  <2>1. PICK step, a : step = pc[q] /\ a = arg[q]
    OBVIOUS
  <2>2. RequestOK(step, a)
    BY <2>1 DEF RequestsOK
  <2>3. RequestOK(step, a)'
    BY <2>2, RequestKeeps
  <2>. QED
    BY <2>1, <2>3, RequestNamed
<1>. QED
  BY <1>1 DEF RequestsOK, Apart

-----------------------------------------------------------------------------
\* The requests that will store a message are counted.
LEMMA CountKeeps ==
    ASSUME CountOK, RequestsOK, NEW r \in Request, NEW to, NEW new, Moves(r, to, new),
           UNCHANGED sent, calls' \in 0 .. MaxCalls,
           \/ calls <= calls' /\ to \notin {"status", "store", "plain"}
           \/ calls <= calls' /\ pc[r] \in {"status", "store", "plain"}
           \/ calls' = calls + 1
    PROVE  CountOK'
<1>1. PICK n \in Nat : DOMAIN sent = 1 .. n /\ n + Cardinality(Sending) <= calls
  BY DEF CountOK
<1>2. IsFiniteSet(Sending) /\ Cardinality(Sending) \in Nat /\ calls \in Nat /\ calls' \in Nat
  BY FS_CardinalityType DEF CountOK
<1>3. \A q \in Request \ {r} : pc'[q] = pc[q]
  BY DEF Moves, RequestsOK
<1>4. pc'[r] = to
  BY DEF Moves, RequestsOK
<1>5. CASE Sending' \subseteq Sending /\ calls <= calls'
  <2>1. IsFiniteSet(Sending') /\ Cardinality(Sending') <= Cardinality(Sending)
        /\ Cardinality(Sending') \in Nat
    BY <1>2, <1>5, FS_Subset, FS_CardinalityType
  <2>2. n + Cardinality(Sending') <= calls'
    BY <1>1, <1>2, <1>5, <2>1
  <2>. QED
    BY <1>1, <2>1, <2>2 DEF CountOK
<1>6. CASE calls' = calls + 1 /\ Sending' = Sending \cup {r} /\ r \notin Sending
  <2>1. IsFiniteSet(Sending') /\ Cardinality(Sending') = Cardinality(Sending) + 1
    BY <1>2, <1>6, FS_AddElement
  <2>2. n + Cardinality(Sending') <= calls'
    BY <1>1, <1>2, <1>6, <2>1
  <2>. QED
    BY <1>1, <2>1, <2>2 DEF CountOK
<1>7. \/ Sending' \subseteq Sending
      \/ Sending' = Sending \cup {r} /\ r \notin Sending /\ to \in {"status", "store", "plain"}
         /\ pc[r] \notin {"status", "store", "plain"}
  BY <1>3, <1>4 DEF Sending
<1>8. calls <= calls'
  BY <1>2
<1>. QED
  BY <1>5, <1>6, <1>7, <1>8

\* A step that neither starts a request nor stores a message.
LEMMA CountRests ==
    ASSUME CountOK, UNCHANGED <<pc, calls, sent>>
    PROVE  CountOK'
<1>1. UNCHANGED Sending
  BY DEF Sending
<1>. QED
  BY <1>1 DEF CountOK

\* The message a request stores gets the next number.
LEMMA StoreKeeps ==
    ASSUME CountOK, RequestsOK, NEW r \in Request, NEW to, NEW new, Moves(r, to, new),
           to \notin {"status", "store", "plain"}, pc[r] \in {"status", "store", "plain"},
           UNCHANGED calls, NEW plain, NEW was, StoreSent(plain, was)
    PROVE  /\ CountOK'
           /\ NewMid \notin DOMAIN sent
           /\ DOMAIN sent' = DOMAIN sent \cup {NewMid}
           /\ sent'[NewMid] = [plain |-> plain, was |-> was]
           /\ \A m \in DOMAIN sent : sent'[m] = sent[m]
<1>1. PICK n \in Nat : DOMAIN sent = 1 .. n /\ n + Cardinality(Sending) <= calls
  BY DEF CountOK
<1>2. Cardinality(DOMAIN sent) = n
  BY <1>1, FS_Interval
<1>3. NewMid = n + 1 /\ NewMid \notin DOMAIN sent
  BY <1>1, <1>2 DEF NewMid
<1>4. /\ DOMAIN sent' = DOMAIN sent \cup {NewMid}
      /\ sent'[NewMid] = [plain |-> plain, was |-> was]
      /\ \A m \in DOMAIN sent : sent'[m] = sent[m]
  BY <1>3 DEF StoreSent
<1>5. IsFiniteSet(Sending) /\ Cardinality(Sending) \in Nat /\ calls \in Nat
  BY FS_CardinalityType DEF CountOK
<1>6. Sending' = Sending \ {r} /\ r \in Sending
  BY DEF Moves, RequestsOK, Sending
<1>7. IsFiniteSet(Sending') /\ Cardinality(Sending') = Cardinality(Sending) - 1
  BY <1>5, <1>6, FS_RemoveElement
<1>8. DOMAIN sent' = 1 .. (n + 1)
  BY <1>1, <1>3, <1>4
<1>9. n + 1 + Cardinality(Sending') <= calls'
  BY <1>1, <1>5, <1>7
<1>. QED
  BY <1>3, <1>4, <1>7, <1>8, <1>9 DEF CountOK

-----------------------------------------------------------------------------
\* The parts of the invariant that a step leaves alone.
LEMMA TablesKeep ==
    ASSUME TablesOK, Grows, UNCHANGED <<identity, prekey>>, made' \in Generation
    PROVE  TablesOK'
<1>1. made \in Nat /\ made' \in Nat /\ made <= made'
  BY Constants DEF TablesOK, Grows, Generation
<1>2. \A d \in Device : \A p \in prekey'[d] : p.row \in 1 .. made'
  BY <1>1 DEF TablesOK
<1>3. \A p \in prekey'[bd] : p.key \in OtpIds /\ Settled(p.pub)'
  BY DEF TablesOK, Grows
<1>4. \A d \in Person : identity'[d].ik = identity'[d].spk /\ identity'[d].spk <= made'
  <2>1. ASSUME NEW d \in Person PROVE identity[d].ik = identity[d].spk /\ identity[d].spk <= made'
    <3>1. identity[d].spk \in Nat
      BY Constants DEF TablesOK, Person, IdentityRow, Generation
    <3>2. identity[d].ik = identity[d].spk /\ identity[d].spk <= made
      BY DEF TablesOK
    <3>. QED
      BY <1>1, <3>1, <3>2
  <2>. QED
    BY <2>1
<1>. QED
  BY <1>2, <1>3, <1>4 DEF TablesOK, IdentityRow

\* The bot's row, its channel and its keys on offer.
LEMMA BotKeeps ==
    ASSUME BotOK, Grows, UNCHANGED <<bot, mls, opened, stale>>,
           identity'[bd] = identity[bd], Fresh(bd)' \subseteq Fresh(bd),
           channel' \in [on : BOOLEAN, cred : BOOLEAN, package : BOOLEAN],
           channel'.cred = channel.cred
    PROVE  BotOK'
<1>1. Settled(bot.ik)' /\ \A o \in opened' : Settled(o.pub)'
  BY DEF BotOK, Grows
<1>2. MirrorsAgree' /\ CredentialCurrent' /\ UsedSecretGone'
  BY DEF BotOK, MirrorsAgree, CredentialCurrent, UsedSecretGone
<1>3. OfferedIsCurrent' /\ VaultMirrored'
  BY DEF BotOK, OfferedIsCurrent, VaultMirrored
<1>. QED
  BY <1>1, <1>2, <1>3 DEF BotOK, Initialized, BotRow, VaultRow

\* What the envelopes rest on.
EnvelopeOK(e) ==
    /\ e.mid \in Inbound \cup Pending /\ e.dev \in Device
    /\ e.dev = bd /\ e.otp # NoOtp => Settled(e.otp.pub) /\ Spent(e.otp)
    /\ e.dev # bd /\ e.otp # NoOtp => Taken(e.dev, e.otp)

\* The envelopes keep it.
LEMMA EnvelopeKeeps ==
    ASSUME Grows, NEW e, EnvelopeOK(e)
    PROVE  EnvelopeOK(e)'
<1>1. e.mid \in Inbound \cup Pending'
  BY DEF EnvelopeOK, Grows
<1>2. e.dev = bd /\ e.otp # NoOtp => Settled(e.otp.pub)' /\ Spent(e.otp)'
  BY OtpsKeep DEF EnvelopeOK, Grows
<1>3. e.dev # bd /\ e.otp # NoOtp => Taken(e.dev, e.otp)'
  BY OtpsKeep DEF EnvelopeOK, Person
<1>4. e.dev \in Device
  BY DEF EnvelopeOK
<1>. QED
  BY <1>1, <1>2, <1>3, <1>4 DEF EnvelopeOK

\* The messages.
LEMMA MessagesKeep ==
    ASSUME MessagesOK, Grows, UNCHANGED <<sent, envelope, secret, answered>>,
           FailedWrapBurnsNothing'
    PROVE  MessagesOK'
<1>1. UNCHANGED Pending
  BY DEF Pending
<1>2. \A e \in envelope' : EnvelopeOK(e)'
  BY EnvelopeKeeps DEF MessagesOK, EnvelopeOK
<1>3. KeyClaimedOnce' /\ EnvelopeNotOlder'
  BY DEF MessagesOK, EnvelopesReadable, KeyClaimedOnce, EnvelopeNotOlder
<1>4. AnsweredIsReadable'
  BY DEF MessagesOK, EnvelopesReadable, AnsweredIsReadable
<1>5. secret' \subseteq Pending' /\ answered' \subseteq DOMAIN sent'
  BY <1>1 DEF MessagesOK
<1>. QED
  BY <1>2, <1>3, <1>4, <1>5 DEF MessagesOK, EnvelopesReadable, EnvelopeOK

\* The number of generations.
LEMMA MadeIsNat ==
    ASSUME TablesOK
    PROVE  made \in Nat /\ made \in Generation
<1>1. made \in Generation
  BY DEF TablesOK
<1>. QED
  BY <1>1, Constants DEF Generation

\* Nothing but the requests changes, and the generations.
LEMMA PureGrows ==
    ASSUME BotInv, NEW r \in Request, NEW to, NEW new, Moves(r, to, new),
           UNCHANGED <<identity, prekey, botVars, dmVars, ghostVars>>,
           made' = made \/ NewGeneration, to \in GenSteps => new.gen = made + 1
    PROVE  Grows /\ made \in Nat /\ made' \in Nat /\ made' \in Generation
<1>1. made \in Nat /\ made' \in Nat /\ made' \in Generation /\ made <= made'
  BY Constants DEF BotInv, TablesOK, Generation, NewGeneration
<1>2. \A g : Settled(g) => Settled(g)'
  BY <1>1, SettledKeeps DEF BotInv
<1>3. (Initialized => Initialized') /\ Pending \subseteq Pending' /\ envelope \subseteq envelope'
  BY DEF Initialized, Pending, botVars, dmVars
<1>4. \A d \in Person : identity[d].ver <= identity'[d].ver
  BY DEF BotInv, TablesOK, Person, IdentityRow
<1>. QED
  BY <1>1, <1>2, <1>3, <1>4 DEF Grows, SameRow, botVars, ghostVars

\* The request has in hand what is true after the step.
LEMMA PureMoves ==
    ASSUME BotInv, NEW r \in Request, NEW to, NEW new, Moves(r, to, new),
           UNCHANGED <<identity, prekey, botVars, dmVars, ghostVars>>,
           made' = made \/ NewGeneration, to \in GenSteps => new.gen = made + 1,
           calls' \in 0 .. MaxCalls,
           \/ calls <= calls' /\ to \notin {"status", "store", "plain"}
           \/ calls <= calls' /\ pc[r] \in {"status", "store", "plain"}
           \/ calls' = calls + 1,
           RequestOK(to, new)', to = "append" => new.otp = NoOtp
    PROVE  BotInv'
<1>1. Grows /\ made \in Nat /\ made' \in Nat /\ made' \in Generation
  BY PureGrows
<1>2. RequestsOK'
  <2>1. Owns(to, new, r) /\ LeavesClaims(r)
    BY DEF Owns, LeavesClaims, dmVars
  <2>. QED
    BY <1>1, <2>1, RequestsKeep DEF BotInv, TablesOK
<1>3. TablesOK'
  BY <1>1, TablesKeep DEF BotInv
<1>4. BotOK'
  <2>1. identity'[bd] = identity[bd] /\ Fresh(bd)' \subseteq Fresh(bd)
    BY DEF Fresh
  <2>. QED
    BY <1>1, <2>1, BotKeeps DEF BotInv, BotOK, botVars, ghostVars
<1>5. CountOK'
  BY CountKeeps DEF BotInv, dmVars
<1>6. MessagesOK'
  <2>1. FailedWrapBurnsNothing'
    BY DEF BotInv, MessagesOK, EnvelopesReadable, FailedWrapBurnsNothing, ghostVars
  <2>. QED
    BY <1>1, <2>1, MessagesKeep DEF BotInv, dmVars
<1>. QED
  BY <1>2, <1>3, <1>4, <1>5, <1>6 DEF BotInv

\* A request goes on with what is true before the step.
LEMMA QuietMoves ==
    ASSUME BotInv, NEW r \in Request, NEW to, NEW new, Moves(r, to, new),
           UNCHANGED <<keyVars, botVars, dmVars, ghostVars>>,
           to \notin GenSteps, calls' \in 0 .. MaxCalls,
           \/ calls <= calls' /\ to \notin {"status", "store", "plain"}
           \/ calls <= calls' /\ pc[r] \in {"status", "store", "plain"}
           \/ calls' = calls + 1,
           RequestOK(to, new), to = "append" => new.otp = NoOtp
    PROVE  BotInv'
<1>1. UNCHANGED <<identity, prekey, made>>
  BY DEF keyVars
<1>2. Grows /\ made \in Nat /\ made' \in Nat
  BY <1>1, PureGrows
<1>3. RequestOK(to, new)'
  BY <1>1, <1>2, RequestKeeps DEF BotInv, TablesOK
<1>. QED
  BY <1>1, <1>3, PureMoves

-----------------------------------------------------------------------------
\* Entering, going on and leaving.
LEMMA Entered ==
    ASSUME BotInv, NEW r \in Request, NEW kind, NEW to, NEW new, Enter(r, kind, to, new)
    PROVE  /\ Moves(r, to, new) /\ pc[r] = "idle"
           /\ calls' = calls + 1 /\ calls <= calls' /\ calls' \in 0 .. MaxCalls
BY Constants DEF Enter, Moves, BotInv, CountOK

\* A request that goes on stays within the bounds.
LEMMA WentOn ==
    ASSUME BotInv, NEW r \in Request, NEW from, NEW to, NEW new, GoTo(r, from, to, new)
    PROVE  /\ Moves(r, to, new) /\ pc[r] = from
           /\ calls' = calls /\ calls <= calls' /\ calls' \in 0 .. MaxCalls
BY Constants DEF GoTo, Moves, BotInv, CountOK, boundVars

\* A request that is idle has nothing in hand.
LEMMA Idle == \A a : RequestOK("idle", a) /\ RequestOK("idle", a)'
BY DEF RequestOK, AdminOK, SendOK, CatchUpOK, BundleOK, GenSteps, EnableSteps, JobSteps

\* A request that leaves.
LEMMA LeaveKeeps ==
    ASSUME BotInv, NEW r \in Request, NEW from, Leave(r, from),
           UNCHANGED <<keyVars, botVars, dmVars, ghostVars>>
    PROVE  BotInv'
BY WentOn, Idle, QuietMoves DEF Leave, GenSteps

\* A request that is cut short.
LEMMA CutKeeps ==
    ASSUME BotInv, NEW r \in Request, Cut(r)
    PROVE  BotInv'
<1>1. Moves(r, "idle", NoArg) /\ calls <= calls' /\ calls' \in 0 .. MaxCalls
      /\ UNCHANGED <<keyVars, botVars, dmVars, ghostVars>>
  BY Constants DEF Cut, Moves, BotInv, CountOK
<1>. QED
  BY <1>1, Idle, QuietMoves DEF GenSteps

-----------------------------------------------------------------------------
\* The number of what comes next.
LEMMA NextNumber == \A n \in Nat : n <= n /\ n + 1 > n /\ n + 1 \in Nat /\ n + 1 \in 1 .. (n + 1)
OBVIOUS

\* Requests that make keys.
LEMMA MakesKeys ==
    ASSUME BotInv, NEW r \in Request, NEW to, NEW new, Moves(r, to, new),
           to \in GenSteps, NewGeneration, new.gen = made + 1,
           UNCHANGED <<identity, prekey, botVars, dmVars, ghostVars>>,
           calls <= calls', calls' \in 0 .. MaxCalls,
           to = "rebuild" => new.row \in BotRow,
           to = "rotate: commit" => new.row \in BotRow /\ new.vault \in VaultRow
    PROVE  BotInv'
<1>1. new.gen \in 1 .. made' /\ made' \in Nat
  <2>1. made \in Nat
    BY MadeIsNat DEF BotInv
  <2>2. new.gen = made + 1 /\ made' = made + 1
    BY DEF NewGeneration
  <2>. QED
    BY <2>1, <2>2, NextNumber, Zenon
<1>2. RequestOK(to, new)'
  <2>1. AdminOK(to, new)'
    BY <1>1 DEF AdminOK, GenSteps, EnableSteps, BotRow, VaultRow
  <2>2. SendOK(to, new)' /\ CatchUpOK(to, new)' /\ BundleOK(to, new)'
    BY DEF SendOK, CatchUpOK, BundleOK, GenSteps, JobSteps
  <2>. QED
    BY <2>1, <2>2 DEF RequestOK
<1>3. to # "append" /\ to \notin {"status", "store", "plain"}
  BY DEF GenSteps
<1>. QED
  BY <1>2, <1>3, PureMoves

\* initialize makes its keys before the transaction, ...
LEMMA BeginInitializeKeeps ==
    ASSUME BotInv, NEW r \in Request, BeginInitialize(r)
    PROVE  BotInv'
<1>. DEFINE new == [gen |-> made + 1]
<1>1. Moves(r, "initialize", new) /\ calls <= calls' /\ calls' \in 0 .. MaxCalls
  BY Entered DEF BeginInitialize
<1>. QED
  BY <1>1, MakesKeys DEF BeginInitialize, GenSteps

\* ... and so does rebuild, ...
LEMMA BeginRebuildKeeps ==
    ASSUME BotInv, NEW r \in Request, BeginRebuild(r)
    PROVE  BotInv'
<1>. DEFINE new == [row |-> bot, gen |-> made + 1]
<1>1. Moves(r, "rebuild", new) /\ calls <= calls' /\ calls' \in 0 .. MaxCalls
  BY Entered DEF BeginRebuild
<1>2. new.row \in BotRow
  BY DEF BotInv, BotOK
<1>. QED
  BY <1>1, <1>2, MakesKeys DEF BeginRebuild, GenSteps

\* ... and rotate once it has read the vault.
LEMMA LoadForRotateKeeps ==
    ASSUME BotInv, NEW r \in Request, LoadForRotate(r)
    PROVE  BotInv'
<1>. DEFINE new == [row |-> arg[r].row, vault |-> bot.vault, gen |-> made + 1]
<1>1. /\ Moves(r, "rotate: commit", new) /\ pc[r] = "rotate: vault"
      /\ calls <= calls' /\ calls' \in 0 .. MaxCalls
  BY WentOn DEF LoadForRotate
<1>2. new.row \in BotRow
  BY <1>1 DEF BotInv, RequestsOK, RequestOK, AdminOK
<1>3. new.vault \in VaultRow
  BY DEF BotInv, BotOK, BotRow
<1>. QED
  BY <1>1, <1>2, <1>3, MakesKeys DEF LoadForRotate, GenSteps

\* rotate has read the bot's row.
LEMMA BeginRotateKeeps ==
    ASSUME BotInv, NEW r \in Request, BeginRotate(r)
    PROVE  BotInv'
<1>1. PICK new : new = [row |-> bot]
  OBVIOUS
<1>4. Moves(r, "rotate: vault", new) /\ calls <= calls' /\ calls' \in 0 .. MaxCalls
  BY <1>1, Entered DEF BeginRotate
<1>2. AdminOK("rotate: vault", new)
  BY <1>1 DEF BotInv, BotOK, AdminOK, GenSteps, EnableSteps
<1>3. RequestOK("rotate: vault", new)
  BY <1>2 DEF RequestOK, SendOK, CatchUpOK, BundleOK, JobSteps
<1>. QED
  BY <1>3, <1>4, QuietMoves DEF BeginRotate, GenSteps

-----------------------------------------------------------------------------
\* set_channel_enabled: what it reads.
LEMMA BeginEnableKeeps ==
    ASSUME BotInv, NEW r \in Request, BeginEnable(r)
    PROVE  BotInv'
<1>. DEFINE new == [row |-> bot]
<1>1. Moves(r, "enable", new) /\ calls <= calls' /\ calls' \in 0 .. MaxCalls
  BY Entered DEF BeginEnable
<1>2. AdminOK("enable", new)
  BY DEF BeginEnable, BotInv, BotOK, AdminOK, GenSteps
<1>3. RequestOK("enable", new)
  BY <1>2 DEF RequestOK, SendOK, CatchUpOK, BundleOK, JobSteps
<1>. QED
  BY <1>1, <1>3, QuietMoves DEF BeginEnable, GenSteps

\* What is left to publish.
LEMMA ReadMarksKeeps ==
    ASSUME BotInv, NEW r \in Request, ReadMarks(r)
    PROVE  BotInv'
<1>1. PICK row, left :
         /\ row = arg[r].row
         /\ left = (IF channel.cred THEN {} ELSE {"credential"})
                     \cup (IF channel.package THEN {} ELSE {"package"})
  OBVIOUS
<1>2. PICK new : new = [row |-> row, left |-> left]
  OBVIOUS
<1>3. /\ Moves(r, "publish", new) /\ pc[r] = "read marks"
      /\ calls <= calls' /\ calls' \in 0 .. MaxCalls
  BY <1>1, <1>2, WentOn DEF ReadMarks
<1>4. row \in BotRow /\ Initialized /\ Settled(row.ik)
  BY <1>1, <1>3 DEF BotInv, RequestsOK, RequestOK, AdminOK, EnableSteps
<1>5. AdminOK("publish", new)
  BY <1>2, <1>4 DEF AdminOK, GenSteps, EnableSteps
<1>6. RequestOK("publish", new)
  BY <1>5 DEF RequestOK, SendOK, CatchUpOK, BundleOK, JobSteps
<1>. QED
  BY <1>3, <1>6, QuietMoves DEF ReadMarks, GenSteps

-----------------------------------------------------------------------------
\* send_to_user, up to the message.
LEMMA BeginSendKeeps ==
    ASSUME BotInv, NEW r \in Request, BeginSend(r)
    PROVE  BotInv'
<1>. DEFINE new == [was |-> Initialized]
<1>1. Moves(r, "status", new) /\ calls' = calls + 1 /\ calls' \in 0 .. MaxCalls
  BY Entered DEF BeginSend
<1>. HIDE DEF new
<1>2. RequestOK("status", new)
  BY DEF RequestOK, AdminOK, SendOK, CatchUpOK, BundleOK, GenSteps, EnableSteps, JobSteps
<1>. QED
  BY <1>1, <1>2, QuietMoves DEF BeginSend, GenSteps

\* The bot is initialized or not.
LEMMA StatusKeeps ==
    ASSUME BotInv, NEW r \in Request, Status(r)
    PROVE  BotInv'
<1>1. PICK to, new : to = (IF Initialized THEN "store" ELSE "plain") /\ new = arg[r]
  OBVIOUS
<1>2. /\ Moves(r, to, new) /\ pc[r] = "status" /\ calls <= calls' /\ calls' \in 0 .. MaxCalls
      /\ UNCHANGED <<keyVars, botVars, dmVars, ghostVars>>
  BY <1>1, WentOn DEF Status
<1>3. to \in {"store", "plain"}
  BY <1>1
<1>4. RequestOK(to, new)
  BY <1>3 DEF RequestOK, AdminOK, SendOK, CatchUpOK, BundleOK, GenSteps, EnableSteps, JobSteps
<1>. QED
  BY <1>2, <1>3, <1>4, QuietMoves DEF GenSteps

\* The query failed.
LEMMA StatusFailsKeeps ==
    ASSUME BotInv, NEW r \in Request, StatusFails(r)
    PROVE  BotInv'
<1>1. PICK new : new = arg[r]
  OBVIOUS
<1>2. /\ Moves(r, "plain", new) /\ pc[r] = "status" /\ calls <= calls' /\ calls' \in 0 .. MaxCalls
      /\ UNCHANGED <<keyVars, botVars, dmVars, ghostVars>>
  BY <1>1, Constants DEF StatusFails, Moves, BotInv, RequestsOK, CountOK
<1>3. RequestOK("plain", new)
  BY DEF RequestOK, AdminOK, SendOK, CatchUpOK, BundleOK, GenSteps, EnableSteps, JobSteps
<1>. QED
  BY <1>2, <1>3, QuietMoves DEF GenSteps

\* A request that makes envelopes is not another kind of request.
LEMMA JobsOnly ==
    ASSUME NEW to \in JobSteps \cup {"devices"}, NEW a, SendOK(to, a)
    PROVE  RequestOK(to, a)
BY DEF RequestOK, AdminOK, CatchUpOK, BundleOK, GenSteps, EnableSteps, JobSteps

\* A job for each device that can be written to.
LEMMA FetchDevicesKeeps ==
    ASSUME BotInv, NEW r \in Request, FetchDevices(r)
    PROVE  BotInv'
<1>1. PICK m, todo : m = arg[r].mid
            /\ todo = {Job(m, d, identity[d].ver) : d \in {x \in Device : Usable(x)}}
  OBVIOUS
<1>2. PICK new : new = Jobs("send", m, todo)
  OBVIOUS
<1>3. /\ Moves(r, "next", new) /\ pc[r] = "devices" /\ calls <= calls' /\ calls' \in 0 .. MaxCalls
      /\ UNCHANGED <<keyVars, botVars, dmVars, ghostVars>>
  BY <1>1, <1>2, WentOn DEF FetchDevices
<1>4. m \in Pending
  BY <1>1, <1>3 DEF BotInv, RequestsOK, RequestOK, SendOK
<1>5. \A j \in todo : JobOK(j) /\ j.mid = m
  <2>1. ASSUME NEW d \in Device, Usable(d)
        PROVE  JobOK(Job(m, d, identity[d].ver)) /\ Job(m, d, identity[d].ver).mid = m
    <3>1. identity[d].ver \in Nat
      BY DEF BotInv, TablesOK, IdentityRow
    <3>. QED
      BY <1>4, <2>1, <3>1 DEF JobOK, Job, Usable
  <2>. QED
    BY <1>1, <2>1
<1>6. SendOK("next", new)
  BY <1>2, <1>4, <1>5 DEF SendOK, Jobs, JobSteps
<1>7. RequestOK("next", new)
  BY <1>6, JobsOnly DEF JobSteps
<1>. QED
  BY <1>3, <1>7, QuietMoves DEF GenSteps

\* What a request has while it makes envelopes.
LEMMA JobFacts ==
    ASSUME BotInv, NEW r \in Request, pc[r] \in JobSteps
    PROVE  /\ arg[r] = [op |-> arg[r].op, mid |-> arg[r].mid, jobs |-> arg[r].jobs,
                        job |-> arg[r].job, otp |-> arg[r].otp, tries |-> arg[r].tries,
                        added |-> arg[r].added]
           /\ \A j \in arg[r].jobs : JobOK(j) /\ (arg[r].op = "send" => j.mid = arg[r].mid)
           /\ arg[r].op = "send" =>
                arg[r].mid \in Pending /\ (arg[r].added => \E e \in envelope : e.mid = arg[r].mid)
BY DEF BotInv, RequestsOK, RequestOK, SendOK

\* A wrap takes no key: it drops the job, goes on to append, or to the claim.
LEMMA WrapKeeps ==
    ASSUME BotInv, NEW r \in Request, NEW j, NEW p \in prekey[j.dev] \cup {NoOtp}, Wrap(r, j, p)
    PROVE  BotInv'
<1>. DEFINE a == [arg[r] EXCEPT !.job = j, !.otp = p]
<1>1. pc[r] = "next" /\ pc[r] \in JobSteps /\ j \in arg[r].jobs
  BY DEF Wrap, JobSteps
<1>2. /\ a = [op |-> arg[r].op, mid |-> arg[r].mid, jobs |-> arg[r].jobs, job |-> j, otp |-> p,
              tries |-> arg[r].tries, added |-> arg[r].added]
      /\ UNCHANGED <<keyVars, botVars, dmVars, ghostVars>>
  <2>1. PICK b : b = arg[r]
    OBVIOUS
  <2>2. b = [op |-> b.op, mid |-> b.mid, jobs |-> b.jobs, job |-> b.job, otp |-> b.otp,
             tries |-> b.tries, added |-> b.added]
    BY <1>1, <2>1, JobFacts
  <2>3. [b EXCEPT !.job = j, !.otp = p]
          = [op |-> b.op, mid |-> b.mid, jobs |-> b.jobs, job |-> j, otp |-> p,
             tries |-> b.tries, added |-> b.added]
    <3>1. PICK op, mid, jobs, job, otp, tries, added :
             b = [op |-> op, mid |-> mid, jobs |-> jobs, job |-> job, otp |-> otp,
                  tries |-> tries, added |-> added]
      BY <2>2
    <3>2. b.op = op /\ b.mid = mid /\ b.jobs = jobs /\ b.tries = tries /\ b.added = added
      BY <3>1
    <3>3. [b EXCEPT !.job = j, !.otp = p]
            = [op |-> op, mid |-> mid, jobs |-> jobs, job |-> j, otp |-> p,
               tries |-> tries, added |-> added]
      <4>1. PICK c : c = [b EXCEPT !.job = j]
        OBVIOUS
      <4>2. c = [op |-> op, mid |-> mid, jobs |-> jobs, job |-> j, otp |-> otp,
                 tries |-> tries, added |-> added]
        BY <3>1, <4>1
      <4>3. [c EXCEPT !.otp = p]
              = [op |-> op, mid |-> mid, jobs |-> jobs, job |-> j, otp |-> p,
                 tries |-> tries, added |-> added]
        BY <4>2
      <4>. QED
        BY <4>1, <4>3
    <3>. QED
      BY <3>2, <3>3
  <2>. QED
    BY <2>1, <2>3 DEF Wrap
<1>3. JobOK(j) /\ j.dev \in Device
  BY <1>1, JobFacts DEF JobOK, Person
<1>7. /\ \A x \in arg[r].jobs : JobOK(x) /\ (arg[r].op = "send" => x.mid = arg[r].mid)
      /\ arg[r].op = "send" =>
           arg[r].mid \in Pending /\ (arg[r].added => \E e \in envelope : e.mid = arg[r].mid)
  BY <1>1, JobFacts
<1>4. CASE ~CanWrap(p)
  <2>1. PICK new : new = DropJob(a)
    OBVIOUS
  <2>2. Moves(r, "next", new) /\ calls <= calls' /\ calls' \in 0 .. MaxCalls
    BY <1>4, <2>1, WentOn DEF Wrap
  <2>3. new = [op |-> arg[r].op, mid |-> arg[r].mid, jobs |-> arg[r].jobs \ {j}, job |-> j,
               otp |-> p, tries |-> 0, added |-> arg[r].added]
    BY <1>2, <2>1 DEF DropJob
  <2>4. SendOK("next", new)
    BY <1>1, <1>7, <2>3 DEF SendOK, JobSteps
  <2>. QED
    BY <1>2, <2>2, <2>4, JobsOnly, QuietMoves DEF GenSteps, JobSteps
<1>5. CASE CanWrap(p) /\ p = NoOtp
  <2>1. PICK new : new = a
    OBVIOUS
  <2>2. Moves(r, "append", new) /\ calls <= calls' /\ calls' \in 0 .. MaxCalls
    BY <1>5, <2>1, WentOn DEF Wrap
  <2>4. new.otp = NoOtp
    BY <1>2, <1>5, <2>1
  <2>5. /\ new = [op |-> new.op, mid |-> new.mid, jobs |-> new.jobs, job |-> new.job,
                  otp |-> new.otp, tries |-> new.tries, added |-> new.added]
        /\ new.jobs = arg[r].jobs /\ new.op = arg[r].op /\ new.mid = arg[r].mid
        /\ new.added = arg[r].added /\ new.job \in new.jobs
    BY <1>1, <1>2, <2>1
  <2>3. SendOK("append", new)
    BY <1>7, <2>4, <2>5 DEF SendOK
  <2>. QED
    BY <1>2, <2>2, <2>3, <2>4, JobsOnly, QuietMoves DEF GenSteps, JobSteps
<1>6. CASE CanWrap(p) /\ p # NoOtp
  <2>1. PICK new : new = a
    OBVIOUS
  <2>2. Moves(r, "claim", new) /\ calls <= calls' /\ calls' \in 0 .. MaxCalls
    BY <1>6, <2>1, WentOn DEF Wrap
  <2>3. /\ p \in prekey[j.dev] /\ p.row \in 1 .. made /\ p.good
        /\ \A q \in prekey[j.dev] : SameRow(q, p) => q.good
    BY <1>3, <1>6 DEF CanWrap, BotInv, TablesOK
  <2>5. /\ new = [op |-> new.op, mid |-> new.mid, jobs |-> new.jobs, job |-> new.job,
                  otp |-> new.otp, tries |-> new.tries, added |-> new.added]
        /\ new.jobs = arg[r].jobs /\ new.op = arg[r].op /\ new.mid = arg[r].mid
        /\ new.added = arg[r].added /\ new.job \in new.jobs /\ new.job = j /\ new.otp = p
    BY <1>1, <1>2, <2>1
  <2>6. /\ new.otp # NoOtp /\ new.otp.row \in 1 .. made
        /\ \A q \in prekey[new.job.dev] : SameRow(q, new.otp) => q.good
    BY <1>6, <2>3, <2>5
  <2>4. SendOK("claim", new)
    BY <1>7, <2>5, <2>6 DEF SendOK
  <2>. QED
    BY <1>2, <2>2, <2>4, JobsOnly, QuietMoves DEF GenSteps, JobSteps
<1>. QED
  BY <1>4, <1>5, <1>6

-----------------------------------------------------------------------------
\* catch_up_pending_sends.
LEMMA CatchUpLasts ==
    ASSUME BotInv, NEW r \in Request, CatchUp(r)
    PROVE  BotInv'
<1>1. PICK dev, ver, mids : /\ dev = arg[r].dev /\ ver = arg[r].ver
                            /\ mids = Waiting(secret, dev, ver)
  OBVIOUS
<1>2. CASE mids = {}
  BY <1>1, <1>2, LeaveKeeps DEF CatchUp
<1>3. CASE mids # {}
  <2>1. PICK new : new = [dev |-> dev, ver |-> ver, mids |-> mids]
    OBVIOUS
  <2>2. /\ Moves(r, "device", new) /\ pc[r] = "catch up"
        /\ calls <= calls' /\ calls' \in 0 .. MaxCalls
        /\ UNCHANGED <<keyVars, botVars, dmVars, ghostVars>>
    BY <1>1, <1>3, <2>1, WentOn DEF CatchUp
  <2>3. dev \in Person /\ ver \in Nat /\ ver <= identity[dev].ver
    BY <1>1, <2>2 DEF BotInv, RequestsOK, RequestOK, CatchUpOK
  <2>4. mids \subseteq Pending
    BY <1>1 DEF Waiting, BotInv, MessagesOK
  <2>5. CatchUpOK("device", new)
    BY <2>1, <2>3, <2>4 DEF CatchUpOK
  <2>6. RequestOK("device", new)
    BY <2>5 DEF RequestOK, AdminOK, SendOK, BundleOK, GenSteps, EnableSteps, JobSteps
  <2>. QED
    BY <2>2, <2>6, QuietMoves DEF GenSteps
<1>. QED
  BY <1>2, <1>3

\* The jobs of the messages that wait, under the version published.
LEMMA FetchDeviceKeeps ==
    ASSUME BotInv, NEW r \in Request, FetchDevice(r)
    PROVE  BotInv'
<1>1. PICK a : a = arg[r]
  OBVIOUS
<1>2. CASE ~Usable(a.dev)
  BY <1>1, <1>2, LeaveKeeps DEF FetchDevice
<1>3. CASE Usable(a.dev)
  <2>1. PICK todo, new : /\ todo = {Job(m, a.dev, a.ver) : m \in a.mids}
                         /\ new = Jobs("publish", 0, todo)
    OBVIOUS
  <2>2. /\ Moves(r, "next", new) /\ pc[r] = "device"
        /\ calls <= calls' /\ calls' \in 0 .. MaxCalls
        /\ UNCHANGED <<keyVars, botVars, dmVars, ghostVars>>
    BY <1>1, <1>3, <2>1, WentOn DEF FetchDevice
  <2>3. a.dev \in Person /\ a.ver <= identity[a.dev].ver /\ a.mids \subseteq Pending
    BY <1>1, <2>2 DEF BotInv, RequestsOK, RequestOK, CatchUpOK
  <2>4. \A j \in todo : JobOK(j)
    BY <2>1, <2>3 DEF JobOK, Job
  <2>5. SendOK("next", new)
    BY <2>1, <2>4 DEF SendOK, Jobs, JobSteps
  <2>6. RequestOK("next", new)
    BY <2>5, JobsOnly DEF JobSteps
  <2>. QED
    BY <2>2, <2>6, QuietMoves DEF GenSteps
<1>. QED
  BY <1>2, <1>3

-----------------------------------------------------------------------------
\* get_bundle and the inbound messages, up to what they write.
LEMMA BundlesOnly ==
    ASSUME NEW to \in {"bundle", "consume", "bundled", "inbound", "vault", "persist"}, NEW a,
           BundleOK(to, a)
    PROVE  RequestOK(to, a)
BY DEF RequestOK, AdminOK, CatchUpOK, SendOK, GenSteps, EnableSteps, JobSteps

\* get_bundle reads the identity, ...
LEMMA BeginBundleKeeps ==
    ASSUME BotInv, NEW r \in Request, NEW d \in Device, BeginBundle(r, d)
    PROVE  BotInv'
<1>1. PICK new : new = [dev |-> d, ik |-> identity[d].ik, spk |-> identity[d].spk]
  OBVIOUS
<1>2. /\ Moves(r, "bundle", new) /\ calls <= calls' /\ calls' \in 0 .. MaxCalls
      /\ UNCHANGED <<keyVars, botVars, dmVars, ghostVars>>
  BY <1>1, Entered DEF BeginBundle
<1>3. BundleOK("bundle", new)
  BY <1>1 DEF BundleOK
<1>. QED
  BY <1>2, <1>3, BundlesOnly, QuietMoves DEF GenSteps

\* ... and the next one-time prekey.
LEMMA BundlePrekeyKeeps ==
    ASSUME BotInv, NEW r \in Request, NEW p, BundlePrekey(r, p)
    PROVE  BotInv'
<1>1. PICK dev, new : /\ dev = arg[r].dev
                      /\ new = [dev |-> dev, ik |-> arg[r].ik, spk |-> arg[r].spk, otp |-> p]
  OBVIOUS
<1>2. PICK to : to = IF p = NoOtp THEN "bundled" ELSE "consume"
  OBVIOUS
<1>3. /\ Moves(r, to, new) /\ pc[r] = "bundle" /\ calls <= calls' /\ calls' \in 0 .. MaxCalls
      /\ UNCHANGED <<keyVars, botVars, dmVars, ghostVars>>
  BY <1>1, <1>2, WentOn DEF BundlePrekey
<1>4. dev \in Device
  BY <1>1, <1>3 DEF BotInv, RequestsOK, RequestOK, BundleOK
<1>5. new.dev = dev /\ new.otp = p
  BY <1>1
<1>6. BundleOK(to, new)
  <2>1. CASE p = NoOtp
    BY <1>2, <1>4, <1>5, <2>1 DEF BundleOK
  <2>2. CASE p # NoOtp /\ dev = bd
    <3>1. p \in prekey[bd]
      BY <1>1, <2>2 DEF BundlePrekey, IsNext, Fresh
    <3>2. Settled(p.pub) /\ InItsRow(p)
      BY <3>1 DEF BotInv, TablesOK, InItsRow
    <3>. QED
      BY <1>2, <1>4, <1>5, <2>2, <3>2 DEF BundleOK
  <2>3. CASE p # NoOtp /\ dev # bd
    BY <1>2, <1>4, <1>5, <2>3 DEF BundleOK
  <2>. QED
    BY <2>1, <2>2, <2>3
<1>7. to \in {"bundled", "consume"}
  BY <1>2
<1>. QED
  BY <1>3, <1>6, <1>7, BundlesOnly, QuietMoves DEF GenSteps

\* The newest envelope: its key is on offer no more.
LEMMA ReadEnvelopeKeeps ==
    ASSUME BotInv, NEW r \in Request, NEW e, ReadEnvelope(r, e)
    PROVE  BotInv'
<1>1. PICK new : new = [env |-> e]
  OBVIOUS
<1>2. /\ Moves(r, "vault", new) /\ calls <= calls' /\ calls' \in 0 .. MaxCalls
      /\ UNCHANGED <<keyVars, botVars, dmVars, ghostVars>>
  BY <1>1, WentOn DEF ReadEnvelope
<1>3. e \in envelope /\ e.dev = bd
  BY DEF ReadEnvelope
<1>4. e.otp # NoOtp => Settled(e.otp.pub) /\ Spent(e.otp)
  BY <1>3 DEF BotInv, MessagesOK
<1>5. BundleOK("vault", new)
  BY <1>1, <1>4 DEF BundleOK
<1>. QED
  BY <1>2, <1>5, BundlesOnly, QuietMoves DEF GenSteps

\* The vault it opens with.
LEMMA LoadVaultKeeps ==
    ASSUME BotInv, NEW r \in Request, LoadVault(r)
    PROVE  BotInv'
<1>1. PICK e : e = arg[r].env
  OBVIOUS
<1>2. CASE ~(Opens(e, bot.vault) /\ e.otp # NoOtp)
  BY <1>1, <1>2, LeaveKeeps DEF LoadVault
<1>3. CASE Opens(e, bot.vault) /\ e.otp # NoOtp
  <2>1. PICK new : new = [env |-> e, vault |-> bot.vault]
    OBVIOUS
  <2>2. /\ Moves(r, "persist", new) /\ pc[r] = "vault"
        /\ calls <= calls' /\ calls' \in 0 .. MaxCalls
        /\ UNCHANGED <<keyVars, botVars, dmVars, ghostVars>>
    BY <1>1, <1>3, <2>1, WentOn DEF LoadVault
  <2>3. Settled(e.otp.pub) /\ Spent(e.otp)
    BY <1>1, <1>3, <2>2 DEF BotInv, RequestsOK, RequestOK, BundleOK
  <2>4. bot.vault \in VaultRow
    BY DEF BotInv, BotOK, BotRow
  <2>5. BundleOK("persist", new)
    BY <1>3, <2>1, <2>3, <2>4 DEF BundleOK, Opens
  <2>. QED
    BY <2>2, <2>5, BundlesOnly, QuietMoves DEF GenSteps
<1>. QED
  BY <1>2, <1>3

-----------------------------------------------------------------------------
\* Requests that end with nothing to write.
LEMMA FinishEnableKeeps ==
    ASSUME BotInv, NEW r \in Request, FinishEnable(r)
    PROVE  BotInv'
BY LeaveKeeps DEF FinishEnable

\* Every message has been caught up with.
LEMMA FinishCatchUpKeeps ==
    ASSUME BotInv, NEW r \in Request, FinishCatchUp(r)
    PROVE  BotInv'
BY LeaveKeeps DEF FinishCatchUp

\* The bundle of another person.
LEMMA FinishBundleKeeps ==
    ASSUME BotInv, NEW r \in Request, FinishBundle(r)
    PROVE  BotInv'
BY LeaveKeeps DEF FinishBundle

-----------------------------------------------------------------------------
\* Steps that change what is sent, and no key.
LEMMA MessageGrows ==
    ASSUME BotInv, NEW r \in Request, NEW to, NEW new, Moves(r, to, new), to \notin GenSteps,
           UNCHANGED <<keyVars, botVars, stale>>,
           Pending \subseteq Pending', envelope \subseteq envelope'
    PROVE  Grows
<1>1. made \in Nat /\ made' = made
  BY MadeIsNat DEF BotInv, keyVars
<1>2. \A g : Settled(g) => Settled(g)'
  BY <1>1, SettledKeeps DEF BotInv
<1>3. Initialized => Initialized'
  BY DEF Initialized, botVars
<1>4. \A d \in Person : identity[d].ver <= identity'[d].ver
  BY DEF BotInv, TablesOK, Person, IdentityRow, keyVars
<1>. QED
  BY <1>1, <1>2, <1>3, <1>4 DEF Grows, SameRow, botVars, keyVars

\* The parts of the invariant about keys last.
LEMMA MessageMoves ==
    ASSUME BotInv, NEW r \in Request, NEW to, NEW new, Moves(r, to, new), to \notin GenSteps,
           UNCHANGED <<keyVars, botVars, stale, opened>>,
           Pending \subseteq Pending', envelope \subseteq envelope',
           RequestOK(to, new)', to = "append" => new.otp = NoOtp, LeavesClaims(r),
           CountOK', MessagesOK'
    PROVE  BotInv'
<1>1. Grows
  BY MessageGrows
<1>2. made \in Nat /\ made' \in Nat /\ made' \in Generation
  BY MadeIsNat DEF BotInv, keyVars
<1>3. identity \in [Device -> IdentityRow] /\ identity' \in [Device -> IdentityRow]
  BY DEF BotInv, TablesOK, keyVars
<1>4. Owns(to, new, r)
  BY DEF Owns
<1>5. RequestsOK'
  BY <1>1, <1>2, <1>3, <1>4, RequestsKeep DEF BotInv
<1>6. TablesOK'
  BY <1>1, <1>2, TablesKeep DEF BotInv, keyVars
<1>7. BotOK'
  <2>1. identity'[bd] = identity[bd] /\ Fresh(bd)' \subseteq Fresh(bd)
    BY DEF Fresh, keyVars
  <2>. QED
    BY <1>1, <2>1, BotKeeps DEF BotInv, BotOK, botVars
<1>. QED
  BY <1>5, <1>6, <1>7 DEF BotInv

\* A message more.
LEMMA StoredMessages ==
    ASSUME BotInv, NEW plain \in BOOLEAN, NEW was,
           NewMid \notin DOMAIN sent, DOMAIN sent' = DOMAIN sent \cup {NewMid},
           sent'[NewMid] = [plain |-> plain, was |-> was],
           \A m \in DOMAIN sent : sent'[m] = sent[m],
           UNCHANGED <<envelope, secret, prekey, given>>,
           answered' = answered \/ (plain /\ answered' = answered \cup {NewMid}),
           Grows
    PROVE  MessagesOK' /\ Pending \subseteq Pending' /\ (~plain => NewMid \in Pending')
<1>1. Pending \subseteq Pending' /\ (~plain => NewMid \in Pending')
  BY DEF Pending
<1>2. \A e \in envelope' : EnvelopeOK(e)'
  BY EnvelopeKeeps DEF BotInv, MessagesOK, EnvelopeOK
<1>3. KeyClaimedOnce' /\ EnvelopeNotOlder' /\ FailedWrapBurnsNothing'
  BY DEF BotInv, MessagesOK, EnvelopesReadable, KeyClaimedOnce, EnvelopeNotOlder,
         FailedWrapBurnsNothing
<1>4. answered \subseteq DOMAIN sent /\ secret \subseteq Pending
  BY DEF BotInv, MessagesOK
<1>5. AnsweredIsReadable'
  <2>1. ASSUME NEW m \in answered
        PROVE  sent'[m].plain \/ m \in secret \/ \E e \in envelope : e.mid = m
    BY <1>4 DEF BotInv, MessagesOK, EnvelopesReadable, AnsweredIsReadable
  <2>2. plain => sent'[NewMid].plain
    OBVIOUS
  <2>. QED
    BY <2>1, <2>2 DEF AnsweredIsReadable
<1>6. secret' \subseteq Pending' /\ answered' \subseteq DOMAIN sent'
  BY <1>1, <1>4
<1>. QED
  BY <1>1, <1>2, <1>3, <1>5, <1>6 DEF MessagesOK, EnvelopesReadable, EnvelopeOK

\* The message goes out as it is.
LEMMA SendPlainKeeps ==
    ASSUME BotInv, NEW r \in Request, SendPlain(r)
    PROVE  BotInv'
<1>1. PICK to, new : to = "idle" /\ new = NoArg
  OBVIOUS
<1>2. Moves(r, to, new) /\ pc[r] = "plain" /\ calls' = calls
  BY <1>1, WentOn DEF SendPlain, Leave
<1>3. PICK was : StoreSent(TRUE, was)
  BY DEF SendPlain
<1>4. /\ CountOK' /\ NewMid \notin DOMAIN sent
      /\ DOMAIN sent' = DOMAIN sent \cup {NewMid}
      /\ sent'[NewMid] = [plain |-> TRUE, was |-> was]
      /\ \A m \in DOMAIN sent : sent'[m] = sent[m]
  BY <1>1, <1>2, <1>3, StoreKeeps DEF BotInv
<1>5. Pending \subseteq Pending'
  BY <1>4 DEF Pending
<1>6. /\ UNCHANGED <<keyVars, botVars, stale, opened>>
      /\ UNCHANGED <<envelope, secret, prekey, given>>
      /\ answered' = answered \cup {NewMid}
  BY DEF SendPlain, ghostVars, keyVars
<1>7. Grows
  BY <1>1, <1>2, <1>5, <1>6, MessageGrows DEF GenSteps
<1>8. MessagesOK'
  BY <1>4, <1>6, <1>7, StoredMessages
<1>9. RequestOK(to, new)' /\ LeavesClaims(r)
  BY <1>1, <1>6, Idle DEF LeavesClaims
<1>. QED
  BY <1>1, <1>2, <1>4, <1>5, <1>6, <1>8, <1>9, MessageMoves DEF GenSteps

\* The message is a pending one.
LEMMA StoreEncryptedKeeps ==
    ASSUME BotInv, NEW r \in Request, StoreEncrypted(r)
    PROVE  BotInv'
<1>1. PICK to, new : to = "devices" /\ new = [mid |-> NewMid]
  OBVIOUS
<1>2. Moves(r, to, new) /\ pc[r] = "store" /\ calls' = calls
  BY <1>1, WentOn DEF StoreEncrypted
<1>3. PICK was : StoreSent(FALSE, was)
  BY DEF StoreEncrypted
<1>4. /\ CountOK' /\ NewMid \notin DOMAIN sent
      /\ DOMAIN sent' = DOMAIN sent \cup {NewMid}
      /\ sent'[NewMid] = [plain |-> FALSE, was |-> was]
      /\ \A m \in DOMAIN sent : sent'[m] = sent[m]
  BY <1>1, <1>2, <1>3, StoreKeeps DEF BotInv
<1>5. Pending \subseteq Pending'
  BY <1>4 DEF Pending
<1>6. /\ UNCHANGED <<keyVars, botVars, stale, opened>>
      /\ UNCHANGED <<envelope, secret, prekey, given>>
      /\ answered' = answered
  BY DEF StoreEncrypted, ghostVars, keyVars
<1>7. Grows
  BY <1>1, <1>2, <1>5, <1>6, MessageGrows DEF GenSteps
<1>8. MessagesOK' /\ NewMid \in Pending'
  BY <1>4, <1>6, <1>7, StoredMessages
<1>9. RequestOK(to, new)'
  <2>1. new.mid \in Pending'
    BY <1>1, <1>8
  <2>. QED
    BY <1>1, <2>1 DEF RequestOK, AdminOK, SendOK, CatchUpOK, BundleOK,
       GenSteps, EnableSteps, JobSteps
<1>10. LeavesClaims(r)
  BY <1>6 DEF LeavesClaims
<1>. QED
  BY <1>1, <1>2, <1>4, <1>5, <1>6, <1>8, <1>9, <1>10, MessageMoves DEF GenSteps

\* Without an envelope the content key is kept.
LEMMA FinishSendKeeps ==
    ASSUME BotInv, NEW r \in Request, FinishSend(r)
    PROVE  BotInv'
<1>1. PICK to, new, m : to = "idle" /\ new = NoArg /\ m = arg[r].mid
  OBVIOUS
<1>2. /\ Moves(r, to, new) /\ pc[r] = "next" /\ arg[r].op = "send"
      /\ calls <= calls' /\ calls' \in 0 .. MaxCalls
  BY <1>1, WentOn DEF FinishSend, Leave
<1>3. /\ UNCHANGED <<keyVars, botVars, stale, opened>>
      /\ UNCHANGED <<sent, envelope, prekey, given>>
      /\ secret' = (IF arg[r].added THEN secret ELSE secret \cup {m})
      /\ answered' = answered \cup {m}
  BY <1>1 DEF FinishSend, ghostVars, keyVars
<1>4. UNCHANGED Pending
  BY <1>3 DEF Pending
<1>5. Grows
  BY <1>1, <1>2, <1>3, <1>4, MessageGrows DEF GenSteps
<1>6. m \in Pending /\ (arg[r].added => \E e \in envelope : e.mid = m)
  BY <1>1, <1>2, JobFacts DEF JobSteps
<1>7. CountOK'
  BY <1>1, <1>2, <1>3, CountKeeps DEF BotInv
<1>8. MessagesOK'
  <2>1. \A e \in envelope' : EnvelopeOK(e)'
    BY <1>3, <1>5, EnvelopeKeeps DEF BotInv, MessagesOK, EnvelopeOK
  <2>2. KeyClaimedOnce' /\ EnvelopeNotOlder' /\ FailedWrapBurnsNothing'
    BY <1>3 DEF BotInv, MessagesOK, EnvelopesReadable, KeyClaimedOnce, EnvelopeNotOlder,
           FailedWrapBurnsNothing
  <2>3. AnsweredIsReadable'
    BY <1>3, <1>6 DEF BotInv, MessagesOK, EnvelopesReadable, AnsweredIsReadable
  <2>4. secret' \subseteq Pending' /\ answered' \subseteq DOMAIN sent'
    BY <1>3, <1>4, <1>6 DEF BotInv, MessagesOK, Pending
  <2>. QED
    BY <2>1, <2>2, <2>3, <2>4 DEF MessagesOK, EnvelopesReadable, EnvelopeOK
<1>9. RequestOK(to, new)' /\ LeavesClaims(r)
  BY <1>1, <1>3, Idle DEF LeavesClaims
<1>. QED
  BY <1>1, <1>2, <1>3, <1>4, <1>7, <1>8, <1>9, MessageMoves DEF GenSteps

-----------------------------------------------------------------------------
\* An envelope more.
LEMMA AppendedMessages ==
    ASSUME BotInv, Grows, NEW e, Append(e), EnvelopeOK(e),
           UNCHANGED <<sent, secret, answered, prekey, given>>,
           e.dev \in Person => e.ver <= e.at,
           e.dev \in Person /\ e.otp # NoOtp => \A f \in envelope :
               f.dev = e.dev /\ f.otp # NoOtp => ~SameRow(f.otp, e.otp)
    PROVE  MessagesOK'
<1>1. UNCHANGED Pending
  BY DEF Pending
<1>2. envelope' = envelope \/ envelope' = envelope \cup {e}
  BY DEF Append
<1>3. \A f \in envelope' : EnvelopeOK(f)'
  <2>1. \A f : EnvelopeOK(f) => EnvelopeOK(f)'
    BY EnvelopeKeeps
  <2>2. \A f \in envelope : EnvelopeOK(f)
    BY DEF BotInv, MessagesOK, EnvelopeOK
  <2>. QED
    BY <1>2, <2>1, <2>2
<1>4. KeyClaimedOnce'
  <2>1. \A f, g \in {x \in envelope : x.dev \in Person /\ x.otp # NoOtp} :
            f.dev = g.dev /\ SameRow(f.otp, g.otp) => f = g
    BY DEF BotInv, MessagesOK, EnvelopesReadable, KeyClaimedOnce
  <2>2. \A f, g \in {x \in envelope' : x.dev \in Person /\ x.otp # NoOtp} :
            f.dev = g.dev /\ SameRow(f.otp, g.otp) => f = g
    BY <1>2, <2>1 DEF SameRow
  <2>. QED
    BY <2>2 DEF KeyClaimedOnce
<1>5. EnvelopeNotOlder'
  BY <1>2 DEF BotInv, MessagesOK, EnvelopesReadable, EnvelopeNotOlder
<1>6. FailedWrapBurnsNothing'
  BY DEF BotInv, MessagesOK, EnvelopesReadable, FailedWrapBurnsNothing
<1>7. AnsweredIsReadable'
  BY <1>2 DEF BotInv, MessagesOK, EnvelopesReadable, AnsweredIsReadable
<1>8. secret' \subseteq Pending' /\ answered' \subseteq DOMAIN sent'
  BY <1>1 DEF BotInv, MessagesOK
<1>. QED
  BY <1>3, <1>4, <1>5, <1>6, <1>7, <1>8 DEF MessagesOK, EnvelopesReadable, EnvelopeOK

\* An envelope to a person: its prekey is the request's own.
LEMMA AppendEnvelopeKeeps ==
    ASSUME BotInv, NEW r \in Request, AppendEnvelope(r)
    PROVE  BotInv'
<1>1. PICK a, e : a = arg[r] /\ e = EnvelopeOf(a)
  OBVIOUS
<1>2. PICK new : new = [DropJob(a) EXCEPT !.added = @ \/ ~IsStored(e)]
  OBVIOUS
<1>3. /\ Moves(r, "next", new) /\ pc[r] = "append" /\ pc[r] \in JobSteps
      /\ calls <= calls' /\ calls' \in 0 .. MaxCalls
  BY <1>1, <1>2, WentOn DEF AppendEnvelope, JobSteps
<1>4. /\ UNCHANGED <<keyVars, botVars, stale, opened>>
      /\ UNCHANGED <<sent, secret, answered, prekey, given>>
      /\ Append(e)
  BY <1>1 DEF AppendEnvelope, ghostVars, keyVars
<1>5. envelope \subseteq envelope' /\ (~IsStored(e) => e \in envelope')
  BY <1>4 DEF Append
<1>6. UNCHANGED Pending
  BY <1>4 DEF Pending
<1>7. Grows
  BY <1>3, <1>4, <1>5, <1>6, MessageGrows DEF GenSteps
<1>8. /\ a = [op |-> a.op, mid |-> a.mid, jobs |-> a.jobs, job |-> a.job, otp |-> a.otp,
              tries |-> a.tries, added |-> a.added]
      /\ \A j \in a.jobs : JobOK(j) /\ (a.op = "send" => j.mid = a.mid)
      /\ a.op = "send" => a.mid \in Pending /\ (a.added => \E f \in envelope : f.mid = a.mid)
      /\ a.job \in a.jobs
      /\ a.otp # NoOtp =>
           /\ Taken(a.job.dev, a.otp)
           /\ \A f \in envelope : f.dev = a.job.dev /\ f.otp # NoOtp => ~SameRow(f.otp, a.otp)
  BY <1>1, <1>3 DEF BotInv, RequestsOK, RequestOK, SendOK
<1>9. /\ e.mid = a.job.mid /\ e.dev = a.job.dev /\ e.ver = a.job.ver /\ e.at = a.job.at
      /\ e.otp = a.otp
  BY <1>1 DEF EnvelopeOf
<1>10. a.job.dev \in Person /\ a.job.mid \in Pending /\ a.job.ver <= a.job.at
  BY <1>8 DEF JobOK
<1>11. EnvelopeOK(e)
  BY <1>8, <1>9, <1>10 DEF EnvelopeOK, Person
<1>12. MessagesOK'
  BY <1>4, <1>7, <1>8, <1>9, <1>10, <1>11, AppendedMessages
<1>13. new = [op |-> a.op, mid |-> a.mid, jobs |-> a.jobs \ {a.job}, job |-> a.job, otp |-> a.otp,
              tries |-> 0, added |-> a.added \/ ~IsStored(e)]
  <2>1. PICK op, mid, jobs, job, otp, tries, added :
           a = [op |-> op, mid |-> mid, jobs |-> jobs, job |-> job, otp |-> otp,
                tries |-> tries, added |-> added]
    BY <1>8
  <2>2. PICK b : b = DropJob(a)
    OBVIOUS
  <2>3. b = [op |-> op, mid |-> mid, jobs |-> jobs \ {job}, job |-> job, otp |-> otp,
             tries |-> 0, added |-> added]
    BY <2>1, <2>2 DEF DropJob
  <2>4. new = [b EXCEPT !.added = b.added \/ ~IsStored(e)]
    BY <1>2, <2>2
  <2>5. new = [op |-> op, mid |-> mid, jobs |-> jobs \ {job}, job |-> job, otp |-> otp,
               tries |-> 0, added |-> added \/ ~IsStored(e)]
    BY <2>3, <2>4
  <2>. QED
    BY <2>1, <2>5
<1>14. RequestOK("next", new)'
  <2>1. new = [op |-> new.op, mid |-> new.mid, jobs |-> new.jobs, job |-> new.job,
               otp |-> new.otp, tries |-> new.tries, added |-> new.added]
        /\ new.op = a.op /\ new.mid = a.mid /\ new.jobs = a.jobs \ {a.job}
        /\ (new.added => a.added \/ ~IsStored(e))
    BY <1>13
  <2>2. \A j : JobOK(j) => JobOK(j)'
    BY <1>6 DEF JobOK
  <2>3. \A j \in new.jobs : JobOK(j)' /\ (new.op = "send" => j.mid = new.mid)
    BY <1>8, <2>1, <2>2
  <2>4. new.op = "send" =>
          new.mid \in Pending' /\ (new.added => \E f \in envelope' : f.mid = new.mid)
    BY <1>5, <1>6, <1>8, <1>9, <2>1
  <2>5. SendOK("next", new)'
    BY <2>1, <2>3, <2>4 DEF SendOK
  <2>. QED
    BY <2>5 DEF RequestOK, AdminOK, CatchUpOK, BundleOK, GenSteps, EnableSteps
<1>15. LeavesClaims(r)
  <2>1. ASSUME NEW q \in Request \ {r}, pc[q] = "append", arg[q].otp # NoOtp,
               e.dev = arg[q].job.dev, e.otp # NoOtp
        PROVE  ~SameRow(e.otp, arg[q].otp)
    BY <1>1, <1>3, <1>9, <2>1 DEF BotInv, RequestsOK, Apart
  <2>2. envelope' \ envelope \subseteq {e}
    BY <1>4 DEF Append
  <2>. QED
    BY <2>1, <2>2 DEF LeavesClaims
<1>16. CountOK'
  BY <1>3, <1>4, CountKeeps DEF BotInv
<1>. QED
  BY <1>3, <1>4, <1>5, <1>6, <1>12, <1>14, <1>15, <1>16, MessageMoves DEF GenSteps

\* An envelope to the bot: its prekey has been handed out.
LEMMA PostEnvelopeKeeps ==
    ASSUME BotInv, NEW r \in Request, NEW m \in Inbound, PostEnvelope(r, m)
    PROVE  BotInv'
<1>1. PICK a, e : /\ a = arg[r]
                  /\ e = [mid |-> m, dev |-> bd, ver |-> identity[bd].ver, at |-> identity[bd].ver,
                          ik |-> a.ik, spk |-> a.spk, otp |-> a.otp]
  OBVIOUS
<1>2. PICK to, new : /\ to = (IF IsStored(e) THEN "idle" ELSE "inbound")
                     /\ new = (IF IsStored(e) THEN NoArg ELSE [mid |-> m])
  OBVIOUS
<1>3. /\ Moves(r, to, new) /\ pc[r] = "bundled" /\ a.dev = bd
      /\ calls <= calls' /\ calls' \in 0 .. MaxCalls
  BY <1>1, <1>2, WentOn DEF PostEnvelope, Leave
<1>4. /\ UNCHANGED <<keyVars, botVars, stale, opened>>
      /\ UNCHANGED <<sent, secret, answered, prekey, given>>
      /\ Append(e)
  BY <1>1 DEF PostEnvelope, ghostVars, keyVars
<1>5. envelope \subseteq envelope' /\ UNCHANGED Pending
  BY <1>4 DEF Append, Pending
<1>6. to \in {"idle", "inbound"}
  BY <1>2
<1>7. Grows
  BY <1>3, <1>4, <1>5, <1>6, MessageGrows DEF GenSteps
<1>8. a.otp # NoOtp => Settled(a.otp.pub) /\ Spent(a.otp)
  BY <1>1, <1>3 DEF BotInv, RequestsOK, RequestOK, BundleOK
<1>9. e.mid = m /\ e.dev = bd /\ e.otp = a.otp /\ bd \notin Person
  BY <1>1 DEF Person
<1>10. EnvelopeOK(e)
  BY <1>8, <1>9, Constants DEF EnvelopeOK
<1>11. MessagesOK'
  BY <1>4, <1>7, <1>9, <1>10, AppendedMessages
<1>12. RequestOK(to, new)'
  BY <1>6 DEF RequestOK, AdminOK, SendOK, CatchUpOK, BundleOK, GenSteps, EnableSteps, JobSteps
<1>13. LeavesClaims(r)
  <2>1. \A q \in Request : pc[q] = "append" => arg[q].job.dev \in Person
    BY DEF BotInv, RequestsOK, RequestOK, SendOK, JobSteps, JobOK
  <2>2. envelope' \ envelope \subseteq {e}
    BY <1>4 DEF Append
  <2>. QED
    BY <1>9, <2>1, <2>2 DEF LeavesClaims
<1>14. CountOK'
  BY <1>3, <1>4, <1>6, CountKeeps DEF BotInv
<1>. QED
  BY <1>3, <1>4, <1>5, <1>6, <1>11, <1>12, <1>13, <1>14, MessageMoves DEF GenSteps

-----------------------------------------------------------------------------
\* Consumed: the rows keep their names and keys, one is marked.
LEMMA ConsumedRows ==
    ASSUME NEW rows \in SUBSET PreKeyRow, NEW o
    PROVE  /\ Consumed(rows, o) \in SUBSET PreKeyRow
           /\ \A p \in Consumed(rows, o) : \E q \in rows :
                /\ p.row = q.row /\ p.key = q.key /\ p.pub = q.pub /\ p.good = q.good
                /\ (q.used => p.used) /\ (p.used => q.used \/ SameRow(o, q))
           /\ \A q \in rows : q.used => q \in Consumed(rows, o)
           /\ \A q \in rows : SameRow(o, q) => \E p \in Consumed(rows, o) : p.used /\ SameRow(p, o)
           /\ \A p \in Consumed(rows, o) : SameRow(o, p) => p.used
<1>. DEFINE Mark(q) == IF SameRow(o, q) THEN [q EXCEPT !.used = TRUE] ELSE q
<1>1. Consumed(rows, o) = {Mark(q) : q \in rows}
  BY DEF Consumed
<1>2. ASSUME NEW q \in rows
      PROVE  /\ Mark(q) \in PreKeyRow
             /\ Mark(q).row = q.row /\ Mark(q).key = q.key /\ Mark(q).pub = q.pub
             /\ Mark(q).good = q.good /\ (q.used => Mark(q).used)
             /\ (Mark(q).used => q.used \/ SameRow(o, q))
             /\ (SameRow(o, q) => Mark(q).used)
             /\ (q.used => Mark(q) = q)
  <2>1. q \in PreKeyRow
    OBVIOUS
  <2>2. CASE SameRow(o, q)
    <3>1. [q EXCEPT !.used = TRUE] \in PreKeyRow
      BY <2>1 DEF PreKeyRow
    <3>2. q.used => [q EXCEPT !.used = TRUE] = q
      BY <2>1 DEF PreKeyRow
    <3>3. Mark(q) = [q EXCEPT !.used = TRUE]
      BY <2>2
    <3>. QED
      BY <2>1, <2>2, <3>1, <3>2, <3>3 DEF PreKeyRow
  <2>3. CASE ~SameRow(o, q)
    BY <2>1, <2>3
  <2>. QED
    BY <2>2, <2>3
<1>. HIDE DEF Mark
<1>3. Consumed(rows, o) \in SUBSET PreKeyRow
  BY <1>1, <1>2
<1>4. ASSUME NEW p \in Consumed(rows, o)
      PROVE  /\ \E q \in rows :
                   /\ p.row = q.row /\ p.key = q.key /\ p.pub = q.pub /\ p.good = q.good
                   /\ (q.used => p.used) /\ (p.used => q.used \/ SameRow(o, q))
             /\ SameRow(o, p) => p.used
  <2>1. PICK q \in rows : p = Mark(q)
    BY <1>1
  <2>. QED
    BY <1>2, <2>1 DEF SameRow
<1>5. ASSUME NEW q \in rows
      PROVE  /\ q.used => q \in Consumed(rows, o)
             /\ SameRow(o, q) => \E p \in Consumed(rows, o) : p.used /\ SameRow(p, o)
  <2>1. Mark(q) \in Consumed(rows, o)
    BY <1>1
  <2>. QED
    BY <1>2, <2>1 DEF SameRow
<1>. QED
  BY <1>3, <1>4, <1>5

\* A prekey is consumed and nothing else changes.
Consumes(d, o) ==
    /\ d \in Device
    /\ prekey' = [prekey EXCEPT ![d] = Consumed(@, o)]
    /\ UNCHANGED <<identity, made, botVars, dmVars, opened, stale>>

\* The rows of a device after it.
RowsMarked(old, new, o) ==
    /\ \A p \in new : \E q \in old :
         /\ p.row = q.row /\ p.key = q.key /\ p.pub = q.pub /\ p.good = q.good
         /\ (q.used => p.used) /\ (p.used => q.used \/ SameRow(o, q))
    /\ \A q \in old : q.used => q \in new

\* The rows of every device after it.
LEMMA ConsumesRows ==
    ASSUME BotInv, NEW d, NEW o, Consumes(d, o)
    PROVE  /\ prekey' \in [Device -> SUBSET PreKeyRow]
           /\ prekey'[d] = Consumed(prekey[d], o)
           /\ \A x \in Device : x # d => prekey'[x] = prekey[x]
           /\ \A x \in Device : RowsMarked(prekey[x], prekey'[x], o)
<1>1. d \in Device /\ prekey \in [Device -> SUBSET PreKeyRow]
  BY DEF Consumes, BotInv, TablesOK
<1>2. prekey[d] \in SUBSET PreKeyRow
  BY <1>1
<1>3. PICK rows : rows = Consumed(prekey[d], o)
  OBVIOUS
<1>4. rows \in SUBSET PreKeyRow /\ RowsMarked(prekey[d], rows, o)
  BY <1>2, <1>3, ConsumedRows DEF RowsMarked
<1>5. prekey' = [prekey EXCEPT ![d] = rows]
  BY <1>3 DEF Consumes
<1>6. \A x \in Device : RowsMarked(prekey[x], prekey[x], o)
  BY DEF RowsMarked
<1>. QED
  BY <1>1, <1>3, <1>4, <1>5, <1>6

\* Other requests.
LEMMA ConsumesGrows ==
    ASSUME BotInv, NEW r \in Request, NEW to, NEW new, Moves(r, to, new), to \notin GenSteps,
           NEW d, NEW o, Consumes(d, o)
    PROVE  Grows
<1>1. made \in Nat /\ made' = made
  BY MadeIsNat DEF BotInv, Consumes
<1>2. \A g : Settled(g) => Settled(g)'
  BY <1>1, SettledKeeps DEF BotInv
<1>3. (Initialized => Initialized') /\ UNCHANGED <<Pending, envelope, mls, bot, stale>>
  BY DEF Initialized, Pending, Consumes, botVars, dmVars
<1>4. \A x \in Person : identity[x].ver <= identity'[x].ver
  BY DEF BotInv, TablesOK, Person, IdentityRow, Consumes
<1>5. \A x \in Person :
         /\ \A p \in prekey'[x] : \E q \in prekey[x] : SameRow(p, q) /\ p.good = q.good
         /\ \A p \in prekey[x] : p.used => p \in prekey'[x]
  BY ConsumesRows DEF RowsMarked, SameRow, Person
<1>6. \A p \in prekey'[bd] : \E q \in prekey[bd] :
         q.key = p.key /\ q.pub = p.pub /\ q.row = p.row /\ (q.used => p.used)
  BY ConsumesRows, Constants DEF RowsMarked
<1>. QED
  BY <1>1, <1>2, <1>3, <1>4, <1>5, <1>6 DEF Grows

\* Rows keep their names, and the marked one is one.
LEMMA ConsumesTables ==
    ASSUME BotInv, Grows, NEW d, NEW o, Consumes(d, o)
    PROVE  TablesOK'
<1>1. prekey' \in [Device -> SUBSET PreKeyRow] /\ UNCHANGED <<identity, made>>
  BY ConsumesRows DEF Consumes
<1>2. ASSUME NEW x \in Device
      PROVE  /\ \A p \in prekey'[x] : p.row \in 1 .. made
             /\ \A p, q \in prekey'[x] : SameRow(p, q) => p = q
  <2>1. /\ \A p \in prekey[x] : p.row \in 1 .. made
        /\ \A p, q \in prekey[x] : SameRow(p, q) => p = q
        /\ RowsMarked(prekey[x], prekey'[x], o)
    BY ConsumesRows DEF BotInv, TablesOK
  <2>2. \A p \in prekey'[x] : p.row \in 1 .. made
    BY <2>1 DEF RowsMarked
  <2>3. ASSUME NEW p \in prekey'[x], NEW q \in prekey'[x], SameRow(p, q) PROVE p = q
    <3>1. CASE x # d
      BY <2>1, <2>3, <3>1, ConsumesRows
    <3>2. CASE x = d
      <4>1. \A y \in prekey'[x] : SameRow(o, y) => y.used
        <5>1. prekey[d] \in SUBSET PreKeyRow
          BY DEF BotInv, TablesOK, Consumes
        <5>. QED
          BY <3>2, <5>1, ConsumesRows, ConsumedRows
      <4>2. PICK p0 \in prekey[x] :
               /\ p.row = p0.row /\ p.key = p0.key /\ p.pub = p0.pub /\ p.good = p0.good
               /\ (p0.used => p.used) /\ (p.used => p0.used \/ SameRow(o, p0))
        BY <2>1 DEF RowsMarked
      <4>3. PICK q0 \in prekey[x] :
               /\ q.row = q0.row /\ q.key = q0.key /\ q.pub = q0.pub /\ q.good = q0.good
               /\ (q0.used => q.used) /\ (q.used => q0.used \/ SameRow(o, q0))
        BY <2>1 DEF RowsMarked
      <4>4. p0 = q0
        BY <2>1, <2>3, <4>2, <4>3 DEF SameRow
      <4>5. p.used <=> q.used
        BY <4>1, <4>2, <4>3, <4>4 DEF SameRow
      <4>6. p \in PreKeyRow /\ q \in PreKeyRow
        BY <1>1
      <4>7. p.used = q.used
        BY <4>5, <4>6 DEF PreKeyRow
      <4>. QED
        BY <4>2, <4>3, <4>4, <4>6, <4>7 DEF PreKeyRow
    <3>. QED
      BY <3>1, <3>2
  <2>. QED
    BY <2>2, <2>3
<1>3. /\ \A p, q \in prekey'[bd] : p.key = q.key => p = q
      /\ \A p \in prekey'[bd] : p.key \in OtpIds /\ Settled(p.pub)'
  <2>1. RowsMarked(prekey[bd], prekey'[bd], o) /\ bd \in Device
    BY ConsumesRows, Constants
  <2>2. /\ \A p, q \in prekey[bd] : p.key = q.key => p = q
        /\ \A p \in prekey[bd] : p.key \in OtpIds /\ Settled(p.pub)
    BY DEF BotInv, TablesOK
  <2>3. \A g : Settled(g) => Settled(g)'
    BY DEF Grows
  <2>4. \A p, q \in prekey'[bd] : p.key = q.key => SameRow(p, q)
    BY <2>1, <2>2 DEF RowsMarked, SameRow
  <2>5. \A p, q \in prekey'[bd] : p.key = q.key => p = q
    BY <1>2, <2>1, <2>4
  <2>6. \A p \in prekey'[bd] : p.key \in OtpIds /\ Settled(p.pub)'
    BY <2>1, <2>2, <2>3 DEF RowsMarked
  <2>. QED
    BY <2>5, <2>6
<1>4. /\ identity' \in [Device -> IdentityRow] /\ made' \in Generation
      /\ \A x \in Person : identity'[x].ik = identity'[x].spk /\ identity'[x].spk <= made'
  BY <1>1 DEF BotInv, TablesOK
<1>. QED
  BY <1>1, <1>2, <1>3, <1>4 DEF TablesOK, IdentityRow, PreKeyRow

\* Fewer keys are on offer.
LEMMA ConsumesBot ==
    ASSUME BotInv, Grows, NEW d, NEW o, Consumes(d, o)
    PROVE  BotOK'
<1>1. Settled(bot.ik)' /\ (\A x \in opened' : Settled(x.pub)')
      /\ UNCHANGED <<bot, channel, mls, opened, stale, identity>>
  BY DEF BotInv, BotOK, Grows, Consumes, botVars
<1>2. BotOK
  BY DEF BotInv
<1>3. MirrorsAgree' /\ CredentialCurrent' /\ UsedSecretGone'
  BY <1>1, <1>2 DEF BotOK, MirrorsAgree, CredentialCurrent, UsedSecretGone
<1>4. \A p \in prekey'[bd] : ~p.used => \E q \in Fresh(bd) : q.key = p.key /\ q.pub = p.pub
  BY ConsumesRows, Constants DEF RowsMarked, Fresh
<1>5. OfferedIsCurrent'
  BY <1>1, <1>2, <1>4 DEF BotOK, OfferedIsCurrent, Fresh
<1>6. VaultMirrored'
  BY <1>1, <1>2, <1>4 DEF BotOK, VaultMirrored, Fresh
<1>. QED
  BY <1>1, <1>2, <1>3, <1>5, <1>6 DEF BotOK, Initialized, BotRow, VaultRow

\* A one-time prekey of a person's device that does not wrap was handed out.
LEMMA ConsumesMessages ==
    ASSUME BotInv, Grows, NEW d, NEW o, Consumes(d, o), given \subseteq given',
           d \in Person => \A q \in prekey[d] : SameRow(o, q) /\ ~q.good =>
               [dev |-> d, row |-> q.row, key |-> q.key] \in given'
    PROVE  MessagesOK'
<1>1. FailedWrapBurnsNothing'
  <2>1. ASSUME NEW x \in Person, NEW p \in prekey'[x], p.used, ~p.good
        PROVE  [dev |-> x, row |-> p.row, key |-> p.key] \in given'
    <3>1. x \in Device
      BY DEF Person
    <3>2. PICK q \in prekey[x] :
             /\ p.row = q.row /\ p.key = q.key /\ p.pub = q.pub /\ p.good = q.good
             /\ (q.used => p.used) /\ (p.used => q.used \/ SameRow(o, q))
      BY <3>1, ConsumesRows DEF RowsMarked
    <3>3. CASE q.used
      BY <2>1, <3>2, <3>3 DEF BotInv, MessagesOK, EnvelopesReadable, FailedWrapBurnsNothing
    <3>4. CASE ~q.used /\ x = d
      BY <2>1, <3>2, <3>4
    <3>5. CASE ~q.used /\ x # d
      BY <2>1, <3>1, <3>2, <3>5, ConsumesRows
         DEF BotInv, MessagesOK, EnvelopesReadable, FailedWrapBurnsNothing
    <3>. QED
      BY <3>3, <3>4, <3>5
  <2>. QED
    BY <2>1 DEF FailedWrapBurnsNothing
<1>. QED
  BY <1>1, MessagesKeep DEF BotInv, Consumes, dmVars

\* All of the invariant.
LEMMA ConsumesMoves ==
    ASSUME BotInv, NEW r \in Request, NEW to, NEW new, Moves(r, to, new), to \notin GenSteps,
           NEW d, NEW o, Consumes(d, o), given \subseteq given',
           d \in Person => \A q \in prekey[d] : SameRow(o, q) /\ ~q.good =>
               [dev |-> d, row |-> q.row, key |-> q.key] \in given',
           RequestOK(to, new)', Owns(to, new, r), CountOK'
    PROVE  BotInv'
<1>1. Grows
  BY ConsumesGrows
<1>2. made \in Nat /\ made' \in Nat /\ identity \in [Device -> IdentityRow]
      /\ identity' \in [Device -> IdentityRow] /\ LeavesClaims(r)
  BY MadeIsNat DEF BotInv, TablesOK, Consumes, LeavesClaims, dmVars
<1>3. RequestsOK'
  BY <1>1, <1>2, RequestsKeep DEF BotInv
<1>. QED
  BY <1>1, <1>3, ConsumesTables, ConsumesBot, ConsumesMessages DEF BotInv

\* The claim: a fresh row is in nobody's envelope and in nobody's hand.
LEMMA ClaimKeeps ==
    ASSUME BotInv, NEW r \in Request, Claim(r)
    PROVE  BotInv'
<1>1. PICK a : a = arg[r]
  OBVIOUS
<1>2. pc[r] = "claim" /\ pc[r] \in JobSteps
  BY DEF Claim, JobSteps
<1>3. /\ a = [op |-> a.op, mid |-> a.mid, jobs |-> a.jobs, job |-> a.job, otp |-> a.otp,
              tries |-> a.tries, added |-> a.added]
      /\ \A j \in a.jobs : JobOK(j) /\ (a.op = "send" => j.mid = a.mid)
      /\ a.op = "send" => a.mid \in Pending /\ (a.added => \E f \in envelope : f.mid = a.mid)
      /\ a.job \in a.jobs /\ a.otp # NoOtp
      /\ \A p \in prekey[a.job.dev] : SameRow(p, a.otp) => p.good
  BY <1>1, <1>2 DEF BotInv, RequestsOK, RequestOK, SendOK
<1>4. a.job.dev \in Person /\ a.job.dev \in Device
  BY <1>3 DEF JobOK, Person
<1>5. CASE \E p \in Fresh(a.job.dev) : SameRow(p, a.otp)
  <2>1. PICK p \in prekey[a.job.dev] : ~p.used /\ SameRow(p, a.otp)
    BY <1>5 DEF Fresh
  <2>2. /\ Moves(r, "append", a) /\ calls <= calls' /\ calls' \in 0 .. MaxCalls
        /\ prekey' = [prekey EXCEPT ![a.job.dev] = Consumed(@, a.otp)]
        /\ UNCHANGED <<identity, made, botVars, dmVars, ghostVars>>
    BY <1>1, <1>5, WentOn DEF Claim
  <2>3. Consumes(a.job.dev, a.otp)
    BY <1>4, <2>2 DEF Consumes, ghostVars
  <2>4. ASSUME NEW o, Taken(a.job.dev, o) PROVE ~SameRow(o, a.otp)
    <3>1. PICK q \in prekey[a.job.dev] : q.used /\ SameRow(q, o)
      BY <2>4 DEF Taken
    <3>2. \A x, y \in prekey[a.job.dev] : SameRow(x, y) => x = y
      BY <1>4 DEF BotInv, TablesOK
    <3>. QED
      BY <2>1, <3>1, <3>2 DEF SameRow
  <2>5. \A e \in envelope' : e.dev = a.job.dev /\ e.otp # NoOtp => ~SameRow(e.otp, a.otp)
    <3>1. \A e \in envelope : e.dev # bd /\ e.otp # NoOtp => Taken(e.dev, e.otp)
      BY DEF BotInv, MessagesOK
    <3>. QED
      BY <1>4, <2>2, <2>4, <3>1 DEF Person, dmVars
  <2>6. Taken(a.job.dev, a.otp)'
    <3>1. prekey[a.job.dev] \in SUBSET PreKeyRow /\ SameRow(a.otp, p)
      BY <1>4, <2>1 DEF BotInv, TablesOK, SameRow
    <3>2. \E q \in prekey'[a.job.dev] : q.used /\ SameRow(q, a.otp)
      BY <2>3, <3>1, ConsumedRows, ConsumesRows
    <3>. QED
      BY <3>2 DEF Taken, SameRow
  <2>7. RequestOK("append", a)'
    <3>1. UNCHANGED <<Pending, envelope>>
      BY <2>2 DEF Pending, dmVars
    <3>2. \A j : JobOK(j) => JobOK(j)'
      BY <3>1 DEF JobOK
    <3>3. /\ \A j \in a.jobs : JobOK(j)' /\ (a.op = "send" => j.mid = a.mid)
          /\ a.op = "send" => a.mid \in Pending' /\ (a.added => \E f \in envelope' : f.mid = a.mid)
      BY <1>3, <3>1, <3>2
    <3>4. SendOK("append", a)'
      BY <1>3, <2>5, <2>6, <3>3 DEF SendOK
    <3>. QED
      BY <3>4 DEF RequestOK, AdminOK, CatchUpOK, BundleOK, GenSteps, EnableSteps
  <2>8. Owns("append", a, r)
    <3>1. ASSUME NEW q \in Request \ {r}, pc[q] = "append", arg[q].otp # NoOtp,
                 a.job.dev = arg[q].job.dev
          PROVE  ~SameRow(a.otp, arg[q].otp)
      <4>1. Taken(a.job.dev, arg[q].otp)
        BY <3>1 DEF BotInv, RequestsOK, RequestOK, SendOK
      <4>. QED
        BY <2>4, <4>1 DEF SameRow
    <3>. QED
      BY <3>1 DEF Owns
  <2>9. CountOK'
    BY <2>2, CountKeeps DEF BotInv, dmVars
  <2>10. /\ given \subseteq given'
         /\ \A q \in prekey[a.job.dev] : SameRow(a.otp, q) => q.good
    BY <1>3, <2>2 DEF SameRow, ghostVars
  <2>. QED
    BY <2>2, <2>3, <2>7, <2>8, <2>9, <2>10, ConsumesMoves DEF GenSteps
<1>6. CASE ~\E p \in Fresh(a.job.dev) : SameRow(p, a.otp)
  <2>1. PICK new : new = [a EXCEPT !.tries = @ + 1]
    OBVIOUS
  <2>2. /\ Moves(r, "next", new) /\ calls <= calls' /\ calls' \in 0 .. MaxCalls
        /\ UNCHANGED <<keyVars, botVars, dmVars, ghostVars>>
    BY <1>1, <1>6, <2>1, WentOn DEF Claim, keyVars
  <2>3. /\ new = [op |-> new.op, mid |-> new.mid, jobs |-> new.jobs, job |-> new.job,
                  otp |-> new.otp, tries |-> new.tries, added |-> new.added]
        /\ new.jobs = a.jobs /\ new.op = a.op /\ new.mid = a.mid /\ new.added = a.added
    <3>1. PICK op, mid, jobs, job, otp, tries, added :
             a = [op |-> op, mid |-> mid, jobs |-> jobs, job |-> job, otp |-> otp,
                  tries |-> tries, added |-> added]
      BY <1>3
    <3>2. new = [op |-> op, mid |-> mid, jobs |-> jobs, job |-> job, otp |-> otp,
                 tries |-> tries + 1, added |-> added]
      BY <2>1, <3>1
    <3>. QED
      BY <3>1, <3>2
  <2>4. SendOK("next", new)
    BY <1>3, <2>3 DEF SendOK
  <2>. QED
    BY <2>2, <2>4, JobsOnly, QuietMoves DEF GenSteps, JobSteps
<1>. QED
  BY <1>5, <1>6

\* get_bundle marks the key it has read, fresh or not.
LEMMA ConsumePrekeyKeeps ==
    ASSUME BotInv, NEW r \in Request, ConsumePrekey(r)
    PROVE  BotInv'
<1>1. PICK a : a = arg[r]
  OBVIOUS
<1>2. /\ Moves(r, "bundled", a) /\ pc[r] = "consume"
      /\ calls <= calls' /\ calls' \in 0 .. MaxCalls
      /\ prekey' = [prekey EXCEPT ![a.dev] = Consumed(@, a.otp)]
      /\ given' = given \cup {[dev |-> a.dev, row |-> a.otp.row, key |-> a.otp.key]}
      /\ UNCHANGED <<identity, made, botVars, dmVars, opened, stale>>
  BY <1>1, WentOn DEF ConsumePrekey
<1>3. a.dev \in Device /\ (a.dev = bd => Settled(a.otp.pub) /\ InItsRow(a.otp))
  BY <1>1, <1>2 DEF BotInv, RequestsOK, RequestOK, BundleOK
<1>4. Consumes(a.dev, a.otp)
  BY <1>2, <1>3 DEF Consumes
<1>5. Grows
  BY <1>2, <1>4, ConsumesGrows DEF GenSteps
<1>6. RequestOK("bundled", a)'
  <2>1. ASSUME a.dev = bd PROVE Settled(a.otp.pub)' /\ Spent(a.otp)'
    <3>1. Settled(a.otp.pub)' /\ InItsRow(a.otp)'
      BY <1>3, <1>5, <2>1, OtpsKeep DEF Grows
    <3>2. \A p \in prekey'[bd] : SameRow(a.otp, p) => p.used
      <4>1. prekey[bd] \in SUBSET PreKeyRow
        BY Constants DEF BotInv, TablesOK
      <4>. QED
        BY <1>4, <2>1, <4>1, ConsumedRows, ConsumesRows
    <3>. QED
      BY <3>1, <3>2 DEF InItsRow, Spent, SameRow
  <2>2. BundleOK("bundled", a)'
    BY <1>3, <2>1 DEF BundleOK
  <2>. QED
    BY <2>2 DEF RequestOK, AdminOK, CatchUpOK, SendOK, GenSteps, EnableSteps, JobSteps
<1>7. CountOK'
  BY <1>2, CountKeeps DEF BotInv, dmVars
<1>8. /\ given \subseteq given'
      /\ \A q \in prekey[a.dev] : SameRow(a.otp, q) =>
            [dev |-> a.dev, row |-> q.row, key |-> q.key] \in given'
  BY <1>2 DEF SameRow
<1>9. Owns("bundled", a, r)
  BY DEF Owns
<1>. QED
  BY <1>2, <1>4, <1>6, <1>7, <1>8, <1>9, ConsumesMoves DEF GenSteps

-----------------------------------------------------------------------------
\* put_prekeys of a person's device.
LEMMA NewRowTyped ==
    ASSUME NEW k \in Nat, NEW g \in Generation, NEW wellformed \in BOOLEAN
    PROVE  NewRow(k, g, wellformed) \in PreKeyRow
BY DEF NewRow, PreKeyRow

\* The new rows have a generation of their own.
LEMMA UploadRows ==
    ASSUME BotInv, NEW d \in Person, NEW wellformed \in BOOLEAN, PutPrekeys(d, wellformed)
    PROVE  /\ made \in Nat /\ made' = made + 1 /\ made' \in Generation
           /\ prekey' \in [Device -> SUBSET PreKeyRow]
           /\ \A x \in Device : x # d => prekey'[x] = prekey[x]
           /\ \A p \in prekey'[d] : \/ p \in prekey[d] /\ p.used
                                    \/ p.row = made + 1 /\ ~p.used
           /\ \A p \in prekey[d] : p.used => p \in prekey'[d]
           /\ \A p, q \in prekey'[d] : p.row = made + 1 /\ SameRow(p, q) => p = q
<1>. DEFINE Number(k) == made * Cardinality(OtpIds) + k
            Uploaded == {NewRow(Number(k), made + 1, wellformed) : k \in OtpIds}
            Used == prekey[d] \ Fresh(d)
<1>1. made \in Nat /\ made' = made + 1 /\ made' \in Generation
  <2>1. made \in Nat /\ made' = made + 1 /\ made < MaxMade
    BY MadeIsNat DEF BotInv, PutPrekeys, NewGeneration
  <2>. QED
    BY <2>1, Constants DEF Generation
<1>2. prekey' = [prekey EXCEPT ![d] = Used \cup Uploaded]
  BY DEF PutPrekeys
<1>3. d \in Device /\ prekey \in [Device -> SUBSET PreKeyRow]
  BY DEF Person, BotInv, TablesOK
<1>4. Used = {p \in prekey[d] : p.used}
  BY DEF Fresh
<1>5. /\ \A k \in OtpIds : Number(k) \in Nat
      /\ \A k, l \in OtpIds : Number(k) = Number(l) => k = l
  <2>1. PICK base \in Nat : base = made * Cardinality(OtpIds)
    BY <1>1, Constants
  <2>2. \A k \in OtpIds : k \in Nat /\ Number(k) = base + k
    BY <2>1, Constants
  <2>. HIDE DEF Number
  <2>. QED
    BY <2>2
<1>. HIDE DEF Number
<1>6. Uploaded \subseteq PreKeyRow
  BY <1>1, <1>5, NewRowTyped
<1>7. \A p \in Uploaded : p.row = made + 1 /\ ~p.used
  BY DEF NewRow
<1>8. \A p, q \in Uploaded : SameRow(p, q) => p = q
  <2>1. ASSUME NEW k \in OtpIds, NEW l \in OtpIds,
               SameRow(NewRow(Number(k), made + 1, wellformed),
                       NewRow(Number(l), made + 1, wellformed))
        PROVE  k = l
    BY <1>5, <2>1 DEF NewRow, SameRow
  <2>. QED
    BY <2>1
<1>. HIDE DEF Uploaded, Used
<1>9. prekey' \in [Device -> SUBSET PreKeyRow] /\ prekey'[d] = Used \cup Uploaded
      /\ \A x \in Device : x # d => prekey'[x] = prekey[x]
  <2>1. Used \cup Uploaded \in SUBSET PreKeyRow
    BY <1>3, <1>4, <1>6
  <2>. QED
    BY <1>2, <1>3, <2>1
<1>10. \A p \in Used : p.row # made + 1
  BY <1>1, <1>3, <1>4 DEF BotInv, TablesOK
<1>11. \A p, q \in prekey'[d] : p.row = made + 1 /\ SameRow(p, q) => p = q
  BY <1>8, <1>9, <1>10 DEF SameRow
<1>. QED
  BY <1>1, <1>4, <1>7, <1>9, <1>11

\* The rows consumed stay, and the new ones are fresh.
LEMMA UploadPrekeysKeeps ==
    ASSUME BotInv, NEW d \in Person, NEW wellformed \in BOOLEAN, UploadPrekeys(d, wellformed)
    PROVE  BotInv'
<1>1. /\ PutPrekeys(d, wellformed)
      /\ UNCHANGED <<identity, botVars, dmVars, ghostVars, pc, arg, calls>>
  BY DEF UploadPrekeys, PutPrekeys, boundVars
<1>2. /\ made \in Nat /\ made' \in Nat /\ made' = made + 1 /\ made' \in Generation
      /\ prekey' \in [Device -> SUBSET PreKeyRow]
      /\ \A x \in Device : x # d => prekey'[x] = prekey[x]
      /\ \A p \in prekey'[d] : \/ p \in prekey[d] /\ p.used
                               \/ p.row = made + 1 /\ ~p.used
      /\ \A p \in prekey[d] : p.used => p \in prekey'[d]
      /\ \A p, q \in prekey'[d] : p.row = made + 1 /\ SameRow(p, q) => p = q
  <2>1. made \in Nat /\ made' = made + 1 => made' \in Nat
    BY NextNumber
  <2>. QED
    BY <1>1, <2>1, UploadRows
<1>3. d # bd /\ d \in Device /\ bd \in Device /\ prekey'[bd] = prekey[bd]
  BY <1>2, Constants DEF Person
<1>4. Grows
  <2>1. \A g : Settled(g) => Settled(g)'
    BY <1>1, <1>2, SettledRests
  <2>2. (Initialized => Initialized') /\ UNCHANGED <<Pending, envelope, mls, bot, stale>>
    BY <1>1 DEF Initialized, Pending, botVars, dmVars, ghostVars
  <2>3. \A x \in Person : identity[x].ver <= identity'[x].ver
    BY <1>1 DEF BotInv, TablesOK, Person, IdentityRow
  <2>4. \A x \in Person : \A p \in prekey'[x] : p.row = made + 1 \/ p \in prekey[x]
    BY <1>2 DEF Person
  <2>5. \A x \in Person : \A p \in prekey[x] : p.used => p \in prekey'[x]
    BY <1>2 DEF Person
  <2>. QED
    BY <1>2, <1>3, <2>1, <2>2, <2>3, <2>4, <2>5 DEF Grows, SameRow
<1>5. RequestsOK'
  BY <1>1, <1>2, <1>4, RequestsRest DEF BotInv, TablesOK, dmVars
<1>6. TablesOK'
  <2>1. ASSUME NEW x \in Device
        PROVE  /\ \A p \in prekey'[x] : p.row \in 1 .. made'
               /\ \A p, q \in prekey'[x] : SameRow(p, q) => p = q
    <3>1. /\ \A p \in prekey[x] : p.row \in 1 .. made
          /\ \A p, q \in prekey[x] : SameRow(p, q) => p = q
      BY DEF BotInv, TablesOK
    <3>2. CASE x # d
      BY <1>2, <3>1, <3>2
    <3>3. CASE x = d
      <4>1. \A p \in prekey'[x] : p.row \in 1 .. made'
        BY <1>2, <3>1, <3>3
      <4>2. \A p, q \in prekey'[x] : SameRow(p, q) => p = q
        BY <1>2, <3>1, <3>3 DEF SameRow
      <4>. QED
        BY <4>1, <4>2
    <3>. QED
      BY <3>2, <3>3
  <2>2. /\ \A p, q \in prekey'[bd] : p.key = q.key => p = q
        /\ \A p \in prekey'[bd] : p.key \in OtpIds /\ Settled(p.pub)'
    BY <1>3, <1>4 DEF BotInv, TablesOK, Grows
  <2>3. \A x \in Person : identity'[x].ik = identity'[x].spk /\ identity'[x].spk <= made'
    <3>1. ASSUME NEW x \in Person
          PROVE  /\ identity[x].spk \in Nat /\ identity[x].ik = identity[x].spk
                 /\ identity[x].spk <= made
      BY Constants DEF BotInv, TablesOK, Person, IdentityRow, Generation
    <3>. QED
      BY <1>1, <1>2, <3>1
  <2>4. identity' \in [Device -> IdentityRow]
    BY <1>1 DEF BotInv, TablesOK
  <2>. QED
    BY <1>2, <2>1, <2>2, <2>3, <2>4 DEF TablesOK, IdentityRow, PreKeyRow
<1>7. BotOK'
  <2>1. identity'[bd] = identity[bd] /\ Fresh(bd)' \subseteq Fresh(bd)
    BY <1>1, <1>3 DEF Fresh
  <2>. QED
    BY <1>1, <1>4, <2>1, BotKeeps DEF BotInv, BotOK, botVars, ghostVars
<1>8. CountOK'
  BY <1>1, CountRests DEF BotInv, dmVars
<1>9. MessagesOK'
  <2>1. FailedWrapBurnsNothing'
    <3>1. ASSUME NEW x \in Person, NEW p \in prekey'[x], p.used, ~p.good
          PROVE  p \in prekey[x]
      BY <1>2, <3>1 DEF Person
    <3>. QED
      BY <1>1, <3>1 DEF BotInv, MessagesOK, EnvelopesReadable, FailedWrapBurnsNothing, ghostVars
  <2>. QED
    BY <1>1, <1>4, <2>1, MessagesKeep DEF BotInv, dmVars
<1>. QED
  BY <1>5, <1>6, <1>7, <1>8, <1>9 DEF BotInv

-----------------------------------------------------------------------------
\* The identity of a person's device changes, and nothing else but the
\* requests.
LEMMA IdentityTables ==
    ASSUME BotInv, Grows, NEW d \in Person, NEW row \in IdentityRow,
           row.ik = row.spk, row.spk <= made', made' \in Generation, made' \in Nat,
           identity' = [identity EXCEPT ![d] = row], UNCHANGED prekey
    PROVE  TablesOK'
<1>1. identity \in [Device -> IdentityRow] /\ d \in Device /\ made \in Nat /\ made <= made'
  BY MadeIsNat DEF BotInv, TablesOK, Person, Grows
<1>2. identity' \in [Device -> IdentityRow]
  BY <1>1
<1>3. \A d1 \in Device : \A p \in prekey'[d1] : p.row \in 1 .. made'
  BY <1>1 DEF BotInv, TablesOK
<1>4. \A p \in prekey'[bd] : p.key \in OtpIds /\ Settled(p.pub)'
  BY DEF BotInv, TablesOK, Grows
<1>5. ASSUME NEW x \in Person PROVE identity'[x].ik = identity'[x].spk /\ identity'[x].spk <= made'
  <2>1. identity[x].spk \in Nat /\ identity[x].ik = identity[x].spk /\ identity[x].spk <= made
    BY Constants DEF BotInv, TablesOK, Person, IdentityRow, Generation
  <2>2. x \in Device
    BY DEF Person
  <2>3. identity'[x] = IF x = d THEN row ELSE identity[x]
    BY <1>1, <2>2
  <2>. QED
    BY <1>1, <2>1, <2>3
<1>6. /\ \A x \in Device : \A p, q \in prekey'[x] : SameRow(p, q) => p = q
      /\ \A p, q \in prekey'[bd] : p.key = q.key => p = q
      /\ prekey' \in [Device -> SUBSET PreKeyRow]
  BY DEF BotInv, TablesOK
<1>. QED
  BY <1>2, <1>3, <1>4, <1>5, <1>6 DEF TablesOK, IdentityRow, PreKeyRow

\* What it means for the rest.
LEMMA IdentityGrows ==
    ASSUME BotInv, NEW d \in Person, NEW row \in IdentityRow, identity[d].ver <= row.ver,
           identity' = [identity EXCEPT ![d] = row],
           UNCHANGED <<prekey, botVars, dmVars, ghostVars>>,
           made' \in Nat, made <= made', \A g : Settled(g) => Settled(g)'
    PROVE  /\ Grows
           /\ identity \in [Device -> IdentityRow] /\ identity' \in [Device -> IdentityRow]
           /\ identity'[bd] = identity[bd]
<1>1. identity \in [Device -> IdentityRow] /\ d \in Device /\ bd \in Device /\ d # bd
  BY Constants DEF BotInv, TablesOK, Person
<1>2. identity' \in [Device -> IdentityRow] /\ identity'[bd] = identity[bd]
  BY <1>1
<1>3. \A x \in Person : identity[x].ver <= identity'[x].ver
  BY <1>1 DEF Person, IdentityRow
<1>4. (Initialized => Initialized') /\ UNCHANGED <<Pending, envelope, mls, bot, stale, prekey>>
  BY DEF Initialized, Pending, botVars, dmVars, ghostVars
<1>5. Grows
  BY <1>3, <1>4 DEF Grows, SameRow
<1>. QED
  BY <1>1, <1>2, <1>5

\* The bot and the messages.
LEMMA IdentityRest ==
    ASSUME BotInv, Grows, identity'[bd] = identity[bd],
           UNCHANGED <<prekey, botVars, dmVars, ghostVars>>
    PROVE  BotOK' /\ MessagesOK'
<1>1. Fresh(bd)' \subseteq Fresh(bd)
  BY DEF Fresh
<1>2. FailedWrapBurnsNothing'
  BY DEF BotInv, MessagesOK, EnvelopesReadable, FailedWrapBurnsNothing, ghostVars
<1>. QED
  BY <1>1, <1>2, BotKeeps, MessagesKeep DEF BotInv, BotOK, botVars, ghostVars, dmVars

\* The device retires.
LEMMA EndSessionKeeps ==
    ASSUME BotInv, NEW d \in Person, EndSession(d)
    PROVE  BotInv'
<1>1. PICK row : row = [identity[d] EXCEPT !.retired = TRUE]
  OBVIOUS
<1>2. identity[d] \in IdentityRow /\ identity \in [Device -> IdentityRow]
  BY DEF BotInv, TablesOK, Person
<1>3. /\ row \in IdentityRow /\ row.ver = identity[d].ver /\ row.ik = identity[d].ik
      /\ row.spk = identity[d].spk
  BY <1>1, <1>2 DEF IdentityRow
<1>4. /\ identity' = [identity EXCEPT ![d] = row]
      /\ UNCHANGED <<prekey, made, botVars, dmVars, ghostVars, pc, arg, calls>>
  BY <1>1 DEF EndSession, Retire, boundVars
<1>5. made \in Nat /\ made' \in Nat /\ made' \in Generation /\ made <= made'
  BY <1>4, MadeIsNat DEF BotInv
<1>6. \A g : Settled(g) => Settled(g)'
  BY <1>4, <1>5, SettledRests
<1>7. identity[d].ver <= row.ver
  BY <1>2, <1>3 DEF IdentityRow
<1>8. Grows /\ identity' \in [Device -> IdentityRow] /\ identity'[bd] = identity[bd]
  BY <1>3, <1>4, <1>5, <1>6, <1>7, IdentityGrows
<1>9. RequestsOK'
  BY <1>2, <1>4, <1>5, <1>8, RequestsRest DEF BotInv, dmVars
<1>10. row.ik = row.spk /\ row.spk <= made'
  BY <1>3, <1>4 DEF BotInv, TablesOK
<1>11. TablesOK'
  BY <1>3, <1>4, <1>5, <1>8, <1>10, IdentityTables
<1>12. BotOK' /\ MessagesOK'
  BY <1>4, <1>8, IdentityRest
<1>13. CountOK'
  BY <1>4, CountRests DEF BotInv, dmVars
<1>. QED
  BY <1>9, <1>11, <1>12, <1>13 DEF BotInv

\* The row that is published.
LEMMA PublishedRow ==
    ASSUME NEW row \in IdentityRow, NEW g \in Generation
    PROVE  /\ Published(row, g) \in IdentityRow
           /\ Published(row, g).ik = g /\ Published(row, g).spk = g
           /\ row.ver <= Published(row, g).ver
           /\ row.spk # g => row.ver < Published(row, g).ver
<1>1. row = [ver |-> row.ver, ik |-> row.ik, spk |-> row.spk, retired |-> row.retired]
      /\ row.ver \in Nat
  BY DEF IdentityRow
<1>2. Published(row, g) = [ver |-> IF row.spk # g THEN row.ver + 1 ELSE row.ver,
                           ik |-> g, spk |-> g, retired |-> FALSE]
  <2>1. PICK ver, ik, spk, retired :
           row = [ver |-> ver, ik |-> ik, spk |-> spk, retired |-> retired]
    BY <1>1
  <2>2. row.ver = ver /\ row.spk = spk
    BY <2>1
  <2>3. PICK v : v = IF row.spk # g THEN row.ver + 1 ELSE row.ver
    OBVIOUS
  <2>4. Published(row, g) = [row EXCEPT !.ver = v, !.ik = g, !.spk = g, !.retired = FALSE]
    BY <2>3 DEF Published
  <2>. QED
    BY <2>1, <2>3, <2>4
<1>3. (IF row.spk # g THEN row.ver + 1 ELSE row.ver) \in Nat
  BY <1>1
<1>. QED
  BY <1>1, <1>2, <1>3 DEF IdentityRow

\* put_identity, and the catching up it starts.
LEMMA PutIdentityKeeps ==
    ASSUME BotInv, NEW r \in Request, NEW d \in Person, NEW fresh \in BOOLEAN,
           PutIdentity(r, d, fresh)
    PROVE  BotInv'
<1>1. PICK g, row : /\ g = (IF fresh THEN made + 1 ELSE identity[d].spk)
                    /\ row = Published(identity[d], g)
  OBVIOUS
<1>2. PICK waits : waits = (Waiting(Pending, d, row.ver) # {})
  OBVIOUS
<1>3. PICK to, new : /\ to = (IF waits THEN "catch up" ELSE "idle")
                     /\ new = (IF waits THEN [dev |-> d, ver |-> row.ver] ELSE NoArg)
  OBVIOUS
<1>4. /\ identity' = [identity EXCEPT ![d] = row]
      /\ UNCHANGED <<prekey, botVars, dmVars, ghostVars>>
      /\ IF fresh THEN NewGeneration ELSE UNCHANGED made
      /\ Enter(r, "publish", to, new)
  BY <1>1, <1>2, <1>3 DEF PutIdentity
<1>5. Moves(r, to, new) /\ calls <= calls' /\ calls' \in 0 .. MaxCalls
  BY <1>4, Entered
<1>6. made \in Nat /\ made' \in Nat /\ made' \in Generation /\ made <= made'
  <2>1. made \in Nat /\ made \in Generation
    BY MadeIsNat DEF BotInv
  <2>2. made' = made \/ (made' = made + 1 /\ made < MaxMade)
    BY <1>4 DEF NewGeneration
  <2>. QED
    BY <2>1, <2>2, Constants DEF Generation
<1>7. identity[d] \in IdentityRow /\ identity \in [Device -> IdentityRow] /\ d \in Device
  BY DEF BotInv, TablesOK, Person
<1>8. g \in Generation /\ g <= made'
  <2>1. CASE fresh
    BY <1>1, <1>4, <1>6, <2>1 DEF NewGeneration
  <2>2. CASE ~fresh
    BY <1>1, <1>4, <1>7, <2>2 DEF IdentityRow, BotInv, TablesOK
  <2>. QED
    BY <2>1, <2>2
<1>9. row \in IdentityRow /\ row.ik = g /\ row.spk = g /\ identity[d].ver <= row.ver
  BY <1>1, <1>7, <1>8, PublishedRow
<1>10. to \in {"catch up", "idle"} /\ (to = "catch up" => new = [dev |-> d, ver |-> row.ver])
  BY <1>3
<1>11. \A x : Settled(x) => Settled(x)'
  BY <1>5, <1>6, <1>10, SettledKeeps DEF BotInv, GenSteps
<1>12. Grows /\ identity' \in [Device -> IdentityRow] /\ identity'[bd] = identity[bd]
  BY <1>4, <1>6, <1>9, <1>11, IdentityGrows
<1>13. RequestOK(to, new)'
  <2>1. CASE to = "idle"
    BY <2>1, Idle
  <2>2. CASE to = "catch up"
    <3>1. new.dev = d /\ new.ver = row.ver
      <4>1. new = [dev |-> d, ver |-> row.ver]
        BY <1>10, <2>2
      <4>2. PICK v : v = row.ver
        OBVIOUS
      <4>3. new = [dev |-> d, ver |-> v]
        BY <4>1, <4>2
      <4>. QED
        BY <4>2, <4>3
    <3>3. identity'[d] = row
      BY <1>4, <1>7
    <3>4. row.ver \in Nat /\ row.ver <= row.ver
      BY <1>9 DEF IdentityRow
    <3>2. CatchUpOK(to, new)'
      BY <2>2, <3>1, <3>3, <3>4 DEF CatchUpOK
    <3>. QED
      BY <2>2, <3>2 DEF RequestOK, AdminOK, SendOK, BundleOK, GenSteps, EnableSteps, JobSteps
  <2>. QED
    BY <1>10, <2>1, <2>2
<1>14. Owns(to, new, r) /\ LeavesClaims(r)
  BY <1>4, <1>10 DEF Owns, LeavesClaims, dmVars
<1>15. RequestsOK'
  BY <1>5, <1>6, <1>7, <1>10, <1>12, <1>13, <1>14, RequestsKeep DEF BotInv, GenSteps
<1>16. TablesOK'
  BY <1>4, <1>6, <1>8, <1>9, <1>12, IdentityTables
<1>17. BotOK' /\ MessagesOK'
  BY <1>4, <1>12, IdentityRest
<1>18. CountOK'
  BY <1>4, <1>5, <1>10, CountKeeps DEF BotInv, dmVars
<1>. QED
  BY <1>15, <1>16, <1>17, <1>18 DEF BotInv

-----------------------------------------------------------------------------
\* The keys of generation g are written: the rows of the bot's one-time
\* prekeys, its row of e2e_identity and its row of bot_e2ee_identity.
Writes(g, rows, row) ==
    /\ prekey' = [prekey EXCEPT ![bd] = rows]
    /\ identity' = [identity EXCEPT ![bd] = row]
    /\ UNCHANGED <<made, mls, dmVars, given, opened>>
    /\ rows \in SUBSET PreKeyRow
    /\ \A p \in rows : p.row \in 1 .. made /\ p.key \in OtpIds /\ p.pub = g /\ ~p.used
    /\ \A p, q \in rows : p.key = q.key => p = q
    /\ row \in IdentityRow
    /\ bot' \in BotRow /\ bot'.ver = row.ver /\ bot'.ver > 0
    /\ bot'.ik = row.ik /\ bot'.spk = row.spk /\ row.spk = g
    /\ bot'.ik \in {bot.ik, g}
    /\ stale' \in BOOLEAN /\ (~stale' => ~stale)
    /\ ~stale' => /\ bot'.vault.ik = row.ik /\ bot'.vault.spk = g
                  /\ OtpIds \subseteq bot'.vault.otps
    /\ channel' \in [on : BOOLEAN, cred : BOOLEAN, package : BOOLEAN]
    /\ channel'.cred => channel.cred /\ bot'.ik = bot.ik

\* The generation was not settled, and now it is.
LEMMA GenerationSettles ==
    ASSUME BotInv, NEW r \in Request, pc[r] \in GenSteps, NEW g, g = arg[r].gen,
           NEW a, Moves(r, "idle", a), UNCHANGED made
    PROVE  ~Settled(g) /\ Settled(g)' /\ g \in 1 .. made /\ \A x : Settled(x) => Settled(x)'
<1>1. g \in 1 .. made
  BY DEF BotInv, RequestsOK, RequestOK, AdminOK
<1>2. ~Settled(g)
  BY DEF Settled
<1>3. made \in Nat /\ made' \in Nat /\ made <= made'
  BY MadeIsNat DEF BotInv
<1>4. \A x : Settled(x) => Settled(x)'
  BY <1>3, SettledKeeps DEF BotInv, GenSteps
<1>5. ASSUME NEW q \in Request, pc'[q] \in GenSteps PROVE arg'[q].gen # g
  <2>1. q # r /\ pc'[q] = pc[q] /\ arg'[q] = arg[q]
    BY <1>5 DEF Moves, BotInv, RequestsOK, GenSteps
  <2>. QED
    BY <1>5, <2>1 DEF BotInv, RequestsOK, Apart
<1>6. Settled(g)'
  BY <1>1, <1>3, <1>5 DEF Settled
<1>. QED
  BY <1>1, <1>2, <1>4, <1>6

\* Other requests: none of them has met the generation.
LEMMA WritesGrows ==
    ASSUME BotInv, NEW g, ~Settled(g), \A x : Settled(x) => Settled(x)',
           NEW rows, NEW row, Writes(g, rows, row)
    PROVE  Grows
<1>1. made \in Nat /\ made' = made /\ made <= made'
  BY MadeIsNat DEF BotInv, Writes
<1>2. /\ bd \in Device /\ prekey \in [Device -> SUBSET PreKeyRow]
      /\ identity \in [Device -> IdentityRow]
  BY Constants DEF BotInv, TablesOK
<1>3. Initialized' /\ UNCHANGED <<Pending, envelope>>
  BY DEF Initialized, Pending, Writes, dmVars
<1>4. \A x \in Person : identity[x].ver <= identity'[x].ver /\ prekey'[x] = prekey[x]
  BY <1>2 DEF Writes, Person, IdentityRow
<1>5. \A p \in prekey'[bd] : ~Settled(p.pub)
  BY <1>2 DEF Writes
<1>6. \A x : Settled(x) /\ ~stale' /\ x = bot'.ik =>
         ~stale /\ mls'.cred = mls.cred /\ bot'.ik = bot.ik
  BY DEF Writes
<1>. QED
  BY <1>1, <1>3, <1>4, <1>5, <1>6 DEF Grows, SameRow

\* The tables.
LEMMA WritesTables ==
    ASSUME BotInv, Grows, NEW g, Settled(g)', NEW rows, NEW row, Writes(g, rows, row)
    PROVE  TablesOK'
<1>1. /\ bd \in Device /\ prekey \in [Device -> SUBSET PreKeyRow]
      /\ identity \in [Device -> IdentityRow] /\ UNCHANGED made
  BY Constants DEF BotInv, TablesOK, Writes
<1>2. /\ prekey' \in [Device -> SUBSET PreKeyRow] /\ identity' \in [Device -> IdentityRow]
      /\ prekey'[bd] = rows
      /\ \A x \in Device : x # bd => prekey'[x] = prekey[x] /\ identity'[x] = identity[x]
  BY <1>1 DEF Writes
<1>3. /\ \A p \in rows : p.row \in 1 .. made /\ p.key \in OtpIds /\ Settled(p.pub)'
      /\ \A p, q \in rows : p.key = q.key => p = q
      /\ \A p, q \in rows : SameRow(p, q) => p = q
  BY DEF Writes, SameRow
<1>4. ASSUME NEW x \in Device
      PROVE  /\ \A p \in prekey'[x] : p.row \in 1 .. made'
             /\ \A p, q \in prekey'[x] : SameRow(p, q) => p = q
  <2>1. CASE x = bd
    BY <1>1, <1>2, <1>3, <2>1
  <2>2. CASE x # bd
    BY <1>1, <1>2, <2>2 DEF BotInv, TablesOK
  <2>. QED
    BY <2>1, <2>2
<1>5. \A x \in Person : identity'[x].ik = identity'[x].spk /\ identity'[x].spk <= made'
  BY <1>1, <1>2 DEF BotInv, TablesOK, Person
<1>6. made' \in Generation
  BY <1>1, MadeIsNat DEF BotInv
<1>7. /\ \A p, q \in prekey'[bd] : p.key = q.key => p = q
      /\ \A p \in prekey'[bd] : p.key \in OtpIds /\ Settled(p.pub)'
  BY <1>2, <1>3
<1>. QED
  BY <1>2, <1>4, <1>5, <1>6, <1>7 DEF TablesOK, IdentityRow, PreKeyRow

\* The bot.
LEMMA WritesBot ==
    ASSUME BotInv, Grows, NEW g, ~Settled(g), Settled(g)', NEW rows, NEW row, Writes(g, rows, row)
    PROVE  BotOK'
<1>1. /\ bd \in Device /\ prekey \in [Device -> SUBSET PreKeyRow]
      /\ identity \in [Device -> IdentityRow]
  BY Constants DEF BotInv, TablesOK
<1>2. prekey'[bd] = rows /\ identity'[bd] = row
  BY <1>1 DEF Writes
<1>3. /\ Settled(bot.ik) /\ (\A o \in opened : Settled(o.pub))
      /\ CredentialCurrent /\ mls \in [cred : Generation, packages : Nat]
  BY DEF BotInv, BotOK
<1>4. \A x : Settled(x) => Settled(x)'
  BY DEF Grows
<1>5. Settled(bot.ik)' /\ \A o \in opened' : Settled(o.pub)'
  <2>1. bot'.ik \in {bot.ik, g} /\ opened' = opened
    BY DEF Writes
  <2>2. PICK ik : ik = bot'.ik
    OBVIOUS
  <2>3. Settled(ik)'
    BY <1>3, <1>4, <2>1, <2>2
  <2>4. Settled(bot.ik)'
    BY <2>2, <2>3 DEF Settled
  <2>. QED
    BY <1>3, <1>4, <2>1, <2>4
<1>6. MirrorsAgree' /\ OfferedIsCurrent'
  BY <1>2 DEF Writes, MirrorsAgree, OfferedIsCurrent, Fresh
<1>7. VaultMirrored'
  BY <1>2 DEF Writes, VaultMirrored, Fresh
<1>8. UsedSecretGone'
  BY <1>3 DEF Writes, UsedSecretGone
<1>9. CredentialCurrent'
  BY <1>3 DEF Writes, CredentialCurrent
<1>10. Initialized'
  BY DEF Writes, Initialized
<1>11. /\ bot' \in BotRow /\ stale' \in BOOLEAN /\ mls' \in [cred : Generation, packages : Nat]
       /\ channel' \in [on : BOOLEAN, cred : BOOLEAN, package : BOOLEAN]
  BY <1>3 DEF Writes
<1>. QED
  BY <1>5, <1>6, <1>7, <1>8, <1>9, <1>10, <1>11 DEF BotOK, Initialized, BotRow, VaultRow

\* All of the invariant.
LEMMA WritesKeep ==
    ASSUME BotInv, NEW r \in Request, pc[r] \in GenSteps, NEW g, g = arg[r].gen,
           NEW from, Leave(r, from), NEW rows, NEW row, Writes(g, rows, row)
    PROVE  BotInv'
<1>1. PICK a : a = NoArg
  OBVIOUS
<1>2. Moves(r, "idle", a) /\ calls <= calls' /\ calls' \in 0 .. MaxCalls
  BY <1>1, WentOn DEF Leave
<1>3. UNCHANGED <<made, envelope, sent, prekey>> \/ UNCHANGED <<made, envelope, sent>>
  BY DEF Writes, dmVars
<1>4. ~Settled(g) /\ Settled(g)' /\ \A x : Settled(x) => Settled(x)'
  BY <1>2, <1>3, GenerationSettles
<1>5. Grows
  BY <1>4, WritesGrows
<1>6. TablesOK' /\ BotOK'
  BY <1>4, <1>5, WritesTables, WritesBot
<1>7. RequestsOK'
  <2>1. identity \in [Device -> IdentityRow] /\ identity' \in [Device -> IdentityRow]
    BY Constants DEF BotInv, TablesOK, Writes
  <2>2. made \in Nat /\ made' \in Nat
    BY <1>3, MadeIsNat DEF BotInv
  <2>3. Owns("idle", a, r) /\ LeavesClaims(r)
    BY <1>3 DEF Owns, LeavesClaims
  <2>. QED
    BY <1>2, <1>5, <2>1, <2>2, <2>3, Idle, RequestsKeep DEF BotInv, GenSteps
<1>8. CountOK'
  BY <1>2, <1>3, CountKeeps DEF BotInv
<1>9. MessagesOK'
  <2>1. \A x \in Person : prekey'[x] = prekey[x]
    BY Constants DEF BotInv, TablesOK, Writes, Person
  <2>2. FailedWrapBurnsNothing'
    BY <2>1 DEF BotInv, MessagesOK, EnvelopesReadable, FailedWrapBurnsNothing, Writes
  <2>. QED
    BY <1>5, <2>2, MessagesKeep DEF BotInv, Writes, dmVars
<1>. QED
  BY <1>6, <1>7, <1>8, <1>9 DEF BotInv

\* A batch is a well-formed set of rows, ...
LEMMA NewRows ==
    ASSUME NEW keys \in SUBSET OtpIds, NEW g \in 1 .. made, made \in Generation, NEW rows,
           \A p \in rows : \E k \in keys :
               p = [row |-> g, key |-> k, pub |-> g, good |-> TRUE, used |-> FALSE]
    PROVE  /\ rows \in SUBSET PreKeyRow
           /\ \A p \in rows : p.row = g /\ p.key \in keys /\ p.pub = g /\ ~p.used
           /\ \A p, q \in rows : p.key = q.key => p = q
<1>1. g \in Generation /\ \A k \in keys : k \in Nat
  BY Constants DEF Generation
<1>2. ASSUME NEW p \in rows PROVE p \in PreKeyRow
  <2>1. PICK k \in keys : p = [row |-> g, key |-> k, pub |-> g, good |-> TRUE, used |-> FALSE]
    OBVIOUS
  <2>2. k \in Nat
    BY <1>1
  <2>. QED
    BY <1>1, <2>1, <2>2 DEF PreKeyRow
<1>3. \A p \in rows : p.row = g /\ p.key \in keys /\ p.pub = g /\ ~p.used
  OBVIOUS
<1>4. ASSUME NEW p \in rows, NEW q \in rows, p.key = q.key PROVE p = q
  <2>1. PICK k \in keys : p = [row |-> g, key |-> k, pub |-> g, good |-> TRUE, used |-> FALSE]
    OBVIOUS
  <2>2. PICK l \in keys : q = [row |-> g, key |-> l, pub |-> g, good |-> TRUE, used |-> FALSE]
    OBVIOUS
  <2>3. k = l
    BY <1>4, <2>1, <2>2
  <2>. QED
    BY <2>1, <2>2, <2>3
<1>. QED
  BY <1>2, <1>3, <1>4

\* ... of the generation, ...
LEMMA BatchRows ==
    ASSUME BotInv, NEW g \in 1 .. made
    PROVE  /\ g \in Generation
           /\ Batch(g) \in SUBSET PreKeyRow
           /\ \A p \in Batch(g) : p.row \in 1 .. made /\ p.key \in OtpIds /\ p.pub = g /\ ~p.used
           /\ \A p, q \in Batch(g) : p.key = q.key => p = q
<1>1. g \in Generation /\ made \in Generation
  BY MadeIsNat, Constants DEF BotInv, Generation
<1>2. PICK rows : rows = Batch(g)
  OBVIOUS
<1>4. \A p \in rows : \E k \in OtpIds :
         p = [row |-> g, key |-> k, pub |-> g, good |-> TRUE, used |-> FALSE]
  BY <1>2 DEF Batch, NewRow
<1>3. /\ rows \in SUBSET PreKeyRow
      /\ \A p \in rows : p.row = g /\ p.key \in OtpIds /\ p.pub = g /\ ~p.used
      /\ \A p, q \in rows : p.key = q.key => p = q
  BY <1>1, <1>4, NewRows
<1>. QED
  BY <1>1, <1>2, <1>3

\* ... and so is what an upsert makes of the rows of the bot.
LEMMA UpsertedRows ==
    ASSUME BotInv, NEW g \in 1 .. made
    PROVE  /\ Upserted(prekey[bd], g) \in SUBSET PreKeyRow
           /\ \A p \in Upserted(prekey[bd], g) :
                p.row \in 1 .. made /\ p.key \in OtpIds /\ p.pub = g /\ ~p.used
           /\ \A p, q \in Upserted(prekey[bd], g) : p.key = q.key => p = q
<1>. DEFINE kept == {p \in prekey[bd] : p.used}
            Renewed(p) == [p EXCEPT !.pub = g, !.used = FALSE]
            renewed == {Renewed(p) : p \in kept}
            new == {NewRow(k, g, TRUE) : k \in OtpIds \ {p.key : p \in kept}}
<1>1. Upserted(prekey[bd], g) = renewed \cup new
  BY DEF Upserted
<1>2. g \in Generation /\ \A k \in OtpIds : k \in Nat
  BY BatchRows, Constants
<1>3. \A p \in kept : p \in PreKeyRow /\ p.row \in 1 .. made /\ p.key \in OtpIds
  BY Constants DEF BotInv, TablesOK
<1>4. ASSUME NEW p \in kept
      PROVE  /\ Renewed(p) \in PreKeyRow /\ Renewed(p).row = p.row /\ Renewed(p).key = p.key
             /\ Renewed(p).pub = g /\ ~Renewed(p).used
  BY <1>2, <1>3 DEF PreKeyRow
<1>5. \A p, q \in kept : p.key = q.key => p = q
  BY DEF BotInv, TablesOK
<1>6. /\ new \in SUBSET PreKeyRow
      /\ \A p \in new : p.row = g /\ p.key \in OtpIds \ {q.key : q \in kept} /\ p.pub = g /\ ~p.used
      /\ \A p, q \in new : p.key = q.key => p = q
  <2>1. PICK keys, rows : keys = OtpIds \ {q.key : q \in kept} /\ rows = new
    OBVIOUS
  <2>6. keys \in SUBSET OtpIds
    BY <2>1
  <2>5. \A p \in rows : \E k \in keys :
           p = [row |-> g, key |-> k, pub |-> g, good |-> TRUE, used |-> FALSE]
    BY <2>1 DEF NewRow
  <2>2. made \in Generation
    BY MadeIsNat DEF BotInv
  <2>3. /\ rows \in SUBSET PreKeyRow
        /\ \A p \in rows : p.row = g /\ p.key \in keys /\ p.pub = g /\ ~p.used
        /\ \A p, q \in rows : p.key = q.key => p = q
    BY <2>2, <2>5, <2>6, NewRows
  <2>. QED
    BY <2>1, <2>3
<1>. HIDE DEF new
<1>7. /\ \A p \in new : p \in PreKeyRow /\ p.row \in 1 .. made /\ p.key \in OtpIds
                         /\ p.pub = g /\ ~p.used
      /\ \A p \in new, q \in kept : q.key # p.key
      /\ \A p, q \in new : p.key = q.key => p = q
  BY <1>6
<1>. HIDE DEF kept, Renewed
<1>8. \A p \in renewed : p \in PreKeyRow /\ p.row \in 1 .. made /\ p.key \in OtpIds
                         /\ p.pub = g /\ ~p.used /\ \E q \in kept : p = Renewed(q) /\ p.key = q.key
  BY <1>3, <1>4
<1>9. \A p, q \in renewed : p.key = q.key => p = q
  BY <1>5, <1>8
<1>. HIDE DEF renewed
<1>10. \A p \in renewed, q \in new : p.key # q.key
  BY <1>7, <1>8
<1>. QED
  BY <1>1, <1>7, <1>8, <1>9, <1>10

-----------------------------------------------------------------------------
\* initialize, rotate and rebuild write what they have made.
LEMMA CommitInitializeKeeps ==
    ASSUME BotInv, NEW r \in Request, CommitInitialize(r)
    PROVE  BotInv'
<1>1. CASE Initialized
  <2>1. UNCHANGED <<keyVars, botVars, dmVars, ghostVars>>
    BY <1>1 DEF CommitInitialize, botVars
  <2>. QED
    BY <2>1, LeaveKeeps DEF CommitInitialize
<1>2. CASE ~Initialized
  <2>1. PICK g, row : /\ g = arg[r].gen
                      /\ row = [ver |-> 1, ik |-> g, spk |-> g, retired |-> identity[bd].retired]
    OBVIOUS
  <2>2. Leave(r, "initialize") /\ pc[r] = "initialize" /\ pc[r] \in GenSteps
    BY DEF CommitInitialize, Leave, GoTo, GenSteps
  <2>3. g \in 1 .. made
    BY <2>1, <2>2 DEF BotInv, RequestsOK, RequestOK, AdminOK
  <2>4. g \in Generation
    BY <2>3, BatchRows
  <2>5. identity[bd].retired \in BOOLEAN
    BY Constants DEF BotInv, TablesOK, IdentityRow
  <2>6. row \in IdentityRow /\ row.ver = 1 /\ row.ik = g /\ row.spk = g
    BY <2>1, <2>4, <2>5 DEF IdentityRow
  <2>7. /\ bot' = [ver |-> 1, ik |-> g, spk |-> g, vault |-> [ik |-> g, spk |-> g, otps |-> OtpIds]]
        /\ identity' = [identity EXCEPT ![bd] = row]
        /\ prekey' = [prekey EXCEPT ![bd] = Batch(g)]
        /\ UNCHANGED <<made, channel, mls, dmVars, given, opened, stale>>
    BY <1>2, <2>1 DEF CommitInitialize, Mirror, Material, ghostVars
  <2>8. bot' \in BotRow
    BY <2>4, <2>7 DEF BotRow, VaultRow
  <2>9. /\ channel \in [on : BOOLEAN, cred : BOOLEAN, package : BOOLEAN] /\ ~channel.cred
        /\ stale \in BOOLEAN
    BY <1>2 DEF BotInv, BotOK
  <2>10. Writes(g, Batch(g), row)
    BY <2>3, <2>6, <2>7, <2>8, <2>9, BatchRows DEF Writes
  <2>. QED
    BY <2>1, <2>2, <2>10, WritesKeep
<1>. QED
  BY <1>1, <1>2

\* rotate: over the row and the vault it has read.
LEMMA CommitRotateKeeps ==
    ASSUME BotInv, NEW r \in Request, CommitRotate(r)
    PROVE  BotInv'
<1>1. PICK a, g : a = arg[r] /\ g = a.gen
  OBVIOUS
<1>2. Leave(r, "rotate: commit") /\ pc[r] = "rotate: commit" /\ pc[r] \in GenSteps
  BY DEF CommitRotate, Leave, GoTo, GenSteps
<1>3. g \in 1 .. made /\ a.row \in BotRow /\ a.vault \in VaultRow
  BY <1>1, <1>2 DEF BotInv, RequestsOK, RequestOK, AdminOK
<1>4. g \in Generation
  BY <1>3, BatchRows
<1>5. identity[bd] \in IdentityRow /\ identity \in [Device -> IdentityRow]
  BY Constants DEF BotInv, TablesOK
<1>6. bot \in BotRow /\ MirrorsAgree /\ VaultMirrored /\ stale \in BOOLEAN
      /\ channel \in [on : BOOLEAN, cred : BOOLEAN, package : BOOLEAN]
  BY DEF BotInv, BotOK
<1>7. PICK row, vault :
         /\ row = [identity[bd] EXCEPT !.ver = a.row.ver + 1, !.spk = g]
         /\ vault = [a.vault EXCEPT !.spk = g, !.otps = OtpIds]
  OBVIOUS
<1>8. a.row.ver \in Nat /\ a.row.ver + 1 \in Nat /\ a.row.ver + 1 > 0
  BY <1>3 DEF BotRow
<1>9. row \in IdentityRow /\ row.ver = a.row.ver + 1 /\ row.ik = identity[bd].ik /\ row.spk = g
  BY <1>4, <1>5, <1>7, <1>8 DEF IdentityRow
<1>10. vault \in VaultRow /\ vault.ik = a.vault.ik /\ vault.spk = g /\ vault.otps = OtpIds
  BY <1>3, <1>4, <1>7 DEF VaultRow
<1>11. /\ prekey' = [prekey EXCEPT ![bd] = Upserted(prekey[bd], g)]
       /\ bot' = [bot EXCEPT !.ver = a.row.ver + 1, !.spk = g, !.vault = vault]
       /\ stale' = (stale \/ bot.ver # a.row.ver \/ bot.vault # a.vault)
       /\ UNCHANGED <<made, channel, mls, dmVars, given, opened>>
  BY <1>1, <1>7, Constants DEF CommitRotate, BotInv, TablesOK
<1>12. identity' = [identity EXCEPT ![bd] = row]
  <2>1. identity' = [identity EXCEPT ![bd].ver = a.row.ver + 1, ![bd].spk = g]
    BY <1>1 DEF CommitRotate
  <2>. QED
    BY <1>5, <1>7, <2>1, Constants
<1>13. bot' \in BotRow /\ bot'.ver = a.row.ver + 1 /\ bot'.ik = bot.ik /\ bot'.spk = g
       /\ bot'.vault = vault
  BY <1>4, <1>6, <1>8, <1>10, <1>11 DEF BotRow
<1>14. stale' \in BOOLEAN /\ (~stale' => ~stale /\ bot.vault = a.vault)
  BY <1>6, <1>11
<1>15. ~stale' => bot'.vault.ik = row.ik
  BY <1>6, <1>9, <1>10, <1>13, <1>14 DEF VaultMirrored
<1>16. PICK rows : rows = Upserted(prekey[bd], g)
  OBVIOUS
<1>17. /\ rows \in SUBSET PreKeyRow
       /\ \A p \in rows : p.row \in 1 .. made /\ p.key \in OtpIds /\ p.pub = g /\ ~p.used
       /\ \A p, q \in rows : p.key = q.key => p = q
  BY <1>3, <1>16, UpsertedRows
<1>18. bot'.ik = row.ik
  BY <1>6, <1>9, <1>13 DEF MirrorsAgree
<1>19. Writes(g, rows, row)
  BY <1>6, <1>8, <1>9, <1>10, <1>11, <1>12, <1>13, <1>14, <1>15, <1>16, <1>17, <1>18 DEF Writes
<1>. QED
  BY <1>1, <1>2, <1>19, WritesKeep

\* rebuild: everything anew.
LEMMA CommitRebuildKeeps ==
    ASSUME BotInv, NEW r \in Request, CommitRebuild(r)
    PROVE  BotInv'
<1>1. PICK a, g : a = arg[r] /\ g = a.gen
  OBVIOUS
<1>2. Leave(r, "rebuild") /\ pc[r] = "rebuild" /\ pc[r] \in GenSteps
  BY DEF CommitRebuild, Leave, GoTo, GenSteps
<1>3. g \in 1 .. made /\ a.row \in BotRow
  BY <1>1, <1>2 DEF BotInv, RequestsOK, RequestOK, AdminOK
<1>4. g \in Generation
  BY <1>3, BatchRows
<1>5. identity[bd].retired \in BOOLEAN
  BY Constants DEF BotInv, TablesOK, IdentityRow
<1>6. stale \in BOOLEAN /\ channel \in [on : BOOLEAN, cred : BOOLEAN, package : BOOLEAN]
  BY DEF BotInv, BotOK
<1>7. PICK v \in Nat : v = a.row.ver + 1 /\ v > 0
  BY <1>3 DEF BotRow
<1>8. PICK row : row = [ver |-> v, ik |-> g, spk |-> g, retired |-> identity[bd].retired]
  OBVIOUS
<1>9. row \in IdentityRow /\ row.ver = v /\ row.ik = g /\ row.spk = g
  BY <1>4, <1>5, <1>8 DEF IdentityRow
<1>10. /\ bot' = [ver |-> v, ik |-> g, spk |-> g, vault |-> [ik |-> g, spk |-> g, otps |-> OtpIds]]
       /\ identity' = [identity EXCEPT ![bd] = row]
       /\ prekey' = [prekey EXCEPT ![bd] = Batch(g)]
       /\ stale' = (stale \/ bot.ver # a.row.ver)
       /\ channel' = [channel EXCEPT !.cred = FALSE, !.package = FALSE]
       /\ UNCHANGED <<made, mls, dmVars, given, opened>>
  BY <1>1, <1>7, <1>8 DEF CommitRebuild, Mirror, Material
<1>11. bot' \in BotRow
  BY <1>4, <1>10 DEF BotRow, VaultRow
<1>12. channel' \in [on : BOOLEAN, cred : BOOLEAN, package : BOOLEAN] /\ ~channel'.cred
  BY <1>6, <1>10
<1>13. stale' \in BOOLEAN /\ (~stale' => ~stale)
  BY <1>6, <1>10
<1>14. PICK rows : rows = Batch(g)
  OBVIOUS
<1>15. /\ rows \in SUBSET PreKeyRow
       /\ \A p \in rows : p.row \in 1 .. made /\ p.key \in OtpIds /\ p.pub = g /\ ~p.used
       /\ \A p, q \in rows : p.key = q.key => p = q
  BY <1>3, <1>14, BatchRows
<1>16. Writes(g, rows, row)
  BY <1>7, <1>9, <1>10, <1>11, <1>12, <1>13, <1>14, <1>15 DEF Writes
<1>. QED
  BY <1>1, <1>2, <1>16, WritesKeep

-----------------------------------------------------------------------------
\* set_channel_enabled: what it writes.
LEMMA ChannelGrows ==
    ASSUME BotInv, UNCHANGED <<keyVars, bot, dmVars, opened>>, \A g : Settled(g) => Settled(g)',
           ~stale' => ~stale, mls'.cred = mls.cred \/ (~stale' => mls'.cred = bot.ik)
    PROVE  Grows
<1>1. made \in Nat /\ made' = made /\ made <= made'
  BY MadeIsNat DEF BotInv, keyVars
<1>2. (Initialized => Initialized') /\ UNCHANGED <<Pending, envelope, bot, prekey, identity>>
  BY DEF Initialized, Pending, keyVars, dmVars
<1>3. \A x \in Person : identity[x].ver <= identity'[x].ver
  BY <1>2 DEF BotInv, TablesOK, Person, IdentityRow
<1>. QED
  BY <1>1, <1>2, <1>3 DEF Grows, SameRow

\* The parts of the invariant that are about something else last.
LEMMA ChannelMoves ==
    ASSUME BotInv, UNCHANGED <<keyVars, bot, dmVars, given, opened>>, Grows,
           channel' \in [on : BOOLEAN, cred : BOOLEAN, package : BOOLEAN],
           mls' \in [cred : Generation, packages : Nat], stale' \in BOOLEAN,
           ~stale' => ~stale, channel'.cred => Initialized,
           ~stale' /\ channel'.cred => mls'.cred = bot.ik,
           RequestsOK', CountOK'
    PROVE  BotInv'
<1>1. TablesOK'
  BY MadeIsNat, TablesKeep DEF BotInv, keyVars
<1>2. BotOK'
  <2>1. Settled(bot.ik)' /\ \A o \in opened' : Settled(o.pub)'
    BY DEF BotInv, BotOK, Grows
  <2>2. MirrorsAgree' /\ OfferedIsCurrent' /\ VaultMirrored' /\ UsedSecretGone'
    BY DEF BotInv, BotOK, MirrorsAgree, OfferedIsCurrent, VaultMirrored, UsedSecretGone,
           Fresh, keyVars
  <2>3. CredentialCurrent' /\ (~Initialized' => ~channel'.cred)
    BY DEF CredentialCurrent, Initialized
  <2>4. bot' \in BotRow
    BY DEF BotInv, BotOK
  <2>. QED
    BY <2>1, <2>2, <2>3, <2>4 DEF BotOK, Initialized, BotRow, VaultRow
<1>3. MessagesOK'
  <2>1. FailedWrapBurnsNothing'
    BY DEF BotInv, MessagesOK, EnvelopesReadable, FailedWrapBurnsNothing, keyVars
  <2>. QED
    BY <2>1, MessagesKeep DEF BotInv, dmVars
<1>. QED
  BY <1>1, <1>2, <1>3 DEF BotInv

\* A step of set_channel_enabled.
LEMMA EnableMoves ==
    ASSUME BotInv, NEW r \in Request, NEW to \in EnableSteps, NEW new, Moves(r, to, new),
           pc[r] \in EnableSteps, new.row = arg[r].row,
           to \in {"publish", "mark credential", "mark package"} =>
             new = [row |-> new.row, left |-> new.left],
           to = "mark credential" => (~stale' /\ new.row.ik = bot.ik => mls'.cred = bot.ik),
           UNCHANGED <<keyVars, bot, dmVars, given, opened>>,
           calls <= calls', calls' \in 0 .. MaxCalls,
           channel' \in [on : BOOLEAN, cred : BOOLEAN, package : BOOLEAN],
           mls' \in [cred : Generation, packages : Nat], stale' \in BOOLEAN,
           ~stale' => ~stale, mls'.cred = mls.cred \/ (~stale' => mls'.cred = bot.ik),
           ~stale' /\ channel'.cred => mls'.cred = bot.ik
    PROVE  BotInv'
<1>1. made \in Nat /\ made' = made /\ made <= made' /\ made' \in Nat
  <2>1. made \in Nat
    BY MadeIsNat DEF BotInv
  <2>2. made' = made
    BY DEF keyVars
  <2>. QED
    BY <2>1, <2>2, NextNumber, Zenon
<1>2. to \notin GenSteps /\ to \notin {"append", "status", "store", "plain"}
  BY DEF GenSteps, EnableSteps
<1>3. \A g : Settled(g) => Settled(g)'
  BY <1>1, <1>2, SettledKeeps DEF BotInv
<1>4. Grows
  BY <1>3, ChannelGrows
<1>5. arg[r].row \in BotRow /\ Initialized /\ Settled(arg[r].row.ik)
  BY DEF BotInv, RequestsOK, RequestOK, AdminOK, EnableSteps
<1>6. AdminOK(to, new)'
  <2>1. new.row \in BotRow /\ Initialized' /\ Settled(new.row.ik)'
    BY <1>3, <1>5 DEF Initialized
  <2>. QED
    BY <1>2, <2>1 DEF AdminOK, BotRow, VaultRow, GenSteps, EnableSteps
<1>7. RequestOK(to, new)'
  BY <1>6 DEF RequestOK, SendOK, CatchUpOK, BundleOK, EnableSteps, JobSteps
<1>8. RequestsOK'
  <2>1. identity \in [Device -> IdentityRow] /\ identity' \in [Device -> IdentityRow]
    BY DEF BotInv, TablesOK, keyVars
  <2>2. Owns(to, new, r) /\ LeavesClaims(r)
    BY <1>2 DEF Owns, LeavesClaims, dmVars
  <2>. QED
    BY <1>1, <1>2, <1>4, <1>7, <2>1, <2>2, RequestsKeep DEF BotInv
<1>9. CountOK'
  BY <1>2, CountKeeps DEF BotInv, dmVars
<1>. QED
  BY <1>4, <1>5, <1>8, <1>9, ChannelMoves

\* The rows of the channel and of MLS, and what CredentialCurrent says.
LEMMA ChannelFacts ==
    ASSUME BotInv
    PROVE  /\ channel \in [on : BOOLEAN, cred : BOOLEAN, package : BOOLEAN]
           /\ mls \in [cred : Generation, packages : Nat] /\ stale \in BOOLEAN
           /\ ~stale /\ channel.cred => mls.cred = bot.ik
BY DEF BotInv, BotOK, CredentialCurrent

\* The channel is on.
LEMMA EnableChannelKeeps ==
    ASSUME BotInv, NEW r \in Request, EnableChannel(r)
    PROVE  BotInv'
<1>1. PICK new : new = arg[r]
  OBVIOUS
<1>2. /\ Moves(r, "read marks", new) /\ pc[r] = "enable"
      /\ calls <= calls' /\ calls' \in 0 .. MaxCalls
  BY <1>1, WentOn DEF EnableChannel
<1>3. /\ channel' = [channel EXCEPT !.on = TRUE]
      /\ UNCHANGED <<keyVars, bot, mls, dmVars, given, opened, stale>>
  BY DEF EnableChannel, ghostVars
<1>4. channel' \in [on : BOOLEAN, cred : BOOLEAN, package : BOOLEAN] /\ channel'.cred = channel.cred
  BY <1>3, ChannelFacts
<1>. QED
  BY <1>1, <1>2, <1>3, <1>4, ChannelFacts, EnableMoves DEF EnableSteps

\* What a request that publishes has read.
LEMMA PublishFacts ==
    ASSUME BotInv, NEW r \in Request, pc[r] \in {"publish", "mark credential", "mark package"}
    PROVE  /\ arg[r] = [row |-> arg[r].row, left |-> arg[r].left]
           /\ arg[r].row \in BotRow /\ arg[r].row.ik \in Generation
           /\ pc[r] = "mark credential" => (~stale /\ arg[r].row.ik = bot.ik => mls.cred = bot.ik)
BY DEF BotInv, RequestsOK, RequestOK, AdminOK, EnableSteps, BotRow

\* The credential names the identity key that was read, ...
LEMMA PutCredentialKeeps ==
    ASSUME BotInv, NEW r \in Request, PutCredential(r)
    PROVE  BotInv'
<1>1. PICK new : new = arg[r]
  OBVIOUS
<1>2. /\ Moves(r, "mark credential", new) /\ pc[r] = "publish"
      /\ calls <= calls' /\ calls' \in 0 .. MaxCalls
  BY <1>1, WentOn DEF PutCredential
<1>3. /\ mls' = [mls EXCEPT !.cred = new.row.ik]
      /\ stale' = (stale \/ bot.ik # new.row.ik)
      /\ UNCHANGED <<keyVars, bot, channel, dmVars, given, opened>>
  BY <1>1 DEF PutCredential
<1>4. new = [row |-> new.row, left |-> new.left] /\ new.row.ik \in Generation
  BY <1>1, <1>2, PublishFacts
<1>5. mls' \in [cred : Generation, packages : Nat] /\ mls'.cred = new.row.ik
  BY <1>3, <1>4, ChannelFacts
<1>6. stale' \in BOOLEAN /\ (~stale' => ~stale /\ new.row.ik = bot.ik)
  BY <1>3, ChannelFacts
<1>. QED
  BY <1>1, <1>2, <1>3, <1>4, <1>5, <1>6, ChannelFacts, EnableMoves DEF EnableSteps

\* ... and the mark comes after it.
LEMMA MarkCredentialKeeps ==
    ASSUME BotInv, NEW r \in Request, MarkCredential(r)
    PROVE  BotInv'
<1>1. PICK a, new : a = arg[r] /\ new = [a EXCEPT !.left = @ \ {"credential"}]
  OBVIOUS
<1>2. /\ Moves(r, "publish", new) /\ pc[r] = "mark credential"
      /\ calls <= calls' /\ calls' \in 0 .. MaxCalls
  BY <1>1, WentOn DEF MarkCredential
<1>3. /\ channel' = [channel EXCEPT !.cred = TRUE]
      /\ stale' = (stale \/ bot.ik # a.row.ik)
      /\ UNCHANGED <<keyVars, bot, mls, dmVars, given, opened>>
  BY <1>1 DEF MarkCredential
<1>4. /\ a = [row |-> a.row, left |-> a.left]
      /\ ~stale /\ a.row.ik = bot.ik => mls.cred = bot.ik
  BY <1>1, <1>2, PublishFacts
<1>5. new = [row |-> new.row, left |-> new.left] /\ new.row = a.row
  <2>1. PICK row, left : a = [row |-> row, left |-> left]
    BY <1>4
  <2>2. new = [row |-> row, left |-> left \ {"credential"}]
    BY <1>1, <2>1
  <2>. QED
    BY <2>1, <2>2
<1>6. channel' \in [on : BOOLEAN, cred : BOOLEAN, package : BOOLEAN]
  BY <1>3, ChannelFacts
<1>7. stale' \in BOOLEAN /\ (~stale' => ~stale /\ a.row.ik = bot.ik)
  BY <1>3, ChannelFacts
<1>. QED
  BY <1>1, <1>2, <1>3, <1>4, <1>5, <1>6, <1>7, ChannelFacts, EnableMoves DEF EnableSteps

\* A key package, ...
LEMMA PublishPackageKeeps ==
    ASSUME BotInv, NEW r \in Request, PublishPackage(r)
    PROVE  BotInv'
<1>1. PICK new : new = arg[r]
  OBVIOUS
<1>2. /\ Moves(r, "mark package", new) /\ pc[r] = "publish"
      /\ calls <= calls' /\ calls' \in 0 .. MaxCalls
  BY <1>1, WentOn DEF PublishPackage
<1>3. /\ mls' = [mls EXCEPT !.packages = @ + 1]
      /\ UNCHANGED <<keyVars, bot, channel, dmVars, given, opened, stale>>
  BY DEF PublishPackage, ghostVars
<1>4. new = [row |-> new.row, left |-> new.left]
  BY <1>1, <1>2, PublishFacts
<1>5. mls' \in [cred : Generation, packages : Nat] /\ mls'.cred = mls.cred
  BY <1>3, ChannelFacts
<1>. QED
  BY <1>1, <1>2, <1>3, <1>4, <1>5, ChannelFacts, EnableMoves DEF EnableSteps

\* ... and its mark.
LEMMA MarkPackageKeeps ==
    ASSUME BotInv, NEW r \in Request, MarkPackage(r)
    PROVE  BotInv'
<1>1. PICK a, new : a = arg[r] /\ new = [a EXCEPT !.left = {}]
  OBVIOUS
<1>2. /\ Moves(r, "publish", new) /\ pc[r] = "mark package"
      /\ calls <= calls' /\ calls' \in 0 .. MaxCalls
  BY <1>1, WentOn DEF MarkPackage
<1>3. /\ channel' = [channel EXCEPT !.package = TRUE]
      /\ UNCHANGED <<keyVars, bot, mls, dmVars, given, opened, stale>>
  BY DEF MarkPackage, ghostVars
<1>4. a = [row |-> a.row, left |-> a.left]
  BY <1>1, <1>2, PublishFacts
<1>5. new = [row |-> new.row, left |-> new.left] /\ new.row = a.row
  <2>1. PICK row, left : a = [row |-> row, left |-> left]
    BY <1>4
  <2>2. new = [row |-> row, left |-> {}]
    BY <1>1, <2>1
  <2>. QED
    BY <2>1, <2>2
<1>6. channel' \in [on : BOOLEAN, cred : BOOLEAN, package : BOOLEAN] /\ channel'.cred = channel.cred
  BY <1>3, ChannelFacts
<1>. QED
  BY <1>1, <1>2, <1>3, <1>5, <1>6, ChannelFacts, EnableMoves DEF EnableSteps

\* The channel is off.
LEMMA DisableChannelKeeps ==
    ASSUME BotInv, NEW r \in Request, DisableChannel(r)
    PROVE  BotInv'
<1>1. /\ channel' = [channel EXCEPT !.on = FALSE]
      /\ UNCHANGED <<keyVars, bot, mls, dmVars, given, opened, stale, pc, arg, calls>>
  BY DEF DisableChannel, ghostVars, boundVars
<1>2. channel' \in [on : BOOLEAN, cred : BOOLEAN, package : BOOLEAN] /\ channel'.cred = channel.cred
  BY <1>1, ChannelFacts
<1>3. made \in Nat /\ made' = made /\ made <= made' /\ made' \in Nat
  BY <1>1, MadeIsNat DEF BotInv, keyVars
<1>4. \A g : Settled(g) => Settled(g)'
  BY <1>1, <1>3, SettledRests
<1>5. Grows
  BY <1>1, <1>4, ChannelGrows
<1>6. RequestsOK'
  BY <1>1, <1>3, <1>5, RequestsRest DEF BotInv, TablesOK, keyVars, dmVars
<1>7. CountOK'
  BY <1>1, CountRests DEF BotInv, dmVars
<1>8. channel.cred => Initialized
  BY DEF BotInv, BotOK
<1>. QED
  BY <1>1, <1>2, <1>5, <1>6, <1>7, <1>8, ChannelFacts, ChannelMoves

-----------------------------------------------------------------------------
\* The opening of an inbound envelope: the one-time secret leaves the vault,
\* and none that is on offer has the key it took.
LEMMA PersistKeeps ==
    ASSUME BotInv, NEW r \in Request, Persist(r)
    PROVE  BotInv'
<1>1. PICK a, o : a = arg[r] /\ o = a.env.otp
  OBVIOUS
<1>2. PICK to, new : to = "idle" /\ new = NoArg
  OBVIOUS
<1>3. /\ Moves(r, to, new) /\ pc[r] = "persist"
      /\ calls <= calls' /\ calls' \in 0 .. MaxCalls
  BY <1>2, WentOn DEF Persist, Leave
<1>4. /\ a.vault \in VaultRow /\ o.pub = a.vault.spk
      /\ Settled(o.pub) /\ Spent(o)
  BY <1>1, <1>3 DEF BotInv, RequestsOK, RequestOK, BundleOK
<1>5. PICK vault : vault = [a.vault EXCEPT !.otps = @ \ {o.key}]
  OBVIOUS
<1>6. /\ vault \in VaultRow /\ vault.ik = a.vault.ik /\ vault.spk = a.vault.spk
      /\ vault.otps = a.vault.otps \ {o.key}
  BY <1>4, <1>5 DEF VaultRow
<1>7. /\ bot' = [bot EXCEPT !.vault = vault]
      /\ opened' = opened \cup {[key |-> o.key, pub |-> o.pub]}
      /\ stale' = (stale \/ bot.vault # a.vault)
      /\ UNCHANGED <<keyVars, channel, mls, dmVars, given>>
  BY <1>1, <1>5 DEF Persist
<1>8. bot \in BotRow /\ BotOK
  BY DEF BotInv, BotOK
<1>9. /\ bot' \in BotRow /\ bot'.ver = bot.ver /\ bot'.ik = bot.ik /\ bot'.spk = bot.spk
      /\ bot'.vault = vault
  BY <1>6, <1>7, <1>8 DEF BotRow
<1>10. stale' \in BOOLEAN /\ (~stale' => ~stale /\ bot.vault = a.vault)
  BY <1>7, ChannelFacts
<1>11. made \in Nat /\ made' = made /\ made <= made' /\ made' \in Nat /\ made' \in Generation
  BY <1>7, MadeIsNat DEF BotInv, keyVars
<1>12. \A g : Settled(g) => Settled(g)'
  BY <1>2, <1>3, <1>11, SettledKeeps DEF BotInv, GenSteps
<1>13. Grows
  <2>1. (Initialized => Initialized') /\ UNCHANGED <<Pending, envelope, prekey, identity>>
    BY <1>7, <1>9 DEF Initialized, Pending, keyVars, dmVars
  <2>2. \A x \in Person : identity[x].ver <= identity'[x].ver
    BY <2>1 DEF BotInv, TablesOK, Person, IdentityRow
  <2>3. mls' = mls
    BY <1>7
  <2>. QED
    BY <1>9, <1>10, <1>11, <1>12, <2>1, <2>2, <2>3 DEF Grows, SameRow
<1>14. RequestsOK'
  <2>1. identity \in [Device -> IdentityRow] /\ identity' \in [Device -> IdentityRow]
    BY <1>7 DEF BotInv, TablesOK, keyVars
  <2>2. Owns(to, new, r) /\ LeavesClaims(r) /\ RequestOK(to, new)' /\ to \notin GenSteps
    BY <1>2, <1>7, Idle DEF Owns, LeavesClaims, dmVars, GenSteps
  <2>. QED
    BY <1>3, <1>11, <1>13, <2>1, <2>2, RequestsKeep DEF BotInv
<1>15. TablesOK'
  BY <1>7, <1>11, <1>13, TablesKeep DEF BotInv, keyVars
<1>16. BotOK'
  <2>1. Settled(bot.ik)' /\ \A x \in opened' : Settled(x.pub)'
    <3>1. Settled(bot.ik) /\ \A x \in opened : Settled(x.pub)
      BY <1>8 DEF BotOK
    <3>2. PICK ik : ik = bot.ik
      OBVIOUS
    <3>3. Settled(ik)' /\ bot'.ik = ik
      BY <1>9, <1>12, <3>1, <3>2
    <3>4. Settled(bot.ik)'
      BY <3>3 DEF Settled
    <3>5. \A x \in opened' : x \in opened \/ x.pub = o.pub
      BY <1>7
    <3>. QED
      BY <1>4, <1>12, <3>1, <3>4, <3>5
  <2>2. UNCHANGED <<identity, prekey>> /\ UNCHANGED Fresh(bd)
    BY <1>7 DEF keyVars, Fresh
  <2>3. MirrorsAgree' /\ OfferedIsCurrent' /\ CredentialCurrent'
    BY <1>7, <1>8, <1>9, <1>10, <2>2 DEF BotOK, MirrorsAgree, OfferedIsCurrent, CredentialCurrent
  <2>4. VaultMirrored'
    <3>1. ASSUME ~stale', NEW p \in Fresh(bd) PROVE p.key \in vault.otps
      <4>1. /\ p.pub = identity[bd].spk /\ bot.vault.spk = identity[bd].spk
            /\ p.key \in bot.vault.otps /\ bot.vault = a.vault
        BY <1>8, <1>10, <3>1 DEF BotOK, OfferedIsCurrent, VaultMirrored
      <4>2. p \in prekey[bd] /\ ~p.used
        BY DEF Fresh
      <4>3. p.key # o.key
        BY <1>4, <4>1, <4>2 DEF Spent
      <4>. QED
        BY <1>6, <4>1, <4>3
    <3>2. ~stale' => bot'.vault.ik = identity'[bd].ik /\ bot'.vault.spk = identity'[bd].spk
      BY <1>6, <1>8, <1>9, <1>10, <2>2 DEF BotOK, VaultMirrored
    <3>. QED
      BY <1>9, <2>2, <3>1, <3>2 DEF VaultMirrored
  <2>5. UsedSecretGone'
    <3>1. ASSUME ~stale', NEW x \in opened', x.key \in vault.otps PROVE x.pub # vault.spk
      <4>1. x.key # o.key /\ x.key \in bot.vault.otps /\ bot.vault.spk = vault.spk
        BY <1>6, <1>10, <3>1
      <4>2. x \in opened
        BY <1>7, <4>1
      <4>. QED
        BY <1>8, <1>10, <3>1, <4>1, <4>2 DEF BotOK, UsedSecretGone
    <3>. QED
      BY <1>9, <3>1 DEF UsedSecretGone
  <2>6. /\ channel' \in [on : BOOLEAN, cred : BOOLEAN, package : BOOLEAN]
        /\ mls' \in [cred : Generation, packages : Nat]
        /\ ~Initialized' => ~channel'.cred
    BY <1>7, <1>8, <1>9 DEF BotOK, Initialized
  <2>. QED
    BY <1>9, <1>10, <2>1, <2>3, <2>4, <2>5, <2>6 DEF BotOK, Initialized, BotRow, VaultRow
<1>17. CountOK'
  BY <1>2, <1>3, <1>7, CountKeeps DEF BotInv, dmVars
<1>18. MessagesOK'
  <2>1. FailedWrapBurnsNothing'
    BY <1>7 DEF BotInv, MessagesOK, EnvelopesReadable, FailedWrapBurnsNothing, keyVars
  <2>. QED
    BY <1>7, <1>13, <2>1, MessagesKeep DEF BotInv, dmVars
<1>. QED
  BY <1>14, <1>15, <1>16, <1>17, <1>18 DEF BotInv

-----------------------------------------------------------------------------
\* The initial states.
LEMMA BotInit == ASSUME Init PROVE BotInv
<1>1. /\ identity = [d \in Device |-> NoIdentity] /\ prekey = [d \in Device |-> {}] /\ made = 0
      /\ bot = NoBot /\ channel = [on |-> FALSE, cred |-> FALSE, package |-> FALSE]
      /\ mls = [cred |-> 0, packages |-> 0] /\ sent = [m \in {} |-> m]
      /\ envelope = {} /\ secret = {} /\ answered = {} /\ opened = {} /\ stale = FALSE
      /\ pc = [r \in Request |-> "idle"] /\ arg = [r \in Request |-> NoArg] /\ calls = 0
  BY DEF Init, InitKeys
<1>2. 0 \in Generation /\ 0 \in Nat /\ bd \in Device
  BY Constants DEF Generation
<1>3. \A q \in Request : pc[q] = "idle"
  BY <1>1
<1>4. RequestsOK
  <2>1. \A r \in Request : RequestOK(pc[r], arg[r])
    BY <1>3, Idle
  <2>2. Apart
    BY <1>3 DEF Apart, GenSteps
  <2>. QED
    BY <1>1, <2>1, <2>2 DEF RequestsOK
<1>5. Settled(0)
  BY <1>1, <1>3 DEF Settled, GenSteps
<1>6. TablesOK
  <2>1. NoIdentity \in IdentityRow /\ NoIdentity.ik = 0 /\ NoIdentity.spk = 0
    BY <1>2 DEF NoIdentity, IdentityRow
  <2>2. \A d \in Device : identity[d] = NoIdentity /\ prekey[d] = {}
    BY <1>1
  <2>3. identity \in [Device -> IdentityRow] /\ prekey \in [Device -> SUBSET PreKeyRow]
    BY <1>1, <2>1
  <2>. QED
    BY <1>1, <1>2, <2>1, <2>2, <2>3 DEF TablesOK, Person, IdentityRow, PreKeyRow
<1>7. BotOK
  <2>1. NoBot \in BotRow /\ NoBot.ver = 0 /\ NoBot.ik = 0 /\ NoBot.spk = 0
        /\ NoBot.vault.ik = 0 /\ NoBot.vault.spk = 0
    BY <1>2 DEF NoBot, NoVault, BotRow, VaultRow
  <2>2. identity[bd].ver = 0 /\ identity[bd].ik = 0 /\ identity[bd].spk = 0 /\ Fresh(bd) = {}
    BY <1>1, <1>2 DEF NoIdentity, Fresh
  <2>3. MirrorsAgree /\ OfferedIsCurrent /\ VaultMirrored /\ UsedSecretGone /\ CredentialCurrent
    BY <1>1, <2>1, <2>2 DEF MirrorsAgree, OfferedIsCurrent, VaultMirrored, UsedSecretGone,
       CredentialCurrent
  <2>. QED
    BY <1>1, <1>2, <1>5, <2>1, <2>3 DEF BotOK
<1>8. CountOK
  <2>1. Sending = {}
    BY <1>3 DEF Sending
  <2>2. IsFiniteSet(Sending) /\ Cardinality(Sending) = 0
    BY <2>1, FS_EmptySet
  <2>3. DOMAIN sent = 1 .. 0
    BY <1>1
  <2>. QED
    BY <1>1, <2>2, <2>3, Constants DEF CountOK
<1>9. MessagesOK
  <2>1. \A d \in Person : prekey[d] = {}
    BY <1>1 DEF Person
  <2>2. FailedWrapBurnsNothing
    BY <2>1 DEF FailedWrapBurnsNothing
  <2>3. KeyClaimedOnce /\ EnvelopeNotOlder /\ AnsweredIsReadable
    BY <1>1 DEF KeyClaimedOnce, EnvelopeNotOlder, AnsweredIsReadable
  <2>4. secret \subseteq Pending /\ answered \subseteq DOMAIN sent
    BY <1>1
  <2>. QED
    BY <1>1, <2>2, <2>3, <2>4 DEF MessagesOK, EnvelopesReadable
<1>. QED
  BY <1>4, <1>6, <1>7, <1>8, <1>9 DEF BotInv

\* Nothing changes.
LEMMA BotStutters == ASSUME BotInv, UNCHANGED vars PROVE BotInv'
<1>1. UNCHANGED <<identity, prekey, made, botVars, dmVars, ghostVars, pc, arg, calls>>
  BY DEF vars, keyVars, boundVars
<1>2. \A g : Settled(g) => Settled(g)'
  BY <1>1 DEF Settled
<1>3. UNCHANGED <<bot, channel, mls, sent, envelope, secret, answered, given, opened, stale>>
  BY <1>1 DEF botVars, dmVars, ghostVars
<1>4. Grows
  BY <1>1, <1>2, <1>3, ChannelGrows DEF keyVars
<1>5. RequestsOK'
  BY <1>1, <1>3, <1>4, RequestsRest, MadeIsNat DEF BotInv, TablesOK
<1>6. CountOK'
  BY <1>1, <1>3, CountRests DEF BotInv
<1>7. channel.cred => Initialized
  BY DEF BotInv, BotOK
<1>. QED
  BY <1>1, <1>3, <1>4, <1>5, <1>6, <1>7, ChannelFacts, ChannelMoves DEF keyVars

\* One lemma for each action.
LEMMA BotStep == ASSUME BotInv, [Next]_vars PROVE BotInv'
<1>1. ASSUME NEW r \in Request, AdminStep(r) PROVE BotInv'
  BY <1>1, BeginInitializeKeeps, CommitInitializeKeeps, BeginRotateKeeps, LoadForRotateKeeps,
     CommitRotateKeeps, BeginRebuildKeeps, CommitRebuildKeeps, BeginEnableKeeps,
     EnableChannelKeeps, ReadMarksKeeps, PutCredentialKeeps, MarkCredentialKeeps,
     PublishPackageKeeps, MarkPackageKeeps, FinishEnableKeeps, DisableChannelKeeps DEF AdminStep
<1>2. ASSUME NEW r \in Request, SendStep(r) PROVE BotInv'
  BY <1>2, BeginSendKeeps, StatusKeeps, StatusFailsKeeps, SendPlainKeeps, StoreEncryptedKeeps,
     FetchDevicesKeeps, WrapKeeps, ClaimKeeps, AppendEnvelopeKeeps, FinishSendKeeps,
     CatchUpLasts, FetchDeviceKeeps, FinishCatchUpKeeps DEF SendStep
<1>3. ASSUME NEW r \in Request, ClientStep(r) PROVE BotInv'
  BY <1>3, PutIdentityKeeps, BeginBundleKeeps, BundlePrekeyKeeps, ConsumePrekeyKeeps,
     FinishBundleKeeps, PostEnvelopeKeeps, ReadEnvelopeKeeps, LoadVaultKeeps, PersistKeeps
     DEF ClientStep
<1>4. ASSUME NEW r \in Request, Cut(r) PROVE BotInv'
  BY <1>4, CutKeeps
<1>5. ASSUME NEW d \in Person, NEW wellformed \in BOOLEAN, UploadPrekeys(d, wellformed)
      PROVE  BotInv'
  BY <1>5, UploadPrekeysKeeps
<1>6. ASSUME NEW d \in Person, EndSession(d) PROVE BotInv'
  BY <1>6, EndSessionKeeps
<1>7. CASE UNCHANGED vars
  BY <1>7, BotStutters
<1>. QED
  BY <1>1, <1>2, <1>3, <1>4, <1>5, <1>6, <1>7 DEF Next

\* The inductive invariant of the bots' vault and messages.
THEOREM BotInvariant == Spec => []BotInv
BY BotInit, BotStep, PTL DEF Spec

\* The types, from the parts of the invariant.
LEMMA TypesFollow == ASSUME BotInv PROVE TypeOK
<1>1. KeysTypeOK
  BY DEF BotInv, TablesOK, KeysTypeOK, IdentityRow
<1>2. DOMAIN sent \subseteq Mids
  <2>1. PICK n \in Nat : DOMAIN sent = 1 .. n /\ n + Cardinality(Sending) <= calls
    BY DEF BotInv, CountOK
  <2>2. Cardinality(Sending) \in Nat /\ calls \in 0 .. MaxCalls
    BY FS_CardinalityType DEF BotInv, CountOK
  <2>3. n <= MaxCalls
    BY <2>1, <2>2, Constants
  <2>. QED
    BY <2>1, <2>3, Constants DEF Mids
<1>3. /\ bot \in [ver : Nat, ik : Generation, spk : Generation,
                  vault : [ik : Generation, spk : Generation, otps : SUBSET OtpIds]]
      /\ channel \in [on : BOOLEAN, cred : BOOLEAN, package : BOOLEAN]
      /\ mls \in [cred : Generation, packages : Nat]
  BY DEF BotInv, BotOK, BotRow, VaultRow
<1>4. secret \cup answered \subseteq DOMAIN sent
      /\ \A e \in envelope : e.mid \in Inbound \cup Pending /\ e.dev \in Device
  BY DEF BotInv, MessagesOK, Pending
<1>. QED
  BY <1>1, <1>2, <1>3, <1>4 DEF TypeOK

\* initialize, rotate, rebuild and handle_inbound_bot_envelope: the bot's
\* vault, its mirrors, its keys on offer and its credential belong together.
THEOREM BotKeysStayTogether == Spec => []BotKeysAgree
<1>1. BotInv => BotKeysAgree
  BY TypesFollow DEF BotInv, BotOK, BotKeysAgree
<1>. QED
  BY <1>1, BotInvariant, PTL

\* send_bot_dm, catch_up_pending_sends and try_consume_one_time_prekey: what a
\* bot has sent can be opened by whom it was made for.
THEOREM EnvelopesStayReadable == Spec => []EnvelopesReadable
<1>1. BotInv => EnvelopesReadable
  BY DEF BotInv, MessagesOK
<1>. QED
  BY <1>1, BotInvariant, PTL

-----------------------------------------------------------------------------
\* Who writes e2e_identity.
LEMMA IdentityWriters ==
    ASSUME Next, identity' # identity
    PROVE  \/ \E r \in Request : CommitInitialize(r) \/ CommitRotate(r) \/ CommitRebuild(r)
           \/ \E r \in Request, d \in Person, fresh \in BOOLEAN : PutIdentity(r, d, fresh)
           \/ \E d \in Person : EndSession(d)
<1>1. ASSUME NEW r \in Request, AdminStep(r)
      PROVE  CommitInitialize(r) \/ CommitRotate(r) \/ CommitRebuild(r)
  BY <1>1 DEF AdminStep, BeginInitialize, BeginRotate, LoadForRotate, BeginRebuild, BeginEnable,
     EnableChannel, ReadMarks, PutCredential, MarkCredential, PublishPackage, MarkPackage,
     FinishEnable, DisableChannel, keyVars
<1>2. ASSUME NEW r \in Request, SendStep(r) PROVE FALSE
  BY <1>2 DEF SendStep, BeginSend, Status, StatusFails, SendPlain, StoreEncrypted, FetchDevices,
     Wrap, Claim, AppendEnvelope, FinishSend, CatchUp, FetchDevice, FinishCatchUp, keyVars
<1>3. ASSUME NEW r \in Request, ClientStep(r)
      PROVE  \E d \in Person, fresh \in BOOLEAN : PutIdentity(r, d, fresh)
  BY <1>3 DEF ClientStep, BeginBundle, BundlePrekey, ConsumePrekey, FinishBundle, PostEnvelope,
     ReadEnvelope, LoadVault, Persist, keyVars
<1>4. \A r \in Request : ~Cut(r)
  BY DEF Cut, keyVars
<1>5. \A d \in Person, wellformed \in BOOLEAN : ~UploadPrekeys(d, wellformed)
  BY DEF UploadPrekeys, PutPrekeys
<1>. QED
  BY <1>1, <1>2, <1>3, <1>4, <1>5 DEF Next

\* New keys of a device come with a higher version.
HigherVersion(d) ==
    (identity'[d].ik # identity[d].ik \/ identity'[d].spk # identity[d].spk)
    /\ ~(d = bd /\ stale') => identity'[d].ver > identity[d].ver

\* A commit of the bot: the version follows the one it has read.
LEMMA BotVersionRises ==
    ASSUME BotInv, NEW row, identity' = [identity EXCEPT ![bd] = row],
           ~stale' => row.ver > identity[bd].ver
    PROVE  \A d \in Device : HigherVersion(d)
<1>1. bd \in Device /\ identity \in [Device -> IdentityRow]
  BY Constants DEF BotInv, TablesOK
<1>. QED
  BY <1>1 DEF HigherVersion

\* The five writers.
LEMMA VersionsRise ==
    ASSUME BotInv, Next
    PROVE  \A d \in Device : HigherVersion(d)
<1>1. bd \in Device /\ identity \in [Device -> IdentityRow] /\ stale \in BOOLEAN /\ MirrorsAgree
      /\ bot.ver \in Nat
  BY Constants DEF BotInv, TablesOK, BotOK, BotRow
<1>2. CASE identity' = identity
  BY <1>2 DEF HigherVersion
<1>3. ASSUME NEW r \in Request, CommitInitialize(r), identity' # identity
      PROVE  \A d \in Device : HigherVersion(d)
  <2>1. ~Initialized
    BY <1>3 DEF CommitInitialize, keyVars
  <2>2. PICK row : row.ver = 1 /\ identity' = [identity EXCEPT ![bd] = row]
    BY <1>3, <2>1 DEF CommitInitialize, Mirror
  <2>3. identity[bd].ver = 0
    BY <1>1, <2>1 DEF Initialized, MirrorsAgree
  <2>4. row.ver > identity[bd].ver
    BY <2>2, <2>3
  <2>. QED
    BY <2>2, <2>4, BotVersionRises
<1>4. ASSUME NEW r \in Request, CommitRotate(r) PROVE \A d \in Device : HigherVersion(d)
  <2>1. PICK v, g : v = arg[r].row.ver + 1 /\ g = arg[r].gen
    OBVIOUS
  <2>2. identity' = [identity EXCEPT ![bd].ver = v, ![bd].spk = g]
    BY <1>4, <2>1 DEF CommitRotate
  <2>3. PICK row : row = [identity[bd] EXCEPT !.ver = v, !.spk = g]
    OBVIOUS
  <2>4. identity' = [identity EXCEPT ![bd] = row]
    BY <1>1, <2>2, <2>3
  <2>5. identity[bd] \in IdentityRow
    BY <1>1
  <2>6. row.ver = v
    BY <2>3, <2>5 DEF IdentityRow
  <2>7. ~stale' => v > identity[bd].ver
    <3>1. ~stale' => bot.ver = arg[r].row.ver
      BY <1>4 DEF CommitRotate
    <3>2. bot.ver = identity[bd].ver /\ bot.ver + 1 > bot.ver
      BY <1>1, NextNumber DEF MirrorsAgree
    <3>. QED
      BY <2>1, <3>1, <3>2
  <2>. QED
    BY <2>4, <2>6, <2>7, BotVersionRises
<1>5. ASSUME NEW r \in Request, CommitRebuild(r) PROVE \A d \in Device : HigherVersion(d)
  <2>1. PICK v : v = arg[r].row.ver + 1
    OBVIOUS
  <2>2. PICK row : row.ver = v /\ identity' = [identity EXCEPT ![bd] = row]
    BY <1>5, <2>1 DEF CommitRebuild, Mirror
  <2>3. ~stale' => v > identity[bd].ver
    <3>1. ~stale' => bot.ver = arg[r].row.ver
      BY <1>5 DEF CommitRebuild
    <3>2. bot.ver = identity[bd].ver /\ bot.ver + 1 > bot.ver
      BY <1>1, NextNumber DEF MirrorsAgree
    <3>. QED
      BY <2>1, <3>1, <3>2
  <2>. QED
    BY <2>2, <2>3, BotVersionRises
<1>6. ASSUME NEW r \in Request, NEW x \in Person, NEW fresh \in BOOLEAN, PutIdentity(r, x, fresh)
      PROVE  \A d \in Device : HigherVersion(d)
  <2>1. PICK g, row : /\ g = (IF fresh THEN made + 1 ELSE identity[x].spk)
                      /\ row = Published(identity[x], g)
    OBVIOUS
  <2>2. identity' = [identity EXCEPT ![x] = row] /\ (fresh => NewGeneration)
    BY <1>6, <2>1 DEF PutIdentity
  <2>3. identity[x] \in IdentityRow /\ x \in Device /\ identity[x].ik = identity[x].spk
    BY <1>1 DEF Person, BotInv, TablesOK
  <2>4. g \in Generation
    <3>1. made \in Nat
      BY MadeIsNat DEF BotInv
    <3>2. fresh => made + 1 \in Generation
      BY <2>2, <3>1, Constants DEF NewGeneration, Generation
    <3>. QED
      BY <2>1, <2>3, <3>2 DEF IdentityRow
  <2>5. row.ik = g /\ row.spk = g /\ row.ver \in Nat
        /\ (identity[x].spk # g => identity[x].ver < row.ver)
    BY <2>1, <2>3, <2>4, PublishedRow DEF IdentityRow
  <2>6. \A d \in Device : d # x => identity'[d] = identity[d]
    BY <1>1, <2>2
  <2>7. identity'[x] = row /\ identity[x].ver \in Nat
    BY <1>1, <2>2, <2>3 DEF IdentityRow
  <2>8. HigherVersion(x)
    BY <2>3, <2>5, <2>7 DEF HigherVersion
  <2>. QED
    BY <2>6, <2>8 DEF HigherVersion
<1>7. ASSUME NEW x \in Person, EndSession(x) PROVE \A d \in Device : HigherVersion(d)
  <2>1. PICK row : row = [identity[x] EXCEPT !.retired = TRUE]
    OBVIOUS
  <2>2. identity' = [identity EXCEPT ![x] = row]
    BY <1>7, <2>1 DEF EndSession, Retire
  <2>3. identity[x] \in IdentityRow /\ x \in Device
    BY <1>1 DEF Person
  <2>4. row.ik = identity[x].ik /\ row.spk = identity[x].spk
    BY <2>1, <2>3 DEF IdentityRow
  <2>. QED
    BY <1>1, <2>2, <2>3, <2>4 DEF HigherVersion
<1>. QED
  BY <1>2, <1>3, <1>4, <1>5, <1>6, <1>7, IdentityWriters

\* e2e_identity.key_version: new keys of a device come with a higher version.
THEOREM NewKeysGetNewVersions == Spec => KeysChangeVersion
<1>1. ASSUME BotInv, Next PROVE \A d \in Device : HigherVersion(d)
  BY <1>1, VersionsRise
<1>2. BotInv /\ [Next]_vars =>
        [\A d \in Device : (identity'[d].ik # identity[d].ik \/ identity'[d].spk # identity[d].spk)
                            /\ ~(d = bd /\ stale') => identity'[d].ver > identity[d].ver]_vars
  BY <1>1 DEF HigherVersion
<1>. QED
  BY <1>2, BotInvariant, PTL DEF Spec, KeysChangeVersion
=============================================================================
