------------------------------ MODULE MagicCodes ------------------------------
(***************************************************************************)
(* The codes behind the magic links, Cache.codes: a map from codes to what *)
(* is known of them, and a second map from an e-mail address to the code   *)
(* of the last login link that was sent to it.  Both are in memory only.   *)
(*                                                                         *)
(* A code is six random digits: gen_code may draw one that is in use.      *)
(* What a link itself says (the address, the account, a signature) is in   *)
(* SignIn.                                                                 *)
(***************************************************************************)
EXTENDS Integers

CONSTANTS
    Code,           \* what gen_code may draw
    Mail,           \* e-mail addresses, equal ones up to case being one
    NoMail          \* the empty address that an invitation has

ASSUME NoMailAssumption == NoMail \notin Mail

VARIABLES
    codes,          \* MagicCodes.codes: code -> [mail, live]
    mailCode        \* MagicCodes.email_code: mail -> code

codeVars == <<codes, mailCode>>

Put(f, k, v) == [x \in DOMAIN f \cup {k} |-> IF x = k THEN v ELSE f[x]]
Without(f, ks) == [x \in DOMAIN f \ ks |-> f[x]]

InitCodes ==
    /\ codes = [k \in {} |-> NoMail]
    /\ mailCode = [m \in {} |-> NoMail]

\* CodeValue: live until it expires.  remain_times only grows: magic_code_check_code
\* is given remain_times with `-= -1`.
CodeValue(m) == [mail |-> m, live |-> TRUE]

Live(k) == k \in DOMAIN codes /\ codes[k].live

\* Mutant: the last code for the address stays.
AddLoginCodeOnly(k, m) ==
    /\ codes' = Put(codes, k, CodeValue(m))
    /\ mailCode' = Put(mailCode, m, k)

\* login_magic_code_add: the last code for the address goes, whoever has drawn
\* it since.
AddLoginCode(k, m) ==
    LET last == IF m \in DOMAIN mailCode THEN {mailCode[m]} ELSE {} IN
    /\ codes' = Put(Without(codes, last), k, CodeValue(m))
    /\ mailCode' = Put(mailCode, m, k)

\* reg_magic_code_add, for an invitation; max_times may be 0.
AddInviteCode(k, usable) ==
    /\ codes' = Put(codes, k, [CodeValue(NoMail) EXCEPT !.live = usable])
    /\ UNCHANGED mailCode

\* magic_code_check_code: a dead code is forgotten.
CheckCode(k) ==
    /\ codes' = IF k \in DOMAIN codes /\ ~codes[k].live THEN Without(codes, {k}) ELSE codes
    /\ UNCHANGED mailCode

\* expired_at has passed.
Expire(k) ==
    /\ Live(k)
    /\ codes' = [codes EXCEPT ![k].live = FALSE]
    /\ UNCHANGED mailCode

\* magic_code_clean, every 30 seconds.
CleanCodes ==
    LET dead == {k \in DOMAIN codes : ~codes[k].live} IN
    /\ codes' = Without(codes, dead)
    /\ mailCode' = Without(mailCode, {codes[k].mail : k \in dead})

CodesTypeOK ==
    /\ DOMAIN codes \subseteq Code
    /\ \A k \in DOMAIN codes : codes[k].mail \in Mail \cup {NoMail} /\ codes[k].live \in BOOLEAN
    /\ DOMAIN mailCode \subseteq Mail
    /\ \A m \in DOMAIN mailCode : mailCode[m] \in Code

\* The code of a login link is the one its address is known for, so that the
\* next link for the address ends it: no address ever has two links that work,
\* although codes collide, expire, and are dropped from each map on its own.
OneLinkPerMail ==
    \A k \in DOMAIN codes :
        codes[k].mail # NoMail =>
            codes[k].mail \in DOMAIN mailCode /\ mailCode[codes[k].mail] = k
=============================================================================
