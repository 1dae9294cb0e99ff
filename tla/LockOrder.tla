------------------------------ MODULE LockOrder ------------------------------
(***************************************************************************)
(* Which locks the handlers take, in which order, and how long they keep   *)
(* them: a guard bound by let lives to the end of its block, a guard that  *)
(* is a temporary to the end of its statement.                             *)
(*                                                                         *)
(* Handlers that take one lock at a time and no other, like most of those  *)
(* that read or change the cache, are the programs Read and Write.         *)
(***************************************************************************)
EXTENDS Sequences

Locks3 == {"cache", "key", "license"}

Rd(l) == [op |-> "read", lock |-> l, at |-> ""]
Wr(l) == [op |-> "write", lock |-> l, at |-> ""]
Dr(l) == [op |-> "drop", lock |-> l, at |-> ""]

Read(l) == <<Rd(l), Dr(l)>>
Write(l) == <<Wr(l), Dr(l)>>

\* G_LICENSE is a Mutex.
LockLicense == <<Wr("license"), Dr("license")>>

-----------------------------------------------------------------------------
\* get_dynamic_config_instance
GetConfig == Read("cache")

\* enforce_e2e_required reads the configuration; send_message keeps the read
\* side from its first check to the broadcast, and the notification needs the
\* server id.
SendMessage ==
    GetConfig \o <<Rd("cache")>> \o Read("key") \o <<Dr("cache")>>

\* create_reg_magic_link of a group: the guard of the permission check ends
\* before get_frontend_url reads the cache again.
CreateRegMagicLink ==
    Write("cache") \o GetConfig \o Read("key") \o Write("cache")

CreateBotApiKey == <<Wr("cache")>> \o Read("key") \o <<Dr("cache")>>

UpdateThirdPartySecret == Write("key")

\* create_user returns its guard of the cache; the callers drop it.
CreateUser == <<Wr("cache")>> \o LockLicense \o <<Dr("cache")>>

DoLogin == <<Wr("cache")>> \o Read("key") \o <<Dr("cache")>>

LoginGuest == GetConfig \o Read("cache") \o CreateUser \o DoLogin

\* check_license, when the page was loaded from localhost and when not.
CheckLicenseLocal == LockLicense

CheckLicense == <<Wr("license")>> \o Read("cache") \o <<Dr("license")>>

-----------------------------------------------------------------------------
\* magic_code_check_code
CheckCode == Write("cache")

\* login keeps its guard of key_config to the end.
Login(license, credential) ==
    license \o GetConfig \o <<Rd("key")>> \o credential \o DoLogin \o <<Dr("key")>>

Password == Read("cache")

Upgrade == [Wr("cache") EXCEPT !.at = "upgrade"]

\* A stored password of an old kind is replaced in SQLite and in the cache.
OldPassword == Read("cache") \o <<Upgrade, Dr("cache")>>

MagicLink == CheckCode \o Read("key") \o CheckCode

\* assign_username under the write side.
MagicLinkNewUser == MagicLink \o Write("cache") \o CreateUser

\* The guard of key_config is taken again for the arm.
ThirdPartyNewUser ==
    <<Rd("key")>> \o Write("cache") \o CreateUser \o <<Dr("key")>>

\* register keeps its guard of key_config too; an invitation adds a group.
Register ==
    <<Rd("key")>> \o GetConfig \o Read("cache") \o CreateUser \o DoLogin
        \o Write("cache") \o <<Dr("key")>>

\* send_reg_magic_link, with mail.
SendRegMagicLink ==
    GetConfig \o <<Rd("key")>> \o CheckCode \o Read("key") \o Read("cache")
        \o <<Dr("key")>>

\* send_login_magic_link
SendLoginMagicLink(license) ==
    license \o GetConfig \o GetConfig \o Read("cache") \o Write("cache") \o Read("key")

-----------------------------------------------------------------------------
\* Handlers that take the locks in the order cache, license, key_config, each
\* while it holds no later one.
Ordered ==
    {Read("cache"), Write("cache"), Read("key"), LockLicense,
     SendMessage, CreateRegMagicLink, CreateBotApiKey, UpdateThirdPartySecret,
     CreateUser, LoginGuest, SendLoginMagicLink(CheckLicenseLocal)}

\* Handlers that take key_config first.
KeyFirst ==
    {Login(CheckLicenseLocal, c) :
        c \in {Password, OldPassword, MagicLink, MagicLinkNewUser, ThirdPartyNewUser}}
    \cup {Register, SendRegMagicLink}
=============================================================================
