------------------------------ MODULE MC_Locks ------------------------------
(* Three requests at a time, of the handlers that a run is about. *)
EXTENDS Locks, LockOrder, TLC

CONSTANTS r1, r2, r3

Symmetry == Permutations(Request)

\* Of the handlers that take the cache before any other lock, those that take
\* more than one; login_guest calls create_user and do_login.
CacheFirst ==
    {SendMessage, CreateRegMagicLink, CreateBotApiKey, UpdateThirdPartySecret, LoginGuest}

\* The order that Ordered is about.
Rank == [l \in Locks3 |->
           CASE l = "cache" -> 1 [] l = "license" -> 2 [] l = "key" -> 3]

ASSUME HandlersKeepOrder == \A p \in Ordered \cup CacheFirst : KeepsOrder(p, Rank)

OldLogin == Login(CheckLicenseLocal, OldPassword)

SecretChanges == KeyFirst \cup {LoginGuest, UpdateThirdPartySecret}

LicenseChecks == {OldLogin, SendLoginMagicLink(CheckLicense), CreateUser}
=============================================================================
