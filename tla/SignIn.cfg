CONSTANTS
    c1 = c1
    c2 = c2
    m1 = m1
    Code = {k1, k2}
    Mail = {m1}
    NoMail = NoMail
    Client = {c1, c2}
    Identity <- Some
    Secret = {s1}
    NoSecret = NoSecret
    Device = {phone}
    NoDevice = NoDevice
    NoCode = NoCode
    MaxUid = 3
    MaxCalls = 4
SPECIFICATION Spec
SYMMETRY Symmetry
INVARIANTS
    OneLinkPerMail
    AccountsKept
    SessionsKept
