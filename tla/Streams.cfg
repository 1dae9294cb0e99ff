CONSTANTS
    w1 = w1
    w2 = w2
    phone = phone
    laptop = laptop
    s1 = s1
    s2 = s2
    s3 = s3
    hook = hook
    NoStream = NoStream
    Writer <- MCWriters
    Device = {phone, laptop}
    Stream = {s1, s2}
    Capacity = 1
    MaxMid = 2
    MaxHangUps = 1
SPECIFICATION Spec
SYMMETRY Symmetry
CHECK_DEADLOCK FALSE
INVARIANTS
    StreamExact
    PresenceAnnounced
