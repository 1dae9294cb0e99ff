CONSTANTS
    r1 = r1
    r2 = r2
    a = a
    b = b
    c = c
    phone = phone
    laptop = laptop
    boot = boot
    Writers = {r1}
    User = {a, b, c}
    Frozen = {}
    Deletable = {c}
    Device = {}
    Owner <- MCOwner
    Payload <- EditToDeleted
    PendingPayload <- EditToDeleted
    SEQUENCE_BANDWIDTH = 1
    MaxSeq = 4
    MaxVersion = 0
    MaxCrashes = 0
    MaxErrors = 0
SPECIFICATION FairSpec
PROPERTY
    EveryMarkerReplayed
