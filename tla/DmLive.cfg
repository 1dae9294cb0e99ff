CONSTANTS
    r1 = r1
    r2 = r2
    a = a
    b = b
    c = c
    phone = phone
    laptop = laptop
    boot = boot
    Writers <- MCRequests
    User = {a, b}
    Frozen = {}
    Deletable = {b}
    Device = {}
    Owner <- MCOwner
    Payload <- WithEdit
    PendingPayload <- WithEdit
    SEQUENCE_BANDWIDTH = 1
    MaxSeq = 3
    MaxVersion = 0
    MaxCrashes = 1
    MaxErrors = 1
SPECIFICATION FairSpec
INVARIANTS
    PendingNeverLost
    QuerySeesStored
PROPERTIES
    EveryMarkerReplayed
