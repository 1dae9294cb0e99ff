CONSTANTS
    r1 = r1
    r2 = r2
    a = a
    b = b
    c = c
    phone = phone
    laptop = laptop
    boot = boot
    Writers <- MCRequests
    User = {a, b}
    Frozen = {}
    Deletable = {}
    Device = {phone, laptop}
    Owner <- MCOwner
    Payload <- OneWay
    PendingPayload <- OneWay
    SEQUENCE_BANDWIDTH = 1
    MaxSeq = 2
    MaxVersion = 2
    MaxCrashes = 0
    MaxErrors = 0
SPECIFICATION Spec
INVARIANT
    EnvelopeTiedToVersion
