CONSTANTS
    r1 = r1
    r2 = r2
    a = a
    b = b
    c = c
    phone = phone
    laptop = laptop
    boot = boot
    Writers <- MCRequests
    User = {a, b}
    Frozen = {}
    Deletable = {}
    Device = {}
    Owner <- MCOwner
    Payload <- TwoWay
    PendingPayload <- TwoWay
    SEQUENCE_BANDWIDTH = 1
    MaxSeq = 3
    MaxVersion = 0
    MaxCrashes = 1
    MaxErrors = 0
SPECIFICATION Spec
INVARIANT
    RowDescribesMessage
