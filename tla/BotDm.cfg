CONSTANTS
    b = b
    p = p
    r1 = r1
    r2 = r2
    i1 = i1
    i2 = i2
    Device <- MCDevice
    OtpIds <- MCOtpIds
    MaxMade = 3
    Request <- MCRequest
    bd = b
    Inbound <- MCInbound
    MaxCalls = 5
    MaxErrors = 1
    MaxRetries = 2
    Plans <- MCPlans
SPECIFICATION Spec
SYMMETRY Symmetric
CHECK_DEADLOCK FALSE
INVARIANTS
    BotKeysAgree
    EnvelopesReadable
PROPERTIES
    KeysChangeVersion
