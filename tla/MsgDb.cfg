CONSTANTS
    w1 = w1
    w2 = w2
    plain = plain
    deferred = deferred
    Writers <- MCWriters
    Payload <- MCPayload
    PendingPayload <- MCPending
    SEQUENCE_BANDWIDTH = 2
    MaxSeq = 7
SPECIFICATION DbSpec
INVARIANTS
    DbInv
PROPERTIES
    MessageImmutable
    ImplementsLog
