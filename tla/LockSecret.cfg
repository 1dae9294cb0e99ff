CONSTANTS
    r1 = r1
    r2 = r2
    r3 = r3
    Nobody = Nobody
    Request = {r1, r2, r3}
    Lock <- Locks3
    Program <- SecretChanges
SPECIFICATION Spec
SYMMETRY Symmetry
INVARIANT
    UpgradeGetsLock
CHECK_DEADLOCK FALSE
