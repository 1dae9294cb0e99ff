CONSTANTS
    r1 = r1
    r2 = r2
    phone = phone
    laptop = laptop
    c1 = c1
    c2 = c2
    Request <- MCRequests
    Device = {phone}
    DeliveryRequest <- MCRequests
    MlsDevice = {phone, laptop}
    CommitId = {c1, c2}
    NoCommit = NoCommit
    Replied <- MCReplied
    Mid = {1, 2}
    MaxEpoch = 2
    MaxGeneration = 1
    Package = {1, 2}
    NoRoute = NoRoute
    NoDevice = NoDevice
    LeaseTime = 2
    MaxTime = 5
SPECIFICATION MCSpec
SYMMETRY MCSymmetry
CHECK_DEADLOCK FALSE
INVARIANTS
    NoSlotSkipped
    SlotStoredOnce
    StoredAsReserved
    RouteAndPackages
    LeaseKept
