\* An administrator, a user and a guest.
CONSTANTS
    NoOwner = NoOwner
    User = {admin, ann, visitor}
    Guest = {visitor}
    Admin = {admin}
    MaxGid = 1
SPECIFICATION Spec
INVARIANTS
    RowsAndCacheAgree
    ClientKnowsItsGroups
    RemovedAreTold
