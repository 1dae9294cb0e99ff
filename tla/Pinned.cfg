CONSTANTS
    w1 = w1
    w2 = w2
    ann = ann
    bob = bob
    Writer = {w1, w2}
    Pinner = {ann}
    MaxMid = 1
    MaxGid = 2
    MaxEdits = 2
    MaxHangUps = 1
SPECIFICATION PinFairSpec
INVARIANTS
    PinnedShowsMerged
    PinsSurviveRestart
PROPERTIES
    PinnedCatchesUp
