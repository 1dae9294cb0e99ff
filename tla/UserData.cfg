SPECIFICATION UserDataSpec
CONSTANTS
    bob = bob
    g = g
    d1 = d1
    d2 = d2
    c1 = c1
    r1 = r1
    r2 = r2
    a1 = a1
    a2 = a2
    a3 = a3
    p1 = p1
    t1 = t1
    t2 = t2
    Peer = {bob}
    Gid = {g}
    Owner <- MCOwner
    Device = {d1, d2}
    MaxMid = 2
    MaxTime = 2
    MaxBatch = 2
    MaxChanges = 2
    Name = {"ann", "Ann", "bob"}
    Fold <- MCFold
    Follower = {c1}
    MaxUid = 2
    MaxLog = 3
    KeyName = {"k1", "k2"}
    MaxKeys = 3
    Setter = {a1, a2, a3}
    Request = {r1, r2}
    Chunks = 2
    MaxInode = 2
    MaxRepeats = 2
    Asker = {r1, r2}
    FileExpiryDays = 0
    MaxFavorites = 1
    MaxDay = 1
    MaxArchives = 2
    MaxSkip = 1
    MaxSent = 4
    SendRequest = {r1, r2}
    Phone = {p1}
    PushToken = {t1, t2}
    MaxMessages = 1
    MaxSwitches = 2
    Writer = {r1, r2}
    PageSize = 1
    MaxPages = 2
    MaxLimit = 2
    MaxNow = 1
    MaxPosts = 3
SYMMETRY MCSymmetry
CHECK_DEADLOCK FALSE
INVARIANTS
    SettingsAgree
    ProfilesAgree
    KeysAgree
    ConfigAgrees
    UploadsWhole
    ArchivesKept
    MessagesStayReadable
    SendsFollowSettings
    PlainWasAllowed
    HistoryComplete
