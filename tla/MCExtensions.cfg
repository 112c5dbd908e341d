SPECIFICATION Spec
CONSTANTS
    v1 = v1
    v2 = v2
    absent = absent
    nil = nil
    Fields <- MCFields
    MaxFields = 3
    ShortMax = 14
    Decode4Order <- LeftToRight
    Garbage = {0, 88}
    Cuts <- MCCuts
    Looks <- MCLooks
    Losses <- MCCuts
    Keys = {1, 2, 3, 4}
    Hash <- MCHash
    Sizes = {2, 3}
    LastRank = 4
    Orders <- MCOrders
    Values = {v1, v2}
    Default = absent
    Null = nil
    MaxCalls = 5
    Handles = {1, 2}
    Threads = {t1, t2, t3}
    MaxPackets = 4
    MaxConnections = 2
SYMMETRY MCSymmetry
INVARIANTS
    RegionHoldsPacket
    PacketsRead
    StatTransferred
    LookTransferred
    ZMapTruthful
    PatchesTakeEffect
    KeyAgrees
    WindowModeApplied
    HandlesSpared
    SequenceInStep
CHECK_DEADLOCK FALSE
