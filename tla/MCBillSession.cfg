CONSTANTS
    Sessions = {"s1", "s2"}
    SIZE = 2
    MaxSent <- MCMaxSent
SPECIFICATION FairSpec
INVARIANTS
    FramesAligned
    OrderlyCloseIsHarmless
PROPERTIES
    WholeBillPacksHandled
CHECK_DEADLOCK FALSE
