CONSTANTS
    Users = {a1, a2, u1}
    Admins = {a1, a2}
    Arguments = {0, 2}
    Garbage = {0, 32, 51, 88}
    MaxRequests = 2
    Start <- InDungeonOrTown
    EXP_RATE = 4
    DROP_RATE = 4
    NoArgument <- Unset
SPECIFICATION Spec
INVARIANTS
    AnnouncedRateInForce
PROPERTIES
    LinesHandledOnce
    ChangesAllowed
    NobodyStaysBlocked
CHECK_DEADLOCK FALSE
