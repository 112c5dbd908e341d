CONSTANTS
    Connections = {c1, c2}
    Accounts = {a, b}
    Names = {n}
    Nobody = nobody
    MaxCalls = 3
    Servers = {d1, d2}
    MaxEntries = 2
    MaxTasks = 5
    Callers = {s1, s2}
    Givers = {g1, g2}
    Receivers = {g2, r}
    Month = 3
    MaxDay = 4
    MaxFames = 4
SPECIFICATION GameWorldSpec
INVARIANTS
    WholeOrNothing
    OneTrunk
    BoardConsistent
    FameLimits
PROPERTIES
    DeletionCleans
CHECK_DEADLOCK FALSE
