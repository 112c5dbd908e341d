CONSTANTS
    Accounts = {a1}
    Calls = {c1, c2}
    Prices = {1, 2}
    Indexes = {1, 5}
    Delta = 8
    ColumnMax = 60
    InitialPoints = 3
    InitialSlots = 40
    InitialTrunk = 44
SPECIFICATION Spec
INVARIANT DocumentedLimits
CHECK_DEADLOCK FALSE
