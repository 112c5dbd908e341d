CONSTANTS
    Accounts = {a1}
    Calls = {c1, c2, c3}
    Prices = {1, 2}
    Indexes = {1, 5}
    Delta = 8
    ColumnMax = 60
    InitialPoints = 3
    InitialSlots = 40
    InitialTrunk = 40
SPECIFICATION Spec
SYMMETRY Symmetric
INVARIANTS
    PointsAccountedFor
    DebtComesFromCapacity
    SlotsBounded
    GrowthIsPaidFor
CHECK_DEADLOCK FALSE
