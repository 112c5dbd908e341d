CONSTANTS
    water = water
    effect = effect
    pet = pet
    Connections = {c1, c2}
    SNs = {water, effect, pet}
    Kind <- MCKind
    Number <- MCNumber
    Old = {water, pet}
    Characters = {1}
    MaxCalls = 3
SPECIFICATION Spec
INVARIANTS
    ItemsConsistent
    AnsweredWorkLasts
PROPERTIES
    ExpiryTakesOnlyExpired
    CallsReturn
CHECK_DEADLOCK FALSE
