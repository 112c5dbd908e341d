CONSTANTS
    Sessions = {"s1"}
    SIZE = 3
    MaxSent <- MCOneSent
SPECIFICATION FairSpec
PROPERTY RequestsServed
CHECK_DEADLOCK FALSE
