CONSTANTS
    Shops = {s1, s2}
    Accounts = {a1}
    Orders = {o1, o2}
    Prices = {1, 2}
    InitialCash = 2
SPECIFICATION FairSpec
PROPERTIES
    RequestsSettle
