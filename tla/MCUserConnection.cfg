CONSTANTS
    AccountIDs = {a1}
    Clients = {c1, c2, c3, c4}
    WorldIDs = {w1, w2}
    IPs = {ip1, ip2, wide}
    WideIPs = {wide}
    None = None
SPECIFICATION Spec
SYMMETRY Symmetric
INVARIANTS
    TableSound
    CurrentIPOfNewestRow
    SessionLock
PROPERTIES
    HeldLockAdmitsNobody
    BanClosesAccount
