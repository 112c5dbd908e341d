CONSTANTS
    AccountIDs = {a1}
    Clients = {c1, c2}
    WorldIDs = {w1}
    IPs = {ip1}
    WideIPs = {}
    None = None
SPECIFICATION Spec
INVARIANT SingleSession
