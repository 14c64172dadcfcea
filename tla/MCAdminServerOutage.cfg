CONSTANTS
    Tasks = {t1, t2}
    Ids = {s1}
    Users = {alice}
    Capabilities = {view, alter}
    Ttl = 1
    None = None
    MaxClock = 1
    Served = {"login"}
    Outages = TRUE
SPECIFICATION Spec
INVARIANT OutageIsNot401
