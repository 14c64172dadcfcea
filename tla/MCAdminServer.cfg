CONSTANTS
    Tasks = {t1, t2}
    Ids = {s1, s2}
    Users = {alice}
    Capabilities = {view, alter}
    Ttl = 1
    None = None
    MaxClock = 1
    Served = {"overview", "page", "mutation", "logout", "login"}
    Outages = TRUE
SYMMETRY Symmetry
INVARIANTS ActsAsItsSession EndedSessionsDoNothing LogoutIsFinal
PROPERTIES SignInPurges OpenedOnce
SPECIFICATION Spec
