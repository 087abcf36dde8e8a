SPECIFICATION Spec
CONSTANTS
    t1 = t1
    t2 = t2
    u1 = u1
    u2 = u2
    Tenant = {t1, t2}
    User = {u1, u2}
    Session = {s1, s2}
    None = None
    Founder <- Founders
    Scope <- Scopes
    KeyScopes <- KeysMade
    Ask <- Asks
    MaxChanges = 3
SYMMETRY Requests
INVARIANTS
    MoreRightsPass
PROPERTIES
    RolesComeFromManagers
CHECK_DEADLOCK FALSE
