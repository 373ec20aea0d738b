SPECIFICATION Spec
CONSTANTS
    None = None
    ana = ana
    ben = ben
    home = home
    Users = {ana}
    TenantIds = {t1, t2}
    Requests = {r1, r2}
    RoleOf <- MCRoleOf
    TenantOf <- MCTenantOf
    RefreshTTL = 1
    AccessTTL = 1
    CanAbort = TRUE
    MaxTime = 1
SYMMETRY Symmetry
CHECK_DEADLOCK FALSE
INVARIANTS
    TokensBoundedByRace
    StoredIsLatest
    FounderJoins
    ContextIsCurrent
PROPERTY
    TenantIsFinal
