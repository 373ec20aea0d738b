SPECIFICATION Spec
CONSTANTS
    owner = owner
    barber = barber
    drifter = drifter
    None = None
    Unused = Unused
    Deleted = Deleted
    Tenants = {"home", "away"}
    Users = {owner, barber, drifter}
    CategoryIds = {c1, c2}
    ServiceIds = {s1}
    Names = {"", "hair", "haircut"}
    Empty = ""
    Within <- MCWithin
    Requests = {r1, r2}
    RoleOf <- MCRoleOf
    TenantOf <- MCTenantOf
    ProfileOf <- MCProfileOf
SYMMETRY Symmetry
CHECK_DEADLOCK FALSE
INVARIANTS
    TypeOK
    CategoryOfOwnTenant
    StrayOnlyByLateJoin
    ContainedOnlyByRace
PROPERTIES
    TenantsApart
