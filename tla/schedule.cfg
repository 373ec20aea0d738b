SPECIFICATION FairSpec
CONSTANTS
    admin = admin
    barberUser = barberUser
    dentistUser = dentistUser
    None = None
    Weekdays = {1, 2, 3}
    Dtos <- MCDtos
    Requests = {r1, r2}
    Users = {admin, barberUser, dentistUser}
    RoleOf <- MCRoleOf
    TenantOf <- MCTenantOf
    Tenant = "home"
    Owner = barberUser
CHECK_DEADLOCK FALSE
INVARIANTS
    TypeOK
    StoredWhole
    AloneReplacesAll
    CollidesOnlyByRace
PROPERTY
    UpdateEnds
    ImplementsWeek
