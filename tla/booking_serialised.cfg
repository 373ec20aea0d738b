SPECIFICATION SerialisedSpec
CONSTANTS
    home = home
    away = away
    barber = barber
    dentist = dentist
    alice = alice
    bob = bob
    carol = carol
    barberUser = barberUser
    dentistUser = dentistUser
    owner = owner
    root = root
    Unused = Unused
    Deleted = Deleted
    Tenants <- MCTenants
    Users = {alice, carol, barberUser, dentistUser, owner, root}
    Providers = {barber, dentist}
    Services = {barber, dentist}
    RoleOf <- MCRoleOf
    TenantOf <- MCTenantOf
    ProviderTenant <- MCProviderTenant
    ProviderUser <- MCProviderUser
    ServiceProvider <- MCServiceProvider
    Slots <- MCSlots
    HoldIds = {h1, h2}
    BookingIds = {b1, b2}
    Requests = {r1, r2}
    HoldTTL = 1
    MaxTime = 2
SYMMETRY Symmetry
CHECK_DEADLOCK FALSE
INVARIANTS
    NoDoubleBooking
    AuditChain
    HoldConvertedOnce
PROPERTIES
    ImplementsTimetable
