SPECIFICATION WebhookSpec
CONSTANTS
    home = home
    away = away
    barber = barber
    dentist = dentist
    alice = alice
    bob = bob
    carol = carol
    barberUser = barberUser
    dentistUser = dentistUser
    owner = owner
    root = root
    Unused = Unused
    Deleted = Deleted
    Tenants <- MCTenants
    Users = {alice, owner}
    Providers = {barber}
    Services = {barber}
    RoleOf <- MCRoleOf
    TenantOf <- MCTenantOf
    ProviderTenant <- MCProviderTenant
    ProviderUser <- MCOwnerProvides
    ServiceProvider <- MCServiceProvider
    Slots <- MCOneSlot
    HoldIds = {h1, h2}
    BookingIds = {b1, b2}
    Requests = {r1, r2}
    HoldTTL = 0
    MaxTime = 0
    MaxLog = 2
SYMMETRY Symmetry
CHECK_DEADLOCK FALSE
INVARIANTS
    OnlyConfirmedUnlogged
    OverlapOnlyByRaceOrReturn
PROPERTIES
    LeavesPaidTimetableOnlyByRace
