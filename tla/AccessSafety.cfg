SPECIFICATION MCSpec
CONSTANTS
    owner = owner
    user = user
    shared = shared
    home = home
    d1 = d1
    d2 = d2
    NoTenant = NoTenant
    Unusable = Unusable
    Users <- MCUsers
    Tenants <- MCTenants
    Owner <- MCOwner
    Personal <- MCPersonal
    Managed <- MCManaged
    Devices <- OneDevice
    UserOf <- OneUserOf
    Interval = 1
    TTL = 1
    MaxErrors = 1
CHECK_DEADLOCK FALSE
INVARIANTS
    TypeOK
    BarredStaysOut
    OwnerFollows
    TokenGrounded
PROPERTIES
    RestoreExact
    DevicesSettle
