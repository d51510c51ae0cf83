\* An admin, two requests in flight: the tenant a panel request names is not verified.
SPECIFICATION EitherSpec
CONSTANTS
    a1 = a1
    b1 = b1
    t1 = t1
    t2 = t2
    r1 = r1
    r2 = r2
    q1 = q1
    q2 = q2
    e1 = e1
    c1 = c1
    None = None
    Users <- AdminAndUser
    Admins <- OneAdmin
    Tenants <- TwoTenants
    RowIds <- TwoRows
    Home <- SameHome
    Tables <- EmptyOrFull
    Slots <- TwoSlots
    MaxRequests = 2
    MaxMoves = 1
    Editors <- OneEditor
    Clients <- OneClient
    MaxWrites = 2
    MaxTyped = 1
INVARIANT
    TenantVerified
SYMMETRY Symmetry
CHECK_DEADLOCK FALSE
