\* An admin and a user, two tenants, two rows, two requests in flight; a person and a client at one row.
SPECIFICATION EitherSpec
CONSTANTS
    a1 = a1
    b1 = b1
    t1 = t1
    t2 = t2
    r1 = r1
    r2 = r2
    q1 = q1
    q2 = q2
    e1 = e1
    c1 = c1
    None = None
    Users <- AdminAndUser
    Admins <- OneAdmin
    Tenants <- TwoTenants
    RowIds <- TwoRows
    Home <- SameHome
    Tables <- EmptyOrFull
    Slots <- TwoSlots
    MaxRequests = 2
    MaxMoves = 1
    Editors <- OneEditor
    Clients <- OneClient
    MaxWrites = 2
    MaxTyped = 1
INVARIANTS
    ChangesEntitled
    AuditExact
    EditsAccounted
    RejectionsExplained
    ValidatedIsInsertable
    DiffsExplained
VIEW Seen
SYMMETRY Symmetry
CHECK_DEADLOCK FALSE
