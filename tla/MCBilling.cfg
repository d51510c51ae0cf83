\* Two tenants, two checkouts, the end of a subscription and a reconciliation; one fault.
SPECIFICATION Spec

CONSTANTS
    recon = recon
    t1 = t1
    t2 = t2
    v1 = v1
    v2 = v2
    Tenants = {t1, t2}
    Watched = {t1}
    NoTenant = NoTenant
    Readers = {g1}
    StripeTypes <- MCTypes
    Setups <- MCSetups
    Customers = {1, 2}
    NoCustomer = 0
    Visitors = {v1, v2}
    Notices <- MCNotices
    ReconIds = {recon}
    Receivers = {r1}
    Reconcilers = {r1}
    NoEvent = NoEvent
    Jobs <- MCEventIds
    MaxAttempts = 2
    MaxStalled = 1
    SharedQueue = TRUE
    Statuses = {"active", "canceled"}
    MaxFaults = 1

SYMMETRY Symmetric

INVARIANTS
    EventsAccounted
    EventsReachTheirTenant
    StaleEntitlementsExplained

CHECK_DEADLOCK FALSE
