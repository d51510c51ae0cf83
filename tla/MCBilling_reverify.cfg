\* The adapter of stripe.ts; no faults, no foreign workers: every job runs to its end.
SPECIFICATION FairSpec

CONSTANTS
    recon = recon
    t1 = t1
    t2 = t2
    v1 = v1
    v2 = v2
    Tenants = {t1}
    Watched = {}
    NoTenant = NoTenant
    Readers = {g1}
    StripeTypes <- MCTypes
    Setups <- StripeOnly
    Customers = {1}
    NoCustomer = 0
    Visitors = {v1}
    Notices <- MCNotices
    ReconIds = {}
    Receivers = {r1}
    Reconcilers = {r1}
    NoEvent = NoEvent
    Jobs <- MCEventIds
    MaxAttempts = 2
    MaxStalled = 1
    SharedQueue = FALSE
    Statuses = {"canceled"}
    MaxFaults = 0

PROPERTY
    StoredEventuallyProcessed

CHECK_DEADLOCK FALSE
