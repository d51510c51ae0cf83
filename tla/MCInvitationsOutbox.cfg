\* Invitations: two of them, two accept calls, one inviter that may regenerate, the deletion
\* of the tenant.  Outbox: one row, two worker slots, workers of other files on the queue.
SPECIFICATION EitherSpec
CONSTANTS
    u1 = u1
    u2 = u2
    i1 = i1
    a1 = a1
    a2 = a2
    NoUser = NoUser
    Users <- TwoUsers
    Inviters <- OneInviter
    Acceptors <- TwoAcceptors
    MaxInvitations = 2
    MaxTokens = 3
    d1 = d1
    s1 = s1
    w1 = w1
    w2 = w2
    Deliveries <- OneDelivery
    Senders <- OneSender
    Workers <- TwoWorkers
    MaxAttempts = 2
    MaxStalled = 1
    SweepLimit = 1
    SharedQueue = TRUE
    LockLoss = FALSE
    SendingThrows = FALSE
    MaxFaults = 4
INVARIANTS
    SpentByOneAccept
    OneActiveMembership
    MembersWereInvited
    DuplicatesAccounted
PROPERTIES
    WithdrawnNotRedeemed
    ImplementsLifecycle
SYMMETRY Exchangeable
CHECK_DEADLOCK FALSE
