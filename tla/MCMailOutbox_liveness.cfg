\* One row, two worker slots, workers of other files on the queue; jobs may be taken from
\* live workers.
SPECIFICATION FairSpec
CONSTANTS
    d1 = d1
    s1 = s1
    w1 = w1
    w2 = w2
    Deliveries <- OneDelivery
    Senders <- OneSender
    Workers <- TwoWorkers
    MaxAttempts = 2
    MaxStalled = 1
    SweepLimit = 1
    SharedQueue = TRUE
    LockLoss = TRUE
    SendingThrows = FALSE
    MaxFaults = 2
INVARIANT
    QueuedNeverMailed
PROPERTIES
    QueuedEventuallyPicked
    JobEventuallyEnds
CHECK_DEADLOCK FALSE
