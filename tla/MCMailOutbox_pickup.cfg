\* One row, one worker of mail.send and those of other files, no fault: markSending as it is written.
SPECIFICATION FairSpec
CONSTANTS
    d1 = d1
    s1 = s1
    w1 = w1
    w2 = w2
    Deliveries <- OneDelivery
    Senders <- OneSender
    Workers <- OneWorker
    MaxAttempts = 2
    MaxStalled = 1
    SweepLimit = 1
    SharedQueue = TRUE
    LockLoss = FALSE
    SendingThrows = TRUE
    MaxFaults = 0
PROPERTY
    QueuedEventuallyPicked
CHECK_DEADLOCK FALSE
