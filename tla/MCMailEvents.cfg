\* Postmark or SES, one message, its bounce and its delivery; one edit of the list, one fault.
SPECIFICATION Spec

CONSTANTS
    m1 = m1
    Transports = {"postmark", "ses"}
    Messages = {m1}
    Notifications <- MCNotifications
    Receivers = {r1}
    Administrators = {admin}
    Sender = sender
    NoMessage = NoMessage
    NoEvent = NoEvent
    Callers <- MCCallers
    Jobs <- MCEventIds
    MaxAttempts = 2
    MaxStalled = 1
    SharedQueue = TRUE
    MaxEdits = 1
    MaxFaults = 1

INVARIANTS
    UnprocessedAccounted
    ProcessedTookEffect
    NoFalseNegative

CHECK_DEADLOCK FALSE
