\* Idempotency: three requests of one key, on either store.  Shutdown: two requests and a
\* job on a pool of one connection.
SPECIFICATION EitherSpec
CONSTANTS
    r1 = r1
    r2 = r2
    r3 = r3
    Requests <- ThreeRequests
    q1 = q1
    q2 = q2
    j1 = j1
    Served <- TwoRequests
    Jobs <- OneJob
    Connections = {c1}
    c1 = c1
    Nobody = Nobody
    MaxCalls = 2
INVARIANTS
    OneInside
    CleanExitLosesNothing
    NothingUsesClosed
PROPERTIES
    ReplayedNotRerun
    AnswerKept
    KeyReleased
    ShutdownEnds
CHECK_DEADLOCK FALSE
