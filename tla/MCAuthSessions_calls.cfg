\* Any two of login, refresh, logout, clear and reset at a time.
SPECIFICATION Spec
CONSTANTS
    s1 = s1
    f1 = f1
    f2 = f2
    c1 = c1
    c2 = c2
    Signers <- OneSigner
    Refreshers <- TwoRefreshers
    Clearers <- TwoClearers
    AccessTtl = 1
    RefreshTtl = 3
    Buffer = 1
    MaxTime = 3
    MaxPairs = 2
    MaxResets = 1
INVARIANTS
    LoggedOutStaysOut
    ExchangedNeverAccepted
    LastClearHolds
    ResetTokenOnce
CONSTRAINT TwoAtATime
VIEW Seen
SYMMETRY Symmetry
CHECK_DEADLOCK FALSE
