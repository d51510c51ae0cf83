\* One requestOtp at a time, three verifyOtp handlers, up to two codes.
SPECIFICATION OtpSpec
CONSTANTS
    r1 = r1
    r2 = r2
    v1 = v1
    v2 = v2
    v3 = v3
    Requesters <- OneRequester
    Verifiers <- ThreeVerifiers
    MaxAttempts = 2
    MaxCodes = 2
    MaxCount = 3
INVARIANTS
    ComparisonBudget
    RedeemedOnce
PROPERTIES
    LockoutIsFinal
    OnlyLatestRedeemed
SYMMETRY Symmetry
CHECK_DEADLOCK FALSE
