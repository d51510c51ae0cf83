\* Two accounts, two addresses, two profiles, two requests in flight.
SPECIFICATION Spec
CONSTANTS
    u1 = u1
    u2 = u2
    e1 = e1
    e2 = e2
    x1 = x1
    x2 = x2
    c1 = c1
    c2 = c2
    NoOne = NoOne
    Users <- TwoUsers
    Emails <- TwoEmails
    Profiles <- TwoProfiles
    AddressOf <- SameAddress
    Vouched <- VouchedOne
    Calls <- TwoCalls
    MaxTokens = 1
    MaxIdentities = 2
    MaxChanges = 1
    MaxSlugs = 2
INVARIANTS
    EverySignInEntitled
    ConfirmedMeansVerified
    AccountsWhole
SYMMETRY Symmetry
CHECK_DEADLOCK FALSE
