SPECIFICATION Spec
CONSTANTS
    Loaders <- TwoLoaders
    Layouts <- OneOrTwoTabs
    l1 = l1
    l2 = l2
    Users = {ada}
    None = None
    CookieAge = 2
    OwnTtl = 1
    SessionAge = 3
    Lifetime = 4
    MaxTime = 3
    MaxTokens = 2
    MaxFaults = 1
INVARIANTS

    RenewedInStep
CHECK_DEADLOCK FALSE
