CONSTANTS
    k1 = k1
    k2 = k2
    k3 = k3
    profile = profile
    shared = shared
    own = own
    Keys = {k1, k2, k3}
    TaskProfiles = {profile}
    InputOf <- MCInputOf
    ProfileOf <- MCProfileOf
    ConcurrencyLimit <- MCConcurrencyLimit
    RateLimitRequests <- MCRateLimitRequests
    RateLimitWindow <- MCRateLimitWindow
    MaxAttempts = 2
    Time <- MCTime
SYMMETRY MCSymmetry
SPECIFICATION Spec
INVARIANTS
    QueueInv
    RateWindowBounded
PROPERTIES
    OnlyLatestClaimReports
    LifecycleSpec
