CONSTANTS
    s1 = s1
    e1 = e1
    summaryTask = summaryTask
    embeddingTask = embeddingTask
    Keys = {s1, e1}
    TaskProfiles = {summaryTask, embeddingTask}
    InputOf <- MCInputOf
    ProfileOf <- MCProfileOf
    ConcurrencyLimit <- MCLimits
    RateLimitRequests <- MCLimits
    RateLimitWindow <- MCLimits
    MaxAttempts = 3
    Time <- MCTime
    SummaryOf <- MCSummaryOf
    FirstOf <- MCFirstOf
    LastOf <- MCLastOf
    MaxMessages = 3
    MaxTargets = 2
    MaxRevisions = 2
SPECIFICATION FairSpec
INVARIANTS
    RuntimeInv
    UsableMemoryIsOnBranch
    OneRequestPerDecision
PROPERTIES
    JobsRunTheirLifecycle
