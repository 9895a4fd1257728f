CONSTANTS
    after = after
    committed = committed
    opened = opened
    room = room
    supervisor = supervisor
    command = command
    Occurrences = {after, committed, opened}
    Branches = {room}
    BranchOf <- MCBranchOf
    IdRank <- MCIdRank
    MessageCommitted = {committed}
    AfterGenerationOf <- MCAfterGenerationOf
    Time <- MCTime
    LeaseSeconds = 1
    Horizon = 2
    Drainers = {supervisor, command}
    Supervisor = supervisor
    MaxDeliveries = 2
    MaxFailures = 1
    MaxLost = 1
    MaxRevision = 1
    MaxRestarts = 1
SPECIFICATION Spec
INVARIANTS
    DeliveryIsSafe
    SomebodyIsUnblocked
PROPERTIES
    AppliedOnce
    OnlyLatestDeliverySettles
