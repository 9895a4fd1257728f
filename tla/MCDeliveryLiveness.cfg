CONSTANTS
    after = after
    committed = committed
    opened = opened
    room = room
    otherRoom = otherRoom
    supervisor = supervisor
    command = command
    Occurrences = {after, committed, opened}
    Branches = {room, otherRoom}
    BranchOf <- MCBranchOf
    IdRank <- MCIdRank
    MessageCommitted = {committed}
    AfterGenerationOf <- MCAfterGenerationOf
    Time <- MCTime
    LeaseSeconds = 1
    Horizon = 1
    Drainers = {supervisor, command}
    Supervisor = supervisor
    MaxDeliveries = 9
    MaxFailures = 1
    MaxLost = 0
    MaxRevision = 0
    MaxRestarts = 1
SPECIFICATION FairSpec
PROPERTIES
    OutboxSpec
    OccurrencesAreDelivered
