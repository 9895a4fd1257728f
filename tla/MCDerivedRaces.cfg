\* Two drainers, a writer of root events, failures and a restart.
SPECIFICATION Spec
CONSTANTS
    e1 = e1  e2 = e2  e3 = e3  b1 = b1  b2 = b2  d1 = d1  d2 = d2  w1 = w1
    Events = {e1, e2}
    Branches = {b1, b2}
    MaxDepth = 2
    MaxChainEvents = 2
    Drainers = {d1, d2}
    Writers = {w1}
    WriterKinds = {"event", "choice"}
    ClaimLimit = 1
    LegacyOn <- TwoLegacyElsewhere
    MaxFanout = 2
    MaxRoots = 2
    MaxFaults = 1
    MaxRestarts = 1
    MaxRows = 4
SYMMETRY DerivedSymmetry
INVARIANTS
    AppliedInOrder
    AcknowledgedIffApplied
    RootsFollowClosure
