\* Every kind of writer, an unsealed row of an older schema, siblings and
\* failures: everything settles and every chain ends.
SPECIFICATION FairSpec
CONSTANTS
    e1 = e1  e2 = e2  e3 = e3  b1 = b1  b2 = b2  d1 = d1  d2 = d2  w1 = w1
    Events = {e1, e2, e3}
    Branches = {b1}
    MaxDepth = 2
    MaxChainEvents = 2
    Drainers = {d1, d2}
    Writers = {w1}
    WriterKinds = {"event", "generation", "choice", "approval", "rejection"}
    ClaimLimit = 1
    LegacyOn <- OneLegacy
    MaxFanout = 2
    MaxRoots = 1
    MaxFaults = 1
    MaxRestarts = 1
    MaxRows = 4
INVARIANTS
    DerivedInv
PROPERTIES
    OccurrencesSettleForGood
