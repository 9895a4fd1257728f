\* Two packages and a card that share an asset, declared under two media
\* types: every interleaving, failure and death.
CONSTANTS
    i1 = i1
    i2 = i2
    a = a
    b = b
    s = s
    Threads = {t1, t2}
    Imports = {i1, i2}
    Sources = {s}
    Assets = {a, b}
    Media = {m, n}
    SourceOf <- OneSource
    AssetsOf <- SameAssets
    MediaOf <- OtherMedia
    CardObjects = {b}
    CardMedia = m
    Pinned = {s}
    MaxJobs = 1
    MaxFaults = 1
    MaxCrashes = 2
SPECIFICATION FairSpec
INVARIANTS
    StoreInv
    ReferenceIsStored
PROPERTIES
    OpensClean
    RecoveryCompletes
