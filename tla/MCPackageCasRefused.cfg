\* A death while the same bytes are promoted under another media type.
CONSTANTS
    i1 = i1
    i2 = i2
    a = a
    b = b
    s = s
    Threads = {t1, t2}
    Imports = {i1, i2}
    Sources = {s}
    Assets = {a}
    Media = {m, n}
    SourceOf <- OneSource
    AssetsOf <- SameAssets
    MediaOf <- OtherMedia
    CardObjects = {}
    CardMedia = m
    Pinned = {}
    MaxJobs = 0
    MaxFaults = 0
    MaxCrashes = 1
SPECIFICATION FairSpec
PROPERTY AlwaysOpens
