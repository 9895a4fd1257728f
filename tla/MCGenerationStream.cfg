\* Every mode, one viewer that lags and reattaches, a full channel, storage
\* failures and a death.
SPECIFICATION FairSpec
CONSTANTS
  Viewers = {v1}
  Modes <- AllModes
  MaxProvider = 3
  MaxOutput = 2
  MaxPrefix = 2
  ProviderQueue = 1
  ChannelSize = 1
  BusSize = 2
  CheckpointEvery = 2
  MaxFaults = 3
  MaxCrashes = 1
INVARIANTS
    StreamInv
    ViewIsExact
    AnnouncedIsDurable
    LossIsBounded
PROPERTIES
    StreamEnds
