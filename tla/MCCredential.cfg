\* Three installations, two failures of the vault and two process deaths.
CONSTANTS
    MaxAuthorities = 3
    MaxFaults = 2
    MaxCrashes = 2
SPECIFICATION FairSpec
INVARIANTS
    CredentialInv
    SettledJournalIsDurable
    NoOrphanCredential
    ReplacementKeepsACopy
PROPERTIES
    TriggersAgree
    UncertainSettles
