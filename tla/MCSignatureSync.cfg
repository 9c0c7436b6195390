\* Pages of two signatures of a chain that grows to five while they are read.
SPECIFICATION FairSpec
CONSTANTS
    PageLimit = 2
    DefaultLimit = 3
    HoursChoices <- FewHours
    LimitChoices <- FewLimits
    Null = Null
    MaxTime = 2
    MaxChain = 5
INVARIANTS
    TypeOK
    SyncCovers
    Contiguous
    WithinHours
    OvershootIsOnePage
PROPERTY
    SyncEnds
