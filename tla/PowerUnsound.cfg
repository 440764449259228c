SPECIFICATION PowerSpec
CONSTANTS
    NumJournals = 1
    MaxIndex = 2
    KeyLimit <- WideKeys
    NumFixed = 1
    MaxStart = 1
    MaxBoots = 3
    MaxInflight = 1
    Batch = 1
    Once = FALSE
    NodeUrl = TRUE
    MaxFaults = 1
INVARIANT ArchiveSound
