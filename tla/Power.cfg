SPECIFICATION PowerSpec
CONSTANTS
    NumJournals = 1
    MaxIndex = 1
    KeyLimit <- WideKeys
    NumFixed = 1
    MaxStart = 1
    MaxBoots = 2
    MaxInflight = 1
    Batch = 1
    Once = FALSE
    NodeUrl = TRUE
    MaxFaults = 0
INVARIANTS RestoreHeals GenerationsRise
PROPERTY ArchiveAppendOnly
