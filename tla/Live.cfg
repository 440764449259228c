SPECIFICATION FairSpec
CONSTANTS
    NumJournals = 1
    MaxIndex = 1
    KeyLimit <- WideKeys
    NumFixed = 1
    MaxStart = 1
    MaxBoots = 2
    MaxInflight = 2
    Batch = 1
    Once = FALSE
    NodeUrl = TRUE
    MaxFaults = 1
PROPERTIES EverythingArchived SpaceReclaimable SnapshotsConverge
