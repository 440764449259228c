SPECIFICATION FairRogueSpec
CONSTANTS
    NumJournals = 1
    MaxIndex = 2
    KeyLimit <- WideKeys
    NumFixed = 0
    MaxStart = 1
    MaxBoots = 1
    MaxInflight = 1
    Batch = 1
    Once = FALSE
    NodeUrl = TRUE
    MaxFaults = 1
PROPERTY HolesFlagged
