SPECIFICATION FairRogueSpec
CONSTANTS
    NumJournals = 1
    MaxIndex = 3
    KeyLimit <- TightKeys
    NumFixed = 0
    MaxStart = 1
    MaxBoots = 1
    MaxInflight = 1
    Batch = 2
    Once = TRUE
    NodeUrl = TRUE
    MaxFaults = 1
INVARIANTS HolesWarned GapsAreReal
PROPERTY KeptIsArchived
