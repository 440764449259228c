SPECIFICATION Spec
CONSTANTS
    NumJournals = 1
    MaxIndex = 1
    KeyLimit <- WideKeys
    NumFixed = 2
    MaxStart = 1
    MaxBoots = 1
    MaxInflight = 1
    Batch = 1
    Once = FALSE
    NodeUrl = TRUE
    MaxFaults = 1
INVARIANTS ArchivedInOrder SnapshotBacked PassComplete
PROPERTY RetentionSpec
