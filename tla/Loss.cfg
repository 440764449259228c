SPECIFICATION Spec
CONSTANTS
    NumJournals = 2
    MaxIndex = 1
    KeyLimit <- WideKeys
    NumFixed = 0
    MaxStart = 1
    MaxBoots = 2
    MaxInflight = 2
    Batch = 2
    Once = FALSE
    NodeUrl = TRUE
    MaxFaults = 1
INVARIANTS TypeOK NoLoss WatermarkCovered NoGaps
