SPECIFICATION FairSpec
CONSTANTS
    MaxBlock = 5
    StepCap = 3
    HardEvery = 2
    MaxFails = 1
    MaxLosses = 1
INVARIANTS TypeOK NothingInvented
PROPERTIES SearchExact PollEnds Converges
