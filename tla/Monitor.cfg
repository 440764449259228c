\* The JSON reader exits.
CHECK_DEADLOCK FALSE
SPECIFICATION FairSpec
CONSTANTS
    Heads = {h1}
    MaxChanges = 3
INVARIANTS TypeOK ReadySurvivesNoOutage CompleteIsProbed
PROPERTIES RejectionsNoticed AlertsSettle
