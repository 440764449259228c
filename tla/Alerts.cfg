SPECIFICATION Spec
CONSTANTS
    Keys = {k1, k2}
    Sessions = {s1, s2}
    Cap = 3
    MaxTicks = 5
SYMMETRY Symmetry
INVARIANTS TypeOK ActiveRaised ClearsPaired FileWhole
PROPERTY HistoryKept
