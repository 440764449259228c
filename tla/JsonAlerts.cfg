SPECIFICATION Spec
CONSTANTS
    Keys = {k1, k2}
    Sessions = {s1}
    Cap = 3
    MaxTicks = 5
INVARIANT JsonTimesActive
