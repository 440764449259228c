\* Every store may be one that no archiver can read: then nothing is left to do.
CHECK_DEADLOCK FALSE
SPECIFICATION Spec
CONSTANTS
    HeadIds = {h1, h2}
    Half = 1
    Stores = {s1, s2}
    Archives = {a1}
    Archivers = {k1, k2}
    Supported = 3
    MaxVersion = 4
    MaxFormats = 2
INVARIANTS TypeOK OneOwner NeverMisread
PROPERTY StampKept
