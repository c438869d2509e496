CONSTANTS
    Apps = {a1}
    Subs = {s1, s2}
    None = None
    MaxRetries = 0
    CacheSize = 1
    MaxStarts = 2
    MaxNotify = 2
    MaxReads = 3
    MaxAsks = 0
    Codes = {"ok", "gone"}
    Faults = {}
SPECIFICATION Spec
INVARIANTS NothingEverLeft
CHECK_DEADLOCK FALSE
