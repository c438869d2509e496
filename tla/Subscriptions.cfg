CONSTANTS
    Apps = {a1, a2}
    Subs = {s1}
    None = None
    MaxRetries = 1
    CacheSize = 1
    MaxStarts = 1
    MaxNotify = 2
    MaxReads = 3
    MaxAsks = 2
    Codes = {"ok", "challenge", "gone"}
    Faults = {"send"}
SPECIFICATION Spec
SYMMETRY AppSymmetry
INVARIANTS DeliveredInOrder ReportedIffAnswered RepeatsAnsweredAlike NothingLeftToDeliver TableMatchesOutcome
CHECK_DEADLOCK FALSE
