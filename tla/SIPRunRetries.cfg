CONSTANTS
    Apps = {a1}
    Receivers = {r1, r2}
    Timers = {w1}
    None = None
    Later = Later
    Threshold = 2
    Hops = {"origin", "proxy"}
    Faults = {"open", "send", "stream"}
    Answers = {"ok", "retry"}
    MaxStops = 1
    MaxFaults = 2
SPECIFICATION FairSpec
INVARIANTS NothingLeft KeepsRegistering
PROPERTIES RegisteredIsThisRun CallsReturn
CHECK_DEADLOCK FALSE
