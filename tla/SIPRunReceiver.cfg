CONSTANTS
    Apps = {a1}
    Receivers = {r1, r2}
    Timers = {w1}
    None = None
    Later = Later
    Threshold = 1
    Hops = {"origin"}
    Faults = {"stream"}
    Answers = {"ok", "retry"}
    MaxStops = 1
    MaxFaults = 1
SPECIFICATION Spec
INVARIANTS ReceiversOwnTheirRun
CHECK_DEADLOCK FALSE
